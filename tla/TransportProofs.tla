--------------------------- MODULE TransportProofs ---------------------------
(***************************************************************************)
(* Proofs about the transport stream, for any program: any number of         *)
(* tracks, units and packets, any interleaving of them and any number of     *)
(* packets that belong to nothing among them, any groups, threads and order  *)
(* in which they end, and any one packet lost or repeated on the way.        *)
(* First the operators: how units are ordered (Arranged), what demux does    *)
(* packet by packet (Run) and so what it has of a stream that mux wrote      *)
(* (ReceivedInOrder), or of one with a packet lost or repeated               *)
(* (TrackDamageHeard, TableLossHeard); what locking does to pictures,        *)
(* groups, audio frames, and that unlocking takes it back (TrackBack).       *)
(* Then the program.  None of the properties is inductive.  The invariant    *)
(* has three parts: Inv, what each buffer holds while the carrier is read;   *)
(* TypeInv, what the variables hold, the pool's results above all; and       *)
(* Story, which says at each place of the two commands what became of the    *)
(* carrier's units.                                                          *)
(***************************************************************************)
EXTENDS Transport, FiniteSetTheorems, DataInduction

-----------------------------------------------------------------------------
(* Arranging a finite set in an order.                                       *)

\* r puts the elements of S one after the other.
Orders(r, S) ==
    /\ \A a \in S : <<a, a>> \notin r
    /\ \A a, b \in S : a # b => <<a, b>> \in r \/ <<b, a>> \in r
    /\ \A a, b, c \in S : <<a, b>> \in r /\ <<b, c>> \in r => <<a, c>> \in r

\* The elements that come before a.
Before(S, r, a) == {b \in S : <<b, a>> \in r}

\* An element that comes later has more before it.
LEMMA RankRises ==
  ASSUME NEW S, IsFiniteSet(S), NEW r, Orders(r, S)
  PROVE  /\ \A a \in S : Cardinality(Before(S, r, a)) \in 0 .. Cardinality(S) - 1
         /\ \A a, b \in S : <<a, b>> \in r =>
                Cardinality(Before(S, r, a)) < Cardinality(Before(S, r, b))
<1>1. Cardinality(S) \in Nat
  BY FS_CardinalityType
<1>2. ASSUME NEW a \in S
      PROVE  /\ IsFiniteSet(Before(S, r, a)) /\ Cardinality(Before(S, r, a)) \in Nat
             /\ Cardinality(Before(S, r, a)) < Cardinality(S)
  <2>1. Before(S, r, a) \in SUBSET S /\ a \notin Before(S, r, a)
    BY DEF Before, Orders
  <2>2. IsFiniteSet(Before(S, r, a)) /\ Cardinality(Before(S, r, a)) <= Cardinality(S)
        /\ (Cardinality(S) = Cardinality(Before(S, r, a)) => S = Before(S, r, a))
    BY <2>1, FS_Subset
  <2>3. Cardinality(Before(S, r, a)) \in Nat
    BY <2>2, FS_CardinalityType
  <2> QED BY <1>1, <2>1, <2>2, <2>3
<1>3. ASSUME NEW a \in S, NEW b \in S, <<a, b>> \in r
      PROVE  Cardinality(Before(S, r, a)) < Cardinality(Before(S, r, b))
  <2>1. Before(S, r, a) \in SUBSET Before(S, r, b) /\ a \in Before(S, r, b)
        /\ a \notin Before(S, r, a)
    BY <1>3 DEF Before, Orders
  <2>2. Cardinality(Before(S, r, a)) <= Cardinality(Before(S, r, b))
        /\ (Cardinality(Before(S, r, b)) = Cardinality(Before(S, r, a))
                => Before(S, r, b) = Before(S, r, a))
    BY <1>2, <2>1, FS_Subset
  <2> QED BY <1>2, <2>1, <2>2
<1> QED BY <1>1, <1>2, <1>3

(* Arranged has every element of a finite set, in order.                     *)
LEMMA ArrangedFacts ==
  ASSUME NEW S, IsFiniteSet(S), NEW r, Orders(r, S)
  PROVE  /\ Arranged(S, r) \in Seq(S) /\ Len(Arranged(S, r)) = Cardinality(S)
         /\ Cardinality(S) \in Nat
         /\ \A i, j \in 1 .. Cardinality(S) : i < j => <<Arranged(S, r)[i], Arranged(S, r)[j]>> \in r
         /\ \A a \in S : \E i \in 1 .. Cardinality(S) : Arranged(S, r)[i] = a
<1> DEFINE n == Cardinality(S)
           q == Arranged(S, r)
           Rank(a) == Cardinality(Before(S, r, a))
           rank == [a \in S |-> Rank(a)]
<1>1. n \in Nat
  BY FS_CardinalityType
<1>2. /\ \A a \in S : Rank(a) \in 0 .. n - 1
      /\ \A a, b \in S : <<a, b>> \in r => Rank(a) < Rank(b)
  BY RankRises
<1>3. q = [i \in 1 .. n |-> CHOOSE a \in S : Rank(a) = i - 1]
  BY DEF Arranged, Before
<1> HIDE DEF n, q, Rank
<1>4. \A a, b \in S : Rank(a) = Rank(b) => a = b
  <2> SUFFICES ASSUME NEW a \in S, NEW b \in S, a # b PROVE Rank(a) # Rank(b)
    OBVIOUS
  <2>1. <<a, b>> \in r \/ <<b, a>> \in r
    BY DEF Orders
  <2> QED BY <1>2, <2>1
<1>5. rank \in Injection(S, 0 .. n - 1)
  BY <1>2, <1>4 DEF Injection, IsInjective
<1>6. IsFiniteSet(0 .. n - 1) /\ Cardinality(0 .. n - 1) = n
  BY <1>1, FS_Interval
<1>7. rank \in Surjection(S, 0 .. n - 1)
  BY <1>5, <1>6, FS_Injection DEF n
<1>8. \A i \in 1 .. n : \E a \in S : Rank(a) = i - 1
  <2> TAKE i \in 1 .. n
  <2>1. i - 1 \in 0 .. n - 1
    BY <1>1
  <2> QED BY <1>7, <2>1 DEF Surjection
<1>9. \A i \in 1 .. n : q[i] \in S /\ Rank(q[i]) = i - 1
  BY <1>3, <1>8
<1>10. q \in Seq(S) /\ Len(q) = n
  <2>1. q \in [1 .. n -> S]
    BY <1>3, <1>9
  <2> QED BY <1>1, <2>1
<1>11. \A i, j \in 1 .. n : i < j => <<q[i], q[j]>> \in r
  <2> SUFFICES ASSUME NEW i \in 1 .. n, NEW j \in 1 .. n, i < j PROVE <<q[i], q[j]>> \in r
    OBVIOUS
  <2>1. q[i] \in S /\ q[j] \in S /\ Rank(q[i]) = i - 1 /\ Rank(q[j]) = j - 1
    BY <1>9
  <2>2. Rank(q[i]) # Rank(q[j])
    BY <2>1
  <2>3. q[i] # q[j]
    BY <2>2
  <2>4. <<q[i], q[j]>> \in r \/ <<q[j], q[i]>> \in r
    BY <2>1, <2>3 DEF Orders
  <2>5. <<q[j], q[i]>> \in r => Rank(q[j]) < Rank(q[i])
    BY <1>2, <2>1
  <2> QED BY <2>1, <2>4, <2>5
<1>12. ASSUME NEW a \in S PROVE \E i \in 1 .. n : q[i] = a
  <2>1. Rank(a) + 1 \in 1 .. n /\ (Rank(a) + 1) - 1 = Rank(a)
    BY <1>1, <1>2
  <2>2. q[Rank(a) + 1] \in S /\ Rank(q[Rank(a) + 1]) = Rank(a)
    BY <1>9, <2>1
  <2> QED BY <1>4, <2>1, <2>2
<1> QED BY <1>1, <1>10, <1>11, <1>12 DEF n, q

\* There is only one such arrangement.
LEMMA ArrangedIs ==
  ASSUME NEW S, NEW r, Orders(r, S), NEW n \in Nat, NEW q \in [1 .. n -> S],
         \A i, j \in 1 .. n : i < j => <<q[i], q[j]>> \in r,
         \A a \in S : \E i \in 1 .. n : q[i] = a
  PROVE  Arranged(S, r) = q /\ IsFiniteSet(S) /\ Cardinality(S) = n
<1> DEFINE Rank(a) == Cardinality({b \in S : <<b, a>> \in r})
<1>1. \A i, j \in 1 .. n : q[i] = q[j] => i = j
  <2> SUFFICES ASSUME NEW i \in 1 .. n, NEW j \in 1 .. n, i < j PROVE q[i] # q[j]
    OBVIOUS
  <2>1. <<q[i], q[j]>> \in r /\ q[i] \in S
    OBVIOUS
  <2> QED BY <2>1 DEF Orders
<1>2. IsFiniteSet(S) /\ Cardinality(S) = n
  <2>1. q \in Surjection(1 .. n, S) /\ q \in Injection(1 .. n, S)
    BY <1>1 DEF Surjection, Injection, IsInjective
  <2>2. IsFiniteSet(1 .. n) /\ Cardinality(1 .. n) = n
    BY FS_Interval
  <2> QED BY <2>1, <2>2, FS_Surjection
<1>3. ASSUME NEW i \in 1 .. n
      PROVE  Rank(q[i]) = i - 1
  <2> DEFINE T == {q[k] : k \in 1 .. i - 1}
             f == [k \in 1 .. i - 1 |-> q[k]]
  <2>1. {b \in S : <<b, q[i]>> \in r} = T
    <3>1. ASSUME NEW b \in S, <<b, q[i]>> \in r PROVE b \in T
      <4>1. PICK k \in 1 .. n : q[k] = b
        OBVIOUS
      <4>2. ~ (i < k) /\ i # k
        <5>1. i = k => <<q[i], q[i]>> \in r
          BY <3>1, <4>1
        <5>2. i < k => <<q[i], q[k]>> \in r /\ <<q[k], q[i]>> \in r
          BY <3>1, <4>1
        <5>3. i < k => <<q[i], q[i]>> \in r
          BY <5>2 DEF Orders
        <5> QED BY <5>1, <5>3 DEF Orders
      <4>3. k \in 1 .. i - 1
        BY <4>2
      <4> QED BY <4>1, <4>3
    <3>2. \A k \in 1 .. i - 1 : q[k] \in S /\ <<q[k], q[i]>> \in r
      OBVIOUS
    <3> QED BY <3>1, <3>2
  <2>2. f \in Surjection(1 .. i - 1, T) /\ f \in Injection(1 .. i - 1, T)
    BY <1>1 DEF Surjection, Injection, IsInjective
  <2>3. IsFiniteSet(1 .. i - 1) /\ Cardinality(1 .. i - 1) = i - 1
    BY FS_Interval
  <2> HIDE DEF f, T
  <2>4. Cardinality(T) = i - 1
    BY <2>2, <2>3, FS_Surjection
  <2> QED BY <2>1, <2>4
<1>4. Arranged(S, r) = [i \in 1 .. n |-> CHOOSE a \in S : Rank(a) = i - 1]
  BY <1>2 DEF Arranged
<1> HIDE DEF Rank
<1>5. ASSUME NEW i \in 1 .. n
      PROVE  (CHOOSE a \in S : Rank(a) = i - 1) = q[i]
  <2>1. q[i] \in S /\ Rank(q[i]) = i - 1
    BY <1>3
  <2>2. \A a \in S : Rank(a) = i - 1 => a = q[i]
    <3> TAKE a \in S
    <3>1. PICK k \in 1 .. n : q[k] = a
      OBVIOUS
    <3>2. Rank(a) = k - 1
      BY <1>3, <3>1
    <3> QED BY <3>1, <3>2
  <2> QED BY <2>1, <2>2
<1> QED BY <1>2, <1>4, <1>5

Rising(s) == \A i, j \in DOMAIN s : i < j => s[i] < s[j]

(* Numbers are in order.                                                     *)
LEMMA NumbersOrdered ==
  ASSUME NEW S, S \subseteq Nat
  PROVE  Orders({p \in S \X S : p[1] < p[2]}, S)
BY DEF Orders

(* The same of numbers that rise.                                            *)
LEMMA AscendingFacts ==
  ASSUME NEW n \in Nat, NEW S, S \subseteq 1 .. n
  PROVE  /\ Ascending(S) \in Seq(S) /\ Rising(Ascending(S)) /\ Len(Ascending(S)) \in Nat
         /\ \A a \in S : \E i \in DOMAIN Ascending(S) : Ascending(S)[i] = a
         /\ \A i \in DOMAIN Ascending(S) : Ascending(S)[i] \in S
<1> DEFINE r == {p \in S \X S : p[1] < p[2]}
           q == Arranged(S, r)
<1>1. Orders(r, S)
  <2>1. S \subseteq Nat
    OBVIOUS
  <2> QED BY ONLY <2>1, NumbersOrdered
<1>2. IsFiniteSet(S)
  <2>1. IsFiniteSet(1 .. n) /\ S \in SUBSET (1 .. n)
    BY FS_Interval
  <2> HIDE DEF r, q
  <2> QED BY ONLY <2>1, FS_Subset
<1>3. /\ q \in Seq(S) /\ Len(q) = Cardinality(S) /\ Cardinality(S) \in Nat
      /\ \A i, j \in 1 .. Cardinality(S) : i < j => <<q[i], q[j]>> \in r
      /\ \A a \in S : \E i \in 1 .. Cardinality(S) : q[i] = a
  <2> HIDE DEF r
  <2> QED BY <1>1, <1>2, ArrangedFacts
<1> HIDE DEF q
<1>4. DOMAIN q = 1 .. Cardinality(S) /\ \A i \in DOMAIN q : q[i] \in S
  BY <1>3
<1>5. Rising(q)
  BY <1>3, <1>4 DEF Rising
<1>6. Ascending(S) = q
  BY DEF Ascending, q
<1> QED BY <1>3, <1>4, <1>5, <1>6

(* A sequence that rises and has just the numbers of S is Ascending(S).      *)
LEMMA AscendingIs ==
  ASSUME NEW S, S \subseteq Nat, NEW s \in Seq(S), Rising(s),
         \A a \in S : \E i \in DOMAIN s : s[i] = a
  PROVE  Ascending(S) = s
<1> DEFINE r == {p \in S \X S : p[1] < p[2]}
<1>1. Orders(r, S)
  BY NumbersOrdered
<1> DEFINE n == Len(s)
<1>2. n \in Nat /\ s \in [1 .. n -> S] /\ DOMAIN s = 1 .. n
  OBVIOUS
<1> HIDE DEF n
<1>3. \A i, j \in 1 .. n : i < j => <<s[i], s[j]>> \in r
  BY <1>2 DEF Rising
<1>5. \A a \in S : \E i \in 1 .. n : s[i] = a
  BY <1>2
<1> HIDE DEF r
<1>4. Arranged(S, r) = s
  BY ONLY <1>1, <1>2, <1>3, <1>5, ArrangedIs
<1> QED BY <1>4 DEF Ascending, r

-----------------------------------------------------------------------------
(* The pieces of a sequence.                                                 *)

\* The pieces that begin at rising places.
Within(starts, s) == starts \in Seq(Nat) /\ Rising(starts) /\ \A k \in DOMAIN starts : starts[k] \in 1 .. Len(s)

\* Where the k-th piece of n elements ends.
PieceEnd(starts, k, n) == IF k < Len(starts) THEN starts[k + 1] - 1 ELSE n

(* What a piece is: not empty, and where it lies.                            *)
LEMMA PiecesTyped ==
  ASSUME NEW S, NEW s \in Seq(S), NEW starts, Within(starts, s)
  PROVE  /\ Pieces(s, starts) \in Seq(Seq(S)) /\ Len(Pieces(s, starts)) = Len(starts)
         /\ Len(starts) \in Nat
         /\ \A k \in 1 .. Len(starts) :
               LET x == Pieces(s, starts)[k]
                   e == PieceEnd(starts, k, Len(s))
               IN  /\ x = SubSeq(s, starts[k], e) /\ x \in Seq(S)
                   /\ starts[k] \in 1 .. Len(s) /\ e \in starts[k] .. Len(s)
                   /\ Len(x) = e - starts[k] + 1 /\ Len(x) \in Nat \ {0}
                   /\ \A j \in 1 .. Len(x) : x[j] = s[starts[k] + j - 1]
<1> DEFINE p == Pieces(s, starts)
           End(k) == PieceEnd(starts, k, Len(s))
<1>1. Len(starts) \in Nat /\ DOMAIN starts = 1 .. Len(starts) /\ Len(s) \in Nat
  BY DEF Within
<1>2. p = [k \in 1 .. Len(starts) |-> SubSeq(s, starts[k], End(k))]
  BY <1>1 DEF Pieces, PieceEnd
<1>3. ASSUME NEW k \in 1 .. Len(starts)
      PROVE  starts[k] \in 1 .. Len(s) /\ End(k) \in starts[k] .. Len(s)
  <2>1. starts[k] \in 1 .. Len(s)
    BY <1>1 DEF Within
  <2>2. k < Len(starts) => k + 1 \in 1 .. Len(starts) /\ starts[k + 1] \in 1 .. Len(s)
                           /\ starts[k] < starts[k + 1]
    BY <1>1 DEF Within, Rising
  <2> QED BY <1>1, <2>1, <2>2 DEF PieceEnd
<1> HIDE DEF p, End
<1>4. ASSUME NEW k \in 1 .. Len(starts)
      PROVE  /\ p[k] = SubSeq(s, starts[k], End(k)) /\ p[k] \in Seq(S)
             /\ Len(p[k]) = End(k) - starts[k] + 1 /\ Len(p[k]) \in Nat \ {0}
             /\ \A j \in 1 .. Len(p[k]) : p[k][j] = s[starts[k] + j - 1]
  <2> DEFINE a == starts[k]
             e == End(k)
  <2>1. a \in 1 .. Len(s) /\ e \in a .. Len(s)
    BY <1>3
  <2> HIDE DEF a, e
  <2>2. a \in Nat /\ e \in Nat /\ 1 <= a /\ a <= e + 1 /\ e <= Len(s) /\ e - a + 1 \in Nat \ {0}
    BY <1>1, <2>1
  <2>3. /\ SubSeq(s, a, e) \in Seq(S) /\ Len(SubSeq(s, a, e)) = e - a + 1
        /\ \A j \in 1 .. e - a + 1 : SubSeq(s, a, e)[j] = s[a + j - 1]
    BY ONLY s \in Seq(S), <2>2, SeqSlice
  <2>4. p[k] = SubSeq(s, a, e)
    BY <1>2 DEF a, e
  <2> QED BY <2>2, <2>3, <2>4 DEF a, e
<1>5. p \in Seq(Seq(S)) /\ Len(p) = Len(starts)
  <2>1. p \in [1 .. Len(starts) -> Seq(S)]
    BY <1>2, <1>4
  <2> QED BY <1>1, <2>1
<1> QED BY <1>1, <1>3, <1>4, <1>5 DEF p, End

\* A join falls into what was joined.
LEMMA PiecesOfFlatten ==
  ASSUME NEW S, NEW p \in Seq(Seq(S)), NEW starts \in Seq(Nat), Len(starts) = Len(p),
         \A k \in 1 .. Len(p) : starts[k] = Upto(p, k - 1) + 1
  PROVE  Pieces(FlattenSeq(p), starts) = p
<1> DEFINE w == FlattenSeq(p)
<1>1. Len(p) \in Nat /\ DOMAIN starts = 1 .. Len(p) /\ p \in [1 .. Len(p) -> Seq(S)]
  OBVIOUS
<1>2. ASSUME NEW k \in 1 .. Len(p)
      PROVE  SubSeq(w, starts[k], IF k < Len(starts) THEN starts[k + 1] - 1 ELSE Len(w)) = p[k]
  <2>1. SubSeq(w, Upto(p, k - 1) + 1, Upto(p, k)) = p[k] /\ Upto(p, k) \in Nat
    BY FlattenAt
  <2>2. CASE k < Len(p)
    <3>1. k + 1 \in 1 .. Len(p) /\ (k + 1) - 1 = k
      BY <1>1, <2>2
    <3>2. starts[k + 1] = Upto(p, k) + 1
      BY <3>1
    <3>3. starts[k + 1] - 1 = Upto(p, k)
      BY <2>1, <3>2
    <3> QED BY <2>1, <2>2, <3>3
  <2>3. CASE ~ (k < Len(p))
    <3>1. k = Len(p)
      <4> DEFINE n == Len(p)
      <4>1. n \in Nat /\ k \in 1 .. n /\ ~ (k < n)
        BY <1>1, <2>3
      <4> HIDE DEF n
      <4>2. k = n
        BY ONLY <4>1
      <4> QED BY <4>2 DEF n
    <3>2. Upto(p, k) = Len(w)
      BY <3>1, UptoFacts
    <3> QED BY <2>1, <2>3, <3>2
  <2> QED BY <2>2, <2>3
<1> HIDE DEF w
<1>3. Pieces(w, starts) = [k \in 1 .. Len(p) |-> p[k]]
  BY <1>1, <1>2 DEF Pieces
<1> QED BY <1>1, <1>3 DEF w

\* The pieces of a sequence that begin at its first place, joined, are it.
LEMMA FlattenOfPieces ==
  ASSUME NEW S, NEW s \in Seq(S), NEW starts, Within(starts, s), starts # <<>>, starts[1] = 1
  PROVE  /\ FlattenSeq(Pieces(s, starts)) = s
         /\ \A k \in 1 .. Len(starts) : Upto(Pieces(s, starts), k - 1) + 1 = starts[k]
<1> DEFINE p == Pieces(s, starts)
           n == Len(starts)
           Stop(k) == IF k < n THEN starts[k + 1] - 1 ELSE Len(s)
           T == {k \in Nat : k <= n => FlattenSeq(SubSeq(p, 1, k)) = SubSeq(s, 1, IF k = 0 THEN 0 ELSE Stop(k))}
<1>1. /\ p \in Seq(Seq(S)) /\ Len(p) = n /\ n \in Nat /\ Len(s) \in Nat
      /\ \A k \in 1 .. n : /\ p[k] = SubSeq(s, starts[k], Stop(k))
                           /\ starts[k] \in 1 .. Len(s) /\ Stop(k) \in starts[k] .. Len(s)
  <2>1. \A k : Stop(k) = PieceEnd(starts, k, Len(s))
    BY DEF PieceEnd
  <2> HIDE DEF Stop
  <2> QED BY <2>1, PiecesTyped
<1>2. n # 0 /\ n >= 1
  BY <1>1 DEF Within
<1> HIDE DEF p
<1>3. 0 \in T
  <2>1. SubSeq(p, 1, 0) = <<>> /\ SubSeq(s, 1, 0) = <<>>
    BY <1>1
  <2> QED BY <2>1, FlattenEmpty
<1>4. ASSUME NEW k \in Nat, k \in T, k + 1 <= n
      PROVE  FlattenSeq(SubSeq(p, 1, k + 1)) = SubSeq(s, 1, Stop(k + 1))
  <2> DEFINE e == IF k = 0 THEN 0 ELSE Stop(k)
             f == Stop(k + 1)
  <2>1. k + 1 \in 1 .. n /\ (k + 1) - 1 = k /\ k <= n
    BY <1>1, <1>4
  <2>2. FlattenSeq(SubSeq(p, 1, k)) = SubSeq(s, 1, e)
    BY <1>4, <2>1
  <2>3. FlattenSeq(SubSeq(p, 1, k + 1)) = FlattenSeq(SubSeq(p, 1, k)) \o p[k + 1]
    <3>1. k + 1 \in 1 .. Len(p)
      BY <1>1, <2>1
    <3>2. FlattenSeq(SubSeq(p, 1, k + 1)) = FlattenSeq(SubSeq(p, 1, (k + 1) - 1)) \o p[k + 1]
      BY <1>1, <3>1, FlattenSplit
    <3> QED BY <2>1, <3>2
  <2>4. e + 1 = starts[k + 1] /\ e \in Nat
    <3>1. CASE k = 0
      BY <3>1
    <3>2. CASE k # 0
      <4>1. k < n /\ k \in 1 .. n /\ starts[k + 1] \in 1 .. Len(s)
        BY <1>1, <2>1, <3>2
      <4>2. e = starts[k + 1] - 1
        BY <3>2, <4>1
      <4> QED BY <4>1, <4>2
    <3> QED BY <3>1, <3>2
  <2>5. p[k + 1] = SubSeq(s, starts[k + 1], f) /\ f \in starts[k + 1] .. Len(s)
    BY <1>1, <2>1
  <2> HIDE DEF e, f, Stop
  <2>6. f \in Nat /\ 1 <= e + 1 /\ e <= f /\ f <= Len(s)
    BY <1>1, <2>4, <2>5
  <2>7. SubSeq(s, 1, e) \o SubSeq(s, e + 1, f) = SubSeq(s, 1, f)
    BY ONLY s \in Seq(S), <2>4, <2>6, SeqSlicesMeet
  <2> QED BY <2>2, <2>3, <2>4, <2>5, <2>7 DEF f
<1>5. \A k \in Nat : k \in T
  <2>1. ASSUME NEW k \in Nat, k \in T PROVE k + 1 \in T
    <3>1. k + 1 # 0
      OBVIOUS
    <3> HIDE DEF Stop
    <3> QED BY <1>4, <2>1, <3>1
  <2> HIDE DEF T
  <2> QED BY <1>3, <2>1, Inductively
<1>6. \A k \in 0 .. n : FlattenSeq(SubSeq(p, 1, k)) = SubSeq(s, 1, IF k = 0 THEN 0 ELSE Stop(k))
  <2> HIDE DEF Stop
  <2> QED BY <1>1, <1>5
<1>7. FlattenSeq(p) = s
  <2>1. SubSeq(p, 1, n) = p /\ SubSeq(s, 1, Len(s)) = s
    BY <1>1
  <2>2. Stop(n) = Len(s)
    BY <1>1
  <2>3. n \in 0 .. n
    BY <1>1
  <2> HIDE DEF Stop, n
  <2>4. FlattenSeq(SubSeq(p, 1, n)) = SubSeq(s, 1, Stop(n))
    BY <1>2, <1>6, <2>3
  <2> QED BY <2>1, <2>2, <2>4
<1>8. ASSUME NEW k \in 1 .. n PROVE Upto(p, k - 1) + 1 = starts[k]
  <2>1. k - 1 \in 0 .. n
    BY <1>1
  <2>2. CASE k = 1
    <3>1. Upto(p, 0) = 0
      BY <1>1, UptoFacts
    <3> QED BY <2>2, <3>1
  <2>3. CASE k # 1
    <3>1. k - 1 \in 1 .. n /\ k - 1 < n /\ (k - 1) + 1 = k /\ starts[k] \in 1 .. Len(s)
      BY <1>1, <2>3
    <3>2. Stop(k - 1) = starts[k] - 1
      BY <3>1
    <3> DEFINE e == starts[k] - 1
    <3>3. FlattenSeq(SubSeq(p, 1, k - 1)) = SubSeq(s, 1, e)
      <4>1. k - 1 # 0
        BY <3>1
      <4> HIDE DEF Stop
      <4> QED BY <1>6, <2>1, <3>2, <4>1
    <3>4. e \in Nat /\ e <= Len(s) /\ e + 1 = starts[k]
      BY <1>1, <3>1
    <3> HIDE DEF e
    <3>5. Len(SubSeq(s, 1, e)) = e
      BY <1>1, <3>4
    <3> QED BY <3>3, <3>4, <3>5 DEF Upto
  <2> QED BY <2>2, <2>3
<1> QED BY <1>7, <1>8 DEF p

-----------------------------------------------------------------------------
(* The order in which the units of a program go into the stream.             *)

\* The programs that have the tracks of c.
Programs(c) == [DOMAIN c -> Seq(AnyUnit)]

(* A carrier is a sequence of tracks, none of which has a table's number.     *)
LEMMA CarrierTyped ==
  ASSUME NEW c \in Carriers
  PROVE  /\ c \in Seq(Track) /\ DOMAIN c = 1 .. Len(c) /\ Len(c) \in Nat
         /\ \A t \in DOMAIN c : /\ c[t] \in Track /\ c[t].units \in Seq(Unit)
                                /\ t \in Nat \ {0} /\ t \notin Tables
<1>1. c \in Seq(Track)
  BY TransportAssumption
<1>2. DOMAIN c = 1 .. Len(c) /\ Len(c) \in Nat
  BY <1>1
<1>3. ASSUME NEW t \in DOMAIN c
      PROVE  /\ c[t] \in Track /\ c[t].units \in Seq(Unit) /\ t \in Nat \ {0} /\ t \notin Tables
  <2>1. c[t] \in Track
    BY <1>1, <1>2
  <2>2. c[t].units \in Seq(Unit)
    BY <2>1 DEF Track
  <2>3. t \in Nat \ {0} /\ t \notin Tables
    BY <1>2 DEF Tables, Pat, Pmt
  <2> QED BY <2>1, <2>2, <2>3
<1> QED BY <1>1, <1>2, <1>3

(* A unit always has a time.                                                 *)
LEMMA TimeTyped == \A u \in AnyUnit : Time(u) \in Int
<1> SUFFICES ASSUME NEW u \in AnyUnit PROVE Time(u) \in Int
  OBVIOUS
<1>1. u.pts \in Times \cup {None} /\ u.dts \in Times \cup {None}
  BY DEF AnyUnit
<1>2. \A x \in Times : x \in Int
  BY DEF Times
<1> QED BY <1>1, <1>2 DEF Time

(* There are finitely many units, each by its track and number.              *)
LEMMA NumberedFacts ==
  ASSUME NEW c \in Carriers, NEW us \in Programs(c)
  PROVE  /\ IsFiniteSet(Numbered(us))
         /\ \A a \in Numbered(us) : /\ a[1] \in DOMAIN c /\ a[2] \in 1 .. Len(us[a[1]])
                                    /\ a = <<a[1], a[2]>> /\ us[a[1]][a[2]] \in AnyUnit
                                    /\ Time(us[a[1]][a[2]]) \in Int /\ a[1] \in Nat /\ a[2] \in Nat
         /\ \A t \in DOMAIN c : \A k \in 1 .. Len(us[t]) : <<t, k>> \in Numbered(us)
<1>1. DOMAIN us = DOMAIN c /\ \A t \in DOMAIN c : us[t] \in Seq(AnyUnit)
  BY DEF Programs
<1>2. \A t \in DOMAIN c : DOMAIN us[t] = 1 .. Len(us[t]) /\ Len(us[t]) \in Nat
  BY <1>1
<1>3. IsFiniteSet(Numbered(us))
  <2> DEFINE T == {{t} \X DOMAIN us[t] : t \in DOMAIN us}
             f == [t \in DOMAIN c |-> {t} \X DOMAIN us[t]]
  <2>1. f \in Surjection(DOMAIN c, T)
    BY <1>1 DEF Surjection
  <2>2. IsFiniteSet(DOMAIN c)
    BY CarrierTyped, FS_Interval
  <2>3. \A x \in T : IsFiniteSet(x)
    <3> SUFFICES ASSUME NEW t \in DOMAIN c PROVE IsFiniteSet({t} \X DOMAIN us[t])
      BY <1>1
    <3>0. IsFiniteSet({t})
      BY FS_Singleton
    <3>1. Len(us[t]) \in Int /\ 1 \in Int /\ DOMAIN us[t] = 1 .. Len(us[t])
      BY <1>2
    <3>2. IsFiniteSet(1 .. Len(us[t]))
      BY ONLY <3>1, FS_Interval
    <3> QED BY <3>0, <3>1, <3>2, FS_Product
  <2> HIDE DEF T, f
  <2>4. IsFiniteSet(T)
    BY <2>1, <2>2, FS_Surjection
  <2>5. IsFiniteSet(UNION T)
    BY <2>3, <2>4, FS_UNION
  <2> QED BY <2>5 DEF Numbered, T
<1>4. ASSUME NEW a \in Numbered(us)
      PROVE  /\ a[1] \in DOMAIN c /\ a[2] \in 1 .. Len(us[a[1]])
             /\ a = <<a[1], a[2]>> /\ us[a[1]][a[2]] \in AnyUnit
             /\ Time(us[a[1]][a[2]]) \in Int /\ a[1] \in Nat /\ a[2] \in Nat
  <2>1. PICK t \in DOMAIN c : a \in {t} \X DOMAIN us[t]
    BY <1>1 DEF Numbered
  <2>2. a[1] = t /\ a[2] \in 1 .. Len(us[t]) /\ a = <<a[1], a[2]>>
    BY <1>2, <2>1
  <2>3. us[t][a[2]] \in AnyUnit
    BY <1>1, <2>2
  <2>4. a[1] \in Nat
    BY <2>2, CarrierTyped
  <2> QED BY <1>2, <2>2, <2>3, <2>4, TimeTyped
<1>5. \A t \in DOMAIN c : \A k \in 1 .. Len(us[t]) : <<t, k>> \in Numbered(us)
  BY <1>1, <1>2 DEF Numbered
<1> QED BY <1>3, <1>4, <1>5

\* The order that the muxer sorts by.
Precedes(us) == {p \in Numbered(us) \X Numbered(us) : Earlier(us, p[1], p[2])}

(* It puts any two units in order, by time, track and number.                *)
LEMMA PrecedesOrders ==
  ASSUME NEW c \in Carriers, NEW us \in Programs(c)
  PROVE  Orders(Precedes(us), Numbered(us))
<1> DEFINE S == Numbered(us)
           T(a) == Time(us[a[1]][a[2]])
<1>1. \A a \in S : T(a) \in Int /\ a[1] \in Nat /\ a[2] \in Nat /\ a = <<a[1], a[2]>>
  BY NumberedFacts
<1>2. \A a, b : Earlier(us, a, b) <=> (\/ T(a) < T(b)
                                       \/ T(a) = T(b) /\ (a[1] < b[1] \/ (a[1] = b[1] /\ a[2] < b[2])))
  BY DEF Earlier
<1> HIDE DEF S, T
<1>3. \A a, b \in S : <<a, b>> \in Precedes(us) <=> Earlier(us, a, b)
  BY DEF Precedes, S
<1>4. \A a \in S : ~ Earlier(us, a, a)
  BY <1>1, <1>2
<1>5. \A a, b \in S : a # b => Earlier(us, a, b) \/ Earlier(us, b, a)
  <2> SUFFICES ASSUME NEW a \in S, NEW b \in S, a # b, ~ Earlier(us, a, b), ~ Earlier(us, b, a)
               PROVE  FALSE
    OBVIOUS
  <2>1. T(a) = T(b) /\ a[1] = b[1] /\ a[2] = b[2]
    BY <1>1, <1>2
  <2>2. a = <<a[1], a[2]>> /\ b = <<b[1], b[2]>>
    BY <1>1
  <2> QED BY <2>1, <2>2
<1>6. \A a, b, d \in S : Earlier(us, a, b) /\ Earlier(us, b, d) => Earlier(us, a, d)
  <2> SUFFICES ASSUME NEW a \in S, NEW b \in S, NEW d \in S, Earlier(us, a, b), Earlier(us, b, d)
               PROVE  Earlier(us, a, d)
    OBVIOUS
  <2>1. /\ T(a) \in Int /\ T(b) \in Int /\ T(d) \in Int
        /\ a[1] \in Nat /\ a[2] \in Nat /\ b[1] \in Nat /\ b[2] \in Nat /\ d[1] \in Nat /\ d[2] \in Nat
    BY <1>1
  <2> QED BY <1>2, <2>1
<1> HIDE DEF Precedes
<1> QED BY <1>3, <1>4, <1>5, <1>6 DEF Orders, S

(* Every unit has its place, and an earlier one an earlier place.             *)
LEMMA OrderFacts ==
  ASSUME NEW c \in Carriers, NEW us \in Programs(c)
  PROVE  LET q == Order(us)
         IN  /\ q \in Seq(Numbered(us)) /\ Len(q) \in Nat /\ DOMAIN q = 1 .. Len(q)
             /\ \A i \in 1 .. Len(q) :
                   /\ q[i] \in Numbered(us) /\ q[i][1] \in DOMAIN c /\ q[i][2] \in 1 .. Len(us[q[i][1]])
                   /\ us[q[i][1]][q[i][2]] \in AnyUnit
             /\ \A i, j \in 1 .. Len(q) : i < j => Earlier(us, q[i], q[j])
             /\ \A i, j \in 1 .. Len(q) : q[i] = q[j] => i = j
             /\ \A t \in DOMAIN c : \A k \in 1 .. Len(us[t]) : \E i \in 1 .. Len(q) : q[i] = <<t, k>>
<1> DEFINE q == Order(us)
           S == Numbered(us)
           n == Cardinality(S)
<1>1. IsFiniteSet(S) /\ Orders(Precedes(us), S)
  BY NumberedFacts, PrecedesOrders
<1>2. q = Arranged(S, Precedes(us))
  BY DEF Order, Precedes
<1>3. /\ q \in Seq(S) /\ Len(q) = n /\ n \in Nat
      /\ \A i, j \in 1 .. n : i < j => <<q[i], q[j]>> \in Precedes(us)
      /\ \A a \in S : \E i \in 1 .. n : q[i] = a
  BY <1>1, <1>2, ArrangedFacts
<1> HIDE DEF q, S, n
<1>4. DOMAIN q = 1 .. Len(q) /\ \A i \in 1 .. Len(q) : q[i] \in S
  BY <1>3
<1>5. \A i, j \in 1 .. Len(q) : i < j => Earlier(us, q[i], q[j]) /\ q[i] # q[j]
  <2> SUFFICES ASSUME NEW i \in 1 .. Len(q), NEW j \in 1 .. Len(q), i < j
               PROVE  Earlier(us, q[i], q[j]) /\ q[i] # q[j]
    OBVIOUS
  <2>1. <<q[i], q[j]>> \in Precedes(us)
    BY <1>3
  <2>2. <<q[i], q[i]>> \notin Precedes(us)
    BY <1>1, <1>4 DEF Orders
  <2> QED BY <2>1, <2>2 DEF Precedes
<1>6. \A i, j \in 1 .. Len(q) : q[i] = q[j] => i = j
  <2> SUFFICES ASSUME NEW i \in 1 .. Len(q), NEW j \in 1 .. Len(q), i # j PROVE q[i] # q[j]
    OBVIOUS
  <2>1. i < j \/ j < i
    BY <1>3
  <2> QED BY <1>5, <2>1
<1>7. \A i \in 1 .. Len(q) : /\ q[i][1] \in DOMAIN c /\ q[i][2] \in 1 .. Len(us[q[i][1]])
                             /\ us[q[i][1]][q[i][2]] \in AnyUnit
  BY <1>4, NumberedFacts DEF S
<1>8. \A t \in DOMAIN c : \A k \in 1 .. Len(us[t]) : \E i \in 1 .. Len(q) : q[i] = <<t, k>>
  BY <1>3, NumberedFacts DEF S
<1> QED BY <1>3, <1>4, <1>5, <1>6, <1>7, <1>8 DEF q, S

(* The order depends only on the times.                                     *)
SameTimes(us, vs) ==
    \A t \in DOMAIN us : /\ Len(us[t]) = Len(vs[t])
                         /\ \A k \in 1 .. Len(us[t]) : Time(us[t][k]) = Time(vs[t][k])

(* Units with the same times go in the same order.                           *)
LEMMA OrderSame ==
  ASSUME NEW c \in Carriers, NEW us \in Programs(c), NEW vs \in Programs(c), SameTimes(us, vs)
  PROVE  Order(us) = Order(vs)
<1>1. DOMAIN us = DOMAIN c /\ DOMAIN vs = DOMAIN c
  BY DEF Programs
<1>2. \A t \in DOMAIN c : DOMAIN us[t] = DOMAIN vs[t]
  <2> TAKE t \in DOMAIN c
  <2>1. us[t] \in Seq(AnyUnit) /\ vs[t] \in Seq(AnyUnit) /\ Len(us[t]) = Len(vs[t])
    BY <1>1 DEF Programs, SameTimes
  <2> QED BY <2>1
<1>3. Numbered(us) = Numbered(vs)
  BY <1>1, <1>2 DEF Numbered
<1>4. \A a, b \in Numbered(us) : Earlier(us, a, b) = Earlier(vs, a, b)
  <2> TAKE a, b \in Numbered(us)
  <2>1. /\ a[1] \in DOMAIN c /\ a[2] \in 1 .. Len(us[a[1]])
        /\ b[1] \in DOMAIN c /\ b[2] \in 1 .. Len(us[b[1]])
    BY NumberedFacts
  <2>2. /\ Time(us[a[1]][a[2]]) = Time(vs[a[1]][a[2]])
        /\ Time(us[b[1]][b[2]]) = Time(vs[b[1]][b[2]])
    BY <1>1, <2>1 DEF SameTimes
  <2> QED BY <2>2 DEF Earlier
<1>5. Precedes(us) = Precedes(vs)
  <2>1. \A p \in Numbered(us) \X Numbered(us) : Earlier(us, p[1], p[2]) = Earlier(vs, p[1], p[2])
    BY <1>4
  <2> QED BY <1>3, <2>1 DEF Precedes
<1> QED BY <1>3, <1>5 DEF Order, Precedes

\* Whether the times of each track rise.
Rises(us) == \A t \in DOMAIN us : \A i, j \in DOMAIN us[t] : i < j => Time(us[t][i]) <= Time(us[t][j])

\* How many of the first i places are of track t.
Places(q, t, i) == Cardinality({k \in 1 .. i : q[k][1] = t})

(* Units of a track among the first i, one more at a time.                   *)
LEMMA PlacesStep ==
  ASSUME NEW q, NEW t, NEW i \in Nat
  PROVE  /\ Places(q, t, 0) = 0 /\ Places(q, t, i) \in Nat
         /\ Places(q, t, i + 1) = IF q[i + 1][1] = t THEN Places(q, t, i) + 1 ELSE Places(q, t, i)
<1> DEFINE T(j) == {k \in 1 .. j : q[k][1] = t}
<1>1. IsFiniteSet(1 .. i) /\ T(i) \in SUBSET (1 .. i)
  BY FS_Interval
<1>2. IsFiniteSet(T(i))
  BY <1>1, FS_Subset
<1>3. Cardinality(T(i)) \in Nat
  BY <1>2, FS_CardinalityType
<1>4. i + 1 \notin T(i)
  OBVIOUS
<1>5. T(i + 1) = IF q[i + 1][1] = t THEN T(i) \cup {i + 1} ELSE T(i)
  <2>1. \A k : k \in 1 .. i + 1 <=> k \in 1 .. i \/ k = i + 1
    OBVIOUS
  <2> QED BY <2>1
<1>6. T(0) = {}
  OBVIOUS
<1>7. \A j : Places(q, t, j) = Cardinality(T(j))
  BY DEF Places
<1> HIDE DEF T
<1>8. Cardinality(T(i) \cup {i + 1}) = Cardinality(T(i)) + 1
  BY <1>2, <1>4, FS_AddElement
<1> QED BY <1>3, <1>5, <1>6, <1>7, <1>8, FS_EmptySet

(* Where the times of a track rise its units take their places in order.      *)
LEMMA PlaceOfUnit ==
  ASSUME NEW c \in Carriers, NEW us \in Programs(c), Rises(us)
  PROVE  LET q == Order(us)
         IN  /\ \A t \in DOMAIN c : \A i \in 0 .. Len(q) : Places(q, t, i) \in 0 .. Len(us[t])
             /\ \A t \in DOMAIN c : Places(q, t, Len(q)) = Len(us[t])
             /\ \A i \in 1 .. Len(q) : q[i][2] = Places(q, q[i][1], i - 1) + 1
<1> DEFINE q == Order(us)
           n == Len(q)
<1>1. /\ n \in Nat /\ \A t \in DOMAIN c : Len(us[t]) \in Nat /\ DOMAIN us[t] = 1 .. Len(us[t])
      /\ \A i \in 1 .. n : /\ q[i][1] \in DOMAIN c /\ q[i][2] \in 1 .. Len(us[q[i][1]])
                           /\ q[i] \in Numbered(us) /\ q[i] = <<q[i][1], q[i][2]>>
      /\ \A i, j \in 1 .. n : i < j => Earlier(us, q[i], q[j])
      /\ \A i, j \in 1 .. n : q[i] = q[j] => i = j
      /\ \A t \in DOMAIN c : \A k \in 1 .. Len(us[t]) : \E i \in 1 .. n : q[i] = <<t, k>>
  <2>1. \A t \in DOMAIN c : us[t] \in Seq(AnyUnit)
    BY DEF Programs
  <2>2. \A t \in DOMAIN c : Len(us[t]) \in Nat /\ DOMAIN us[t] = 1 .. Len(us[t])
    BY <2>1
  <2>3. \A a \in Numbered(us) : a = <<a[1], a[2]>>
    BY NumberedFacts
  <2> QED BY <2>2, <2>3, OrderFacts
<1>2. \A t \in DOMAIN c : \A k, l \in 1 .. Len(us[t]) : k < l => Earlier(us, <<t, k>>, <<t, l>>)
  <2> SUFFICES ASSUME NEW t \in DOMAIN c, NEW k \in 1 .. Len(us[t]), NEW l \in 1 .. Len(us[t]), k < l
               PROVE  Earlier(us, <<t, k>>, <<t, l>>)
    OBVIOUS
  <2>1. DOMAIN us = DOMAIN c
    BY DEF Programs
  <2>2. Time(us[t][k]) <= Time(us[t][l])
    BY <1>1, <2>1 DEF Rises
  <2>3. Time(us[t][k]) \in Int /\ Time(us[t][l]) \in Int
    <3>1. us[t] \in Seq(AnyUnit)
      BY DEF Programs
    <3>2. us[t][k] \in AnyUnit /\ us[t][l] \in AnyUnit
      BY <3>1
    <3> QED BY <3>2, TimeTyped
  <2>4. t \in Nat /\ k \in Nat /\ l \in Nat
    BY <1>1, CarrierTyped
  <2> QED BY <2>2, <2>3, <2>4 DEF Earlier
<1>3. \A a, b \in Numbered(us) : ~ (Earlier(us, a, b) /\ Earlier(us, b, a))
  <2>1. Orders(Precedes(us), Numbered(us))
    BY PrecedesOrders
  <2>2. \A a, b \in Numbered(us) : <<a, b>> \in Precedes(us) <=> Earlier(us, a, b)
    BY DEF Precedes
  <2> QED BY <2>1, <2>2 DEF Orders
<1> HIDE DEF q
\* Of each track the first units have the first places.
<1> DEFINE M(t, i) == Places(q, t, i)
           At(t, i) == /\ M(t, i) \in 0 .. Len(us[t])
                       /\ \A k \in 1 .. Len(us[t]) : \A j \in 1 .. n :
                             q[j] = <<t, k>> => (j <= i <=> k <= M(t, i))
           T == {i \in Nat : i <= n => \A t \in DOMAIN c : At(t, i)}
<1>4. ASSUME NEW i \in Nat, i + 1 <= n, NEW t \in DOMAIN c, At(t, i)
      PROVE  At(t, i + 1) /\ (q[i + 1][1] = t => q[i + 1][2] = M(t, i) + 1)
  <2> DEFINE m == M(t, i)
             a == q[i + 1]
  <2>1. /\ m \in 0 .. Len(us[t]) /\ M(t, i + 1) = IF a[1] = t THEN m + 1 ELSE m
        /\ i + 1 \in 1 .. n
        /\ \A k \in 1 .. Len(us[t]) : \A j \in 1 .. n : q[j] = <<t, k>> => (j <= i <=> k <= m)
    <3>1. M(t, i + 1) = IF a[1] = t THEN m + 1 ELSE m
      BY PlacesStep
    <3>2. i + 1 \in 1 .. n
      BY <1>1, <1>4
    <3> HIDE DEF M
    <3> QED BY <1>4, <3>1, <3>2
  <2> HIDE DEF M
  <2>2. CASE a[1] = t
    <3> DEFINE k == a[2]
    <3>1. k \in 1 .. Len(us[t]) /\ a = <<t, k>> /\ k \in Nat /\ m \in Nat
      BY <1>1, <2>1, <2>2
    <3>2. ~ (k <= m)
      BY <2>1, <3>1
    <3>3. ASSUME NEW l \in 1 .. Len(us[t]), l < k PROVE l <= m
      <4>1. PICK j \in 1 .. n : q[j] = <<t, l>>
        BY <1>1
      <4>2. Earlier(us, q[j], q[i + 1])
        BY <1>2, <3>1, <3>3, <4>1
      <4>3. ~ (i + 1 < j) /\ j # i + 1
        <5>1. i + 1 < j => Earlier(us, q[i + 1], q[j])
          BY <1>1, <2>1
        <5>2. ~ (i + 1 < j)
          BY <1>1, <1>3, <2>1, <4>2, <5>1
        <5>3. ~ Earlier(us, q[j], q[j])
          BY <1>1, <1>3
        <5> QED BY <4>2, <5>2, <5>3
      <4>4. j <= i
        BY <4>3
      <4> QED BY <2>1, <4>1, <4>4
    <3>4. k = m + 1
      <4>1. CASE k > m + 1
        <5>1. m + 1 \in 1 .. Len(us[t]) /\ m + 1 < k /\ ~ (m + 1 <= m)
          BY <1>1, <3>1, <4>1
        <5> QED BY <3>3, <5>1
      <4> QED BY <3>1, <3>2, <4>1
    <3>5. ASSUME NEW l \in 1 .. Len(us[t]), NEW j \in 1 .. n, q[j] = <<t, l>>
          PROVE  j <= i + 1 <=> l <= m + 1
      <4>1. j <= i <=> l <= m
        BY <2>1, <3>5
      <4>2. j = i + 1 <=> l = k
        <5>1. l = k => q[j] = q[i + 1]
          BY <3>1, <3>5
        <5>2. j = i + 1 => <<t, l>> = <<t, k>>
          BY <3>1, <3>5
        <5> QED BY <1>1, <2>1, <5>1, <5>2
      <4> QED BY <3>4, <4>1, <4>2, <3>1
    <3>6. m + 1 \in 0 .. Len(us[t])
      BY <3>1, <3>4, <1>1
    <3> QED BY <2>1, <2>2, <3>4, <3>5, <3>6
  <2>3. CASE a[1] # t
    <3>1. M(t, i + 1) = m
      BY <2>1, <2>3
    <3>2. ASSUME NEW l \in 1 .. Len(us[t]), NEW j \in 1 .. n, q[j] = <<t, l>>
          PROVE  j <= i + 1 <=> l <= m
      <4>1. j # i + 1
        BY <2>3, <3>2
      <4>2. j <= i <=> l <= m
        BY <2>1, <3>2
      <4> QED BY <4>1, <4>2
    <3> QED BY <2>1, <2>3, <3>1, <3>2
  <2> QED BY <2>2, <2>3
<1>5. 0 \in T
  <2> SUFFICES ASSUME NEW t \in DOMAIN c PROVE At(t, 0)
    OBVIOUS
  <2>1. M(t, 0) = 0
    BY PlacesStep
  <2> QED BY <1>1, <2>1
<1> HIDE DEF At
<1>6. ASSUME NEW i \in Nat, i \in T PROVE i + 1 \in T
  BY <1>1, <1>4, <1>6
<1>7. \A i \in Nat : i \in T
  <2> HIDE DEF T
  <2> QED BY <1>5, <1>6, Inductively
<1>8. \A t \in DOMAIN c : \A i \in 0 .. n : At(t, i)
  BY <1>1, <1>7
<1>9. ASSUME NEW t \in DOMAIN c PROVE M(t, n) = Len(us[t])
  <2>1. At(t, n)
    BY <1>1, <1>8
  <2>2. CASE M(t, n) # Len(us[t])
    <3>1. Len(us[t]) \in 1 .. Len(us[t]) /\ ~ (Len(us[t]) <= M(t, n))
      BY <1>1, <2>1, <2>2 DEF At
    <3>2. PICK j \in 1 .. n : q[j] = <<t, Len(us[t])>>
      BY <1>1, <3>1
    <3>3. j <= n
      OBVIOUS
    <3> HIDE DEF M
    <3> QED BY <2>1, <3>1, <3>2, <3>3 DEF At
  <2> QED BY <2>2
<1>10. ASSUME NEW i \in 1 .. n PROVE q[i][2] = M(q[i][1], i - 1) + 1
  <2>1. i - 1 \in Nat /\ (i - 1) + 1 = i /\ i <= n /\ i - 1 \in 0 .. n
    BY <1>1
  <2>2. q[i][1] \in DOMAIN c
    BY <1>1
  <2> HIDE DEF M
  <2>3. At(q[i][1], i - 1)
    BY <1>8, <2>1, <2>2
  <2>4. q[(i - 1) + 1][1] = q[i][1] => q[(i - 1) + 1][2] = M(q[i][1], i - 1) + 1
    BY <1>4, <2>1, <2>2, <2>3
  <2> QED BY <2>1, <2>4
<1>11. \A t \in DOMAIN c : \A i \in 0 .. n : M(t, i) \in 0 .. Len(us[t])
  BY <1>8 DEF At
<1> QED BY <1>9, <1>10, <1>11 DEF q

-----------------------------------------------------------------------------
(* What the demultiplexer holds, and what one packet does to it.             *)

Cells == Seq(AnyCell) \ {<<>>}
Heads == [pts : Times \cup {None}, dts : Times \cup {None}, length : (Nat \ {0}) \cup {None}]
Buffers == {NoBuffer} \cup {Buffer(h, x) : h \in Heads, x \in Cells}
Demuxers(c) == [pat : BOOLEAN, pmt : BOOLEAN, buffers : [DOMAIN c -> Buffers], units : Programs(c)]
Wire(c) == {p \in [pid : Int, start : BOOLEAN, head : Heads \cup {None}, data : Seq(AnyCell)] :
                p.start /\ p.pid \in DOMAIN c => p.head \in Heads /\ p.data # <<>>}

\* The units of a track if the stream ended now.
Final(d, t) == IF d.buffers[t].open THEN Append(d.units[t], Parse(d.buffers[t])) ELSE d.units[t]

(* A buffer that is open holds a unit.                                       *)
LEMMA BufferTyped ==
  ASSUME NEW b \in Buffers
  PROVE  /\ b.open \in BOOLEAN /\ (~ b.open => b = NoBuffer)
         /\ b.open => b.head \in Heads /\ b.data \in Cells /\ b = Buffer(b.head, b.data)
                      /\ Parse(b) \in AnyUnit
<1>1. CASE b = NoBuffer
  BY <1>1 DEF NoBuffer
<1>2. ASSUME NEW h \in Heads, NEW x \in Cells, b = Buffer(h, x)
      PROVE  b.open /\ b.head = h /\ b.data = x /\ Parse(b) \in AnyUnit
  <2>1. b.open /\ b.head = h /\ b.data = x
    BY <1>2 DEF Buffer
  <2>2. h.pts \in Times \cup {None} /\ h.dts \in Times \cup {None} /\ h.length \in (Nat \ {0}) \cup {None}
    BY DEF Heads
  <2> DEFINE n == h.length
             y == IF n # None /\ n < Len(x) THEN SubSeq(x, 1, n) ELSE x
  <2>3. y \in Seq(AnyCell) /\ y # <<>>
    <3>1. x \in Seq(AnyCell) /\ x # <<>>
      BY DEF Cells
    <3>2. ASSUME n # None, n < Len(x) PROVE SubSeq(x, 1, n) \in Seq(AnyCell) /\ SubSeq(x, 1, n) # <<>>
      <4>1. n \in Nat \ {0} /\ n <= Len(x)
        BY <2>2, <3>1, <3>2
      <4> HIDE DEF n
      <4> QED BY ONLY <3>1, <4>1
    <3> QED BY <3>1, <3>2
  <2>4. Parse(b) = [pts |-> h.pts, dts |-> h.dts, data |-> y]
    BY <2>1 DEF Parse
  <2> HIDE DEF y
  <2> QED BY <2>1, <2>2, <2>3, <2>4 DEF AnyUnit
<1>3. b = NoBuffer \/ \E h \in Heads, x \in Cells : b = Buffer(h, x)
  BY DEF Buffers
<1>4. ~ NoBuffer.open /\ NoBuffer.open \in BOOLEAN
  BY DEF NoBuffer
<1> QED BY <1>2, <1>3, <1>4

LEMMA BufferIn == \A h \in Heads, x \in Cells : Buffer(h, x) \in Buffers
  BY DEF Buffers

(* What a track has when its buffer is closed is units.                      *)
LEMMA FinalTyped ==
  ASSUME NEW c \in Carriers, NEW d \in Demuxers(c), NEW t \in DOMAIN c
  PROVE  /\ d.buffers[t] \in Buffers /\ d.units[t] \in Seq(AnyUnit) /\ Final(d, t) \in Seq(AnyUnit)
         /\ DOMAIN d.buffers = DOMAIN c /\ DOMAIN d.units = DOMAIN c
<1>1. d.buffers \in [DOMAIN c -> Buffers] /\ d.units \in [DOMAIN c -> Seq(AnyUnit)]
  BY DEF Demuxers, Programs
<1>2. d.buffers[t] \in Buffers /\ d.units[t] \in Seq(AnyUnit)
  BY <1>1
<1>3. d.buffers[t].open => Parse(d.buffers[t]) \in AnyUnit
  BY <1>2, BufferTyped
<1>4. Final(d, t) \in Seq(AnyUnit)
  BY <1>2, <1>3 DEF Final
<1> QED BY <1>1, <1>2, <1>4

(* Closing a buffer adds its unit to the track.                              *)
LEMMA CloseIs ==
  ASSUME NEW c \in Carriers, NEW d \in Demuxers(c), NEW t \in DOMAIN c
  PROVE  Close(d, t) = [pat |-> d.pat, pmt |-> d.pmt,
                        buffers |-> [d.buffers EXCEPT ![t] = NoBuffer],
                        units |-> [d.units EXCEPT ![t] = Final(d, t)]]
<1>1. d.buffers[t] \in Buffers /\ DOMAIN d.buffers = DOMAIN c /\ DOMAIN d.units = DOMAIN c
  BY FinalTyped
<1>2. d = [pat |-> d.pat, pmt |-> d.pmt, buffers |-> d.buffers, units |-> d.units]
      /\ d.buffers \in [DOMAIN c -> Buffers] /\ d.units \in [DOMAIN c -> Seq(AnyUnit)]
  BY DEF Demuxers, Programs
<1>3. CASE ~ d.buffers[t].open
  <2>1. d.buffers[t] = NoBuffer
    BY <1>1, <1>3, BufferTyped
  <2>2. [d.buffers EXCEPT ![t] = NoBuffer] = d.buffers /\ [d.units EXCEPT ![t] = d.units[t]] = d.units
    BY <1>2, <2>1
  <2> QED BY <1>2, <1>3, <2>2 DEF Close, Final
<1>4. CASE d.buffers[t].open
  <2> DEFINE x == Parse(d.buffers[t])
  <2>1. Close(d, t) = [d EXCEPT !.units[t] = Append(@, x), !.buffers[t] = NoBuffer]
    BY <1>4 DEF Close
  <2>2. Final(d, t) = Append(d.units[t], x)
    BY <1>4 DEF Final
  <2> HIDE DEF x
  <2> QED BY <1>2, <2>1, <2>2
<1> QED BY <1>3, <1>4

(* At the end every buffer is closed.                                        *)
LEMMA FinishIs ==
  ASSUME NEW c \in Carriers, NEW d \in Demuxers(c)
  PROVE  Finish(d) = [t \in DOMAIN c |-> Final(d, t)] /\ Finish(d) \in Programs(c)
<1>1. DOMAIN d.units = DOMAIN c
  BY DEF Demuxers, Programs
<1>2. \A t \in DOMAIN c : Close(d, t).units[t] = Final(d, t)
  <2> TAKE t \in DOMAIN c
  <2>1. Close(d, t).units = [d.units EXCEPT ![t] = Final(d, t)]
    BY CloseIs
  <2> QED BY <1>1, <2>1
<1>3. Finish(d) = [t \in DOMAIN c |-> Final(d, t)]
  BY <1>1, <1>2 DEF Finish
<1>4. \A t \in DOMAIN c : Final(d, t) \in Seq(AnyUnit)
  BY FinalTyped
<1> QED BY <1>3, <1>4 DEF Programs

\* The packets of a track.
LEMMA TakeStart ==
  ASSUME NEW c \in Carriers, NEW d \in Demuxers(c), NEW p \in Wire(c), p.pid \in DOMAIN c, d.pmt, p.start
  PROVE  Take(d, p) = [pat |-> d.pat, pmt |-> d.pmt,
                       buffers |-> [d.buffers EXCEPT ![p.pid] = Buffer(p.head, p.data)],
                       units |-> [d.units EXCEPT ![p.pid] = Final(d, p.pid)]]
<1>1. DOMAIN d.buffers = DOMAIN c /\ DOMAIN d.units = DOMAIN c /\ p.pid \notin Tables
  BY FinalTyped, CarrierTyped
<1>2. Take(d, p) = [Close(d, p.pid) EXCEPT !.buffers[p.pid] = Buffer(p.head, p.data)]
  BY <1>1 DEF Take, Known, TakePes
<1> DEFINE t == p.pid
           b == Buffer(p.head, p.data)
           w == [d.units EXCEPT ![t] = Final(d, t)]
<1>3. Close(d, t) = [pat |-> d.pat, pmt |-> d.pmt, buffers |-> [d.buffers EXCEPT ![t] = NoBuffer], units |-> w]
  BY CloseIs
<1>4. [[d.buffers EXCEPT ![t] = NoBuffer] EXCEPT ![t] = b] = [d.buffers EXCEPT ![t] = b]
  <2>1. d.buffers \in [DOMAIN c -> Buffers]
    BY DEF Demuxers
  <2> HIDE DEF b
  <2> QED BY <2>1
<1> DEFINE b0 == [d.buffers EXCEPT ![t] = NoBuffer]
           r == Close(d, t)
<1>5. r = [pat |-> d.pat, pmt |-> d.pmt, buffers |-> b0, units |-> w]
  BY <1>3
<1>6. [b0 EXCEPT ![t] = b] = [d.buffers EXCEPT ![t] = b]
  BY <1>4
<1>7. Take(d, p) = [r EXCEPT !.buffers[t] = b]
  BY <1>2
<1>a. b0 \in [DOMAIN c -> Buffers] /\ t \in DOMAIN c
  <2>1. NoBuffer \in Buffers /\ d.buffers \in [DOMAIN c -> Buffers]
    BY DEF Buffers, Demuxers
  <2> QED BY <2>1
<1> HIDE DEF b, w, b0, r, t
<1>8. [r EXCEPT !.buffers[t] = b] = [pat |-> d.pat, pmt |-> d.pmt, buffers |-> [b0 EXCEPT ![t] = b], units |-> w]
  BY ONLY <1>5, <1>a
<1>9. Take(d, p) = [pat |-> d.pat, pmt |-> d.pmt, buffers |-> [d.buffers EXCEPT ![t] = b], units |-> w]
  BY <1>6, <1>7, <1>8
<1> QED BY <1>9 DEF b, w, t

(* A packet that continues a unit adds to the buffer of its track.           *)
LEMMA TakeMore ==
  ASSUME NEW c \in Carriers, NEW d \in Demuxers(c), NEW p \in Wire(c), p.pid \in DOMAIN c, d.pmt, ~ p.start,
         d.buffers[p.pid].open
  PROVE  LET b == d.buffers[p.pid]
         IN  Take(d, p) = [pat |-> d.pat, pmt |-> d.pmt,
                           buffers |-> [d.buffers EXCEPT ![p.pid] = Buffer(b.head, b.data \o p.data)],
                           units |-> d.units]
<1> DEFINE b == d.buffers[p.pid]
           x == Buffer(b.head, b.data \o p.data)
<1>1. DOMAIN d.buffers = DOMAIN c /\ DOMAIN d.units = DOMAIN c /\ p.pid \notin Tables /\ b \in Buffers
  BY FinalTyped, CarrierTyped
<1>2. d = [pat |-> d.pat, pmt |-> d.pmt, buffers |-> d.buffers, units |-> d.units]
      /\ d.buffers \in [DOMAIN c -> Buffers]
  BY DEF Demuxers
<1>3. CASE p.data = <<>>
  <2>1. Take(d, p) = d
    BY <1>3 DEF Take, Known
  <2>2. b = Buffer(b.head, b.data) /\ b.data \in Seq(AnyCell)
    BY <1>1, BufferTyped DEF Cells
  <2>3. b.data \o p.data = b.data
    BY <1>3, <2>2
  <2>4. x = b
    BY <2>2, <2>3
  <2>5. [d.buffers EXCEPT ![p.pid] = b] = d.buffers
    BY <1>2
  <2> HIDE DEF x, b
  <2> QED BY <1>2, <2>1, <2>4, <2>5 DEF x, b
<1>4. CASE p.data # <<>>
  <2>1. Take(d, p) = TakePes(d, p)
    BY <1>1, <1>4 DEF Take, Known
  <2>2. TakePes(d, p) = [d EXCEPT !.buffers[p.pid] = x]
    BY Zenon DEF TakePes
  <2> HIDE DEF x
  <2> QED BY <1>2, <2>1, <2>2 DEF x
<1> QED BY <1>3, <1>4

(* One packet touches its own track or the tables alone; without a PMT no    *)
(* track.                                                                    *)
LEMMA TakeFacts ==
  ASSUME NEW c \in Carriers, NEW d \in Demuxers(c), NEW p \in Wire(c)
  PROVE  LET e == Take(d, p)
         IN  /\ e \in Demuxers(c)
             /\ p.pid \in Tables => /\ e.buffers = d.buffers /\ e.units = d.units
                                    /\ e.pat <=> d.pat \/ (p.pid = Pat /\ p.start)
                                    /\ e.pmt <=> d.pmt \/ (p.pid = Pmt /\ p.start /\ d.pat)
             /\ p.pid \notin Tables => /\ e.pat = d.pat /\ e.pmt = d.pmt
                                       /\ ~ d.pmt => e = d
             /\ p.pid \notin Tables \cup DOMAIN c => e = d
             /\ \A t \in DOMAIN c : /\ t # p.pid => e.buffers[t] = d.buffers[t] /\ e.units[t] = d.units[t]
                                    /\ e.units[t] \in {d.units[t], Final(d, t)}
<1> DEFINE e == Take(d, p)
<1>1. /\ d.pat \in BOOLEAN /\ d.pmt \in BOOLEAN
      /\ d = [pat |-> d.pat, pmt |-> d.pmt, buffers |-> d.buffers, units |-> d.units]
      /\ d.buffers \in [DOMAIN c -> Buffers] /\ d.units \in [DOMAIN c -> Seq(AnyUnit)]
  BY DEF Demuxers, Programs
<1>2. /\ p.pid \in Int /\ p.start \in BOOLEAN /\ p.data \in Seq(AnyCell)
      /\ p.start /\ p.pid \in DOMAIN c => p.head \in Heads /\ p.data # <<>>
  BY DEF Wire
<1>3. \A t \in DOMAIN c : t \notin Tables
  BY CarrierTyped
<1>4. CASE p.pid \in Tables
  <2>1. Take(d, p) = TakeTable(d, p) \/ (~ p.start /\ Take(d, p) = d)
    BY <1>4 DEF Take, Known
  <2> DEFINE a == d.pat \/ (p.pid = Pat /\ p.start)
             m == d.pmt \/ (p.pid = Pmt /\ p.start /\ d.pat)
  <2>a. a \in BOOLEAN /\ m \in BOOLEAN
    OBVIOUS
  <2>b. TakeTable(d, p) = [d EXCEPT !.pat = a, !.pmt = m]
    BY Zenon DEF TakeTable
  <2>c. ~ p.start => (a <=> d.pat) /\ (m <=> d.pmt)
    OBVIOUS
  <2> HIDE DEF a, m
  <2>2. TakeTable(d, p) = [pat |-> a, pmt |-> m, buffers |-> d.buffers, units |-> d.units]
    BY <1>1, <2>b
  <2>3. e.buffers = d.buffers /\ e.units = d.units /\ (e.pat <=> a) /\ (e.pmt <=> m)
    <3>1. CASE e = TakeTable(d, p)
      <4> HIDE DEF e
      <4>1. e.buffers = d.buffers /\ e.units = d.units /\ e.pat = a /\ e.pmt = m
        BY <2>2, <3>1
      <4> QED BY <4>1
    <3>2. CASE ~ p.start /\ e = d
      <4> HIDE DEF e
      <4> QED BY <2>c, <3>2
    <3> QED BY <2>1, <3>1, <3>2
  <2>4. e \in Demuxers(c)
    <3>1. TakeTable(d, p) \in Demuxers(c)
      BY <1>1, <2>a, <2>2 DEF Demuxers, Programs
    <3> QED BY <2>1, <3>1
  <2> HIDE DEF e
  <2> QED BY <1>3, <1>4, <2>3, <2>4 DEF e, a, m
<1>5. CASE p.pid \notin Tables /\ ~ (d.pmt /\ p.pid \in DOMAIN c)
  <2>1. e = d
    BY <1>1, <1>5 DEF Take, Known
  <2> HIDE DEF e
  <2> QED BY <1>5, <2>1 DEF e
<1>6. CASE d.pmt /\ p.pid \in DOMAIN c /\ p.start
  <2>1. e = [pat |-> d.pat, pmt |-> d.pmt,
             buffers |-> [d.buffers EXCEPT ![p.pid] = Buffer(p.head, p.data)],
             units |-> [d.units EXCEPT ![p.pid] = Final(d, p.pid)]]
    BY <1>6, TakeStart
  <2>2. Buffer(p.head, p.data) \in Buffers /\ Final(d, p.pid) \in Seq(AnyUnit)
    <3>1. p.data \in Cells /\ p.head \in Heads
      BY <1>2, <1>6 DEF Cells
    <3> QED BY <1>6, <3>1, FinalTyped, BufferIn
  <2> HIDE DEF e
  <2>3. e \in Demuxers(c)
    <3> DEFINE b == Buffer(p.head, p.data)
               u == Final(d, p.pid)
    <3> HIDE DEF b, u
    <3>1. [d.buffers EXCEPT ![p.pid] = b] \in [DOMAIN c -> Buffers]
      BY <1>1, <2>2 DEF b
    <3>2. [d.units EXCEPT ![p.pid] = u] \in [DOMAIN c -> Seq(AnyUnit)]
      BY <1>1, <2>2 DEF u
    <3> QED BY <1>1, <2>1, <3>1, <3>2 DEF Demuxers, Programs, b, u
  <2>4. \A t \in DOMAIN c : /\ t # p.pid => e.buffers[t] = d.buffers[t] /\ e.units[t] = d.units[t]
                            /\ e.units[t] \in {d.units[t], Final(d, t)}
    BY <1>1, <2>1
  <2>5. e.pat = d.pat /\ e.pmt = d.pmt
    BY <2>1
  <2> QED BY <1>3, <1>6, <2>3, <2>4, <2>5 DEF e
<1>7. CASE d.pmt /\ p.pid \in DOMAIN c /\ ~ p.start /\ d.buffers[p.pid].open
  <2> DEFINE b == d.buffers[p.pid]
             x == Buffer(b.head, b.data \o p.data)
  <2>1. e = [pat |-> d.pat, pmt |-> d.pmt, buffers |-> [d.buffers EXCEPT ![p.pid] = x], units |-> d.units]
    BY <1>7, TakeMore
  <2>2. x \in Buffers
    <3>1. b.head \in Heads /\ b.data \in Cells
      BY <1>1, <1>7, BufferTyped
    <3>2. b.data \o p.data \in Cells
      <4> DEFINE v == b.data
                 w == p.data
      <4>1. v \in Seq(AnyCell) /\ v # <<>> /\ w \in Seq(AnyCell)
        BY <1>2, <3>1 DEF Cells
      <4> HIDE DEF v, w
      <4>2. v \o w \in Seq(AnyCell) /\ v \o w # <<>>
        BY ONLY <4>1
      <4> QED BY <4>2 DEF Cells, v, w
    <3> QED BY <3>1, <3>2, BufferIn
  <2> HIDE DEF e, x
  <2>3. e \in Demuxers(c)
    BY <1>1, <2>1, <2>2 DEF Demuxers, Programs
  <2>4. \A t \in DOMAIN c : /\ t # p.pid => e.buffers[t] = d.buffers[t] /\ e.units[t] = d.units[t]
                            /\ e.units[t] \in {d.units[t], Final(d, t)}
    BY <1>1, <2>1
  <2>5. e.pat = d.pat /\ e.pmt = d.pmt
    BY <2>1
  <2> QED BY <1>3, <1>7, <2>3, <2>4, <2>5 DEF e
<1>8. CASE d.pmt /\ p.pid \in DOMAIN c /\ ~ p.start /\ ~ d.buffers[p.pid].open
  <2>1. e = d
    BY <1>3, <1>8 DEF Take, Known, TakePes
  <2> HIDE DEF e
  <2> QED BY <1>3, <1>8, <2>1 DEF e
<1> HIDE DEF e
<1> QED BY <1>1, <1>2, <1>4, <1>5, <1>6, <1>7, <1>8

-----------------------------------------------------------------------------
(* Reading packets one after the other.                                      *)

Run(d, ps) == FoldLeft(Take, d, ps)

\* The states of the demultiplexer, packet by packet.
Trace(c, g, d, ps) ==
    /\ g \in [0 .. Len(ps) -> Demuxers(c)] /\ g[0] = d
    /\ \A k \in 1 .. Len(ps) : g[k] = Take(g[k - 1], ps[k])

(* Reading packets goes through such states.                                 *)
LEMMA RunTrace ==
  ASSUME NEW c \in Carriers, NEW d \in Demuxers(c), NEW ps \in Seq(Wire(c))
  PROVE  \E g : Trace(c, g, d, ps) /\ Run(d, ps) = g[Len(ps)]
<1> DEFINE n == Len(ps)
           V == Demuxers(c)
           step == [x \in V \X (1 .. n) |-> Take(x[1], ps[x[2]])]
           iter[s \in SUBSET DOMAIN ps] ==
               IF s = {} THEN d ELSE Take(iter[s \ {Max(s)}], ps[Max(s)])
<1>1. Run(d, ps) = iter[DOMAIN ps]
  BY DEF Run, FoldLeft, MapThenFoldSet
<1>2. n \in Nat /\ DOMAIN ps = 1 .. n /\ \A k \in 1 .. n : ps[k] \in Wire(c)
  OBVIOUS
<1> HIDE DEF n
<1>3. \A e \in V, k \in 1 .. n : Take(e, ps[k]) \in V
  BY <1>2, TakeFacts
<1>4. d \in V
  OBVIOUS
<1> HIDE DEF V
<1>5. step \in [V \X (1 .. n) -> V] /\ \A e \in V, k \in 1 .. n : step[<<e, k>>] = Take(e, ps[k])
  BY <1>3
<1> HIDE DEF step
<1>6. PICK g : Steps(g, n, V, d, step)
  BY ONLY <1>2, <1>4, <1>5, StepRecursion
<1>7. PICK h : Unfolds(h, n, V, d, step)
  BY ONLY <1>2, <1>4, <1>5, FoldRecursion
<1>8. h = [s \in SUBSET DOMAIN ps |-> IF s = {} THEN d ELSE Take(h[s \ {Max(s)}], ps[Max(s)])]
  <2>1. ASSUME NEW s \in SUBSET (1 .. n), s # {}
        PROVE  h[s] = Take(h[s \ {Max(s)}], ps[Max(s)])
    <3>1. Max(s) \in 1 .. n
      BY <1>2, <2>1, BoundedMax
    <3>2. h[s \ {Max(s)}] \in V
      BY <1>7 DEF Unfolds
    <3> QED BY <1>5, <1>7, <2>1, <3>1, <3>2 DEF Unfolds
  <2>2. \A s \in SUBSET (1 .. n) : h[s] = IF s = {} THEN d ELSE Take(h[s \ {Max(s)}], ps[Max(s)])
    BY <1>7, <2>1 DEF Unfolds
  <2> QED BY <1>2, <1>7, <2>2 DEF Unfolds
<1>9. iter = [s \in SUBSET DOMAIN ps |-> IF s = {} THEN d ELSE Take(iter[s \ {Max(s)}], ps[Max(s)])]
  BY <1>8
<1> HIDE DEF iter
<1>10. iter[{}] = d
  BY <1>2, <1>9
<1>11. FoldSteps(iter, n, V, step)
  <2> SUFFICES ASSUME NEW k \in 1 .. n, iter[1 .. k - 1] \in V
               PROVE  iter[1 .. k] = step[<<iter[1 .. k - 1], k>>]
    BY DEF FoldSteps
  <2>1. 1 .. k \in SUBSET (1 .. n) /\ k \in Nat \ {0}
    BY <1>2
  <2>2. 1 .. k # {} /\ Max(1 .. k) = k /\ (1 .. k) \ {Max(1 .. k)} = 1 .. k - 1
    BY <2>1, IntervalMax
  <2>3. iter[1 .. k] = Take(iter[1 .. k - 1], ps[k])
    BY <1>2, <1>9, <2>1, <2>2
  <2> QED BY <1>5, <2>3
<1>12. iter[1 .. n] = g[n]
  <2>1. \A k \in 0 .. n : iter[1 .. k] = g[k]
    BY ONLY <1>2, <1>6, <1>10, <1>11, FoldOfInterval
  <2> QED BY <1>2, <2>1
<1>13. /\ g \in [0 .. n -> V] /\ g[0] = d
       /\ \A k \in 1 .. n : g[k] = Take(g[k - 1], ps[k])
  <2>1. \A k \in 1 .. n : k - 1 \in 0 .. n
    BY <1>2
  <2> QED BY <1>5, <1>6, <2>1 DEF Steps
<1> QED BY <1>1, <1>2, <1>12, <1>13 DEF Trace, n, V

(* There is one such way.                                                    *)
LEMMA TraceUnique ==
  ASSUME NEW c, NEW d, NEW ps, Len(ps) \in Nat, NEW g, Trace(c, g, d, ps), NEW h, Trace(c, h, d, ps)
  PROVE  g[Len(ps)] = h[Len(ps)]
<1> DEFINE T == {k \in Nat : k <= Len(ps) => g[k] = h[k]}
<1>1. 0 \in T
  BY DEF Trace
<1>2. ASSUME NEW k \in Nat, k \in T PROVE k + 1 \in T
  <2> SUFFICES ASSUME k + 1 <= Len(ps) PROVE g[k + 1] = h[k + 1]
    OBVIOUS
  <2>1. k + 1 \in 1 .. Len(ps) /\ (k + 1) - 1 = k /\ k <= Len(ps)
    OBVIOUS
  <2> QED BY <1>2, <2>1 DEF Trace
<1> HIDE DEF T
<1>3. \A k \in Nat : k \in T
  BY <1>1, <1>2, Inductively
<1> QED BY <1>3 DEF T

(* So Run is where it ends.                                                  *)
LEMMA RunIs ==
  ASSUME NEW c \in Carriers, NEW d \in Demuxers(c), NEW ps \in Seq(Wire(c)), NEW g, Trace(c, g, d, ps)
  PROVE  Run(d, ps) = g[Len(ps)] /\ Run(d, ps) \in Demuxers(c)
<1>1. PICK h : Trace(c, h, d, ps) /\ Run(d, ps) = h[Len(ps)]
  BY RunTrace
<1>2. Len(ps) \in Nat
  OBVIOUS
<1>3. h[Len(ps)] = g[Len(ps)]
  BY <1>1, <1>2, TraceUnique
<1>4. h[Len(ps)] \in Demuxers(c)
  BY <1>1, <1>2 DEF Trace
<1> QED BY <1>1, <1>3, <1>4

(* It ends in a state of the demultiplexer.                                  *)
LEMMA RunTyped ==
  ASSUME NEW c \in Carriers, NEW d \in Demuxers(c), NEW ps \in Seq(Wire(c))
  PROVE  Run(d, ps) \in Demuxers(c)
<1>1. PICK g : Trace(c, g, d, ps)
  BY RunTrace
<1> QED BY <1>1, RunIs

LEMMA RunEmpty ==
  ASSUME NEW c \in Carriers, NEW d \in Demuxers(c)
  PROVE  Run(d, <<>>) = d
<1> DEFINE g == [k \in 0 .. 0 |-> d]
<1>1. <<>> \in Seq(Wire(c)) /\ Len(<<>>) = 0
  OBVIOUS
<1>2. Trace(c, g, d, <<>>) /\ g[0] = d
  BY <1>1 DEF Trace
<1> QED BY <1>1, <1>2, RunIs

LEMMA RunOne ==
  ASSUME NEW c \in Carriers, NEW d \in Demuxers(c), NEW p \in Wire(c)
  PROVE  Run(d, <<p>>) = Take(d, p)
<1> DEFINE g == [k \in 0 .. 1 |-> IF k = 0 THEN d ELSE Take(d, p)]
<1>1. <<p>> \in Seq(Wire(c)) /\ Len(<<p>>) = 1 /\ <<p>>[1] = p
  OBVIOUS
<1>2. Take(d, p) \in Demuxers(c)
  BY TakeFacts
<1>3. Trace(c, g, d, <<p>>) /\ g[1] = Take(d, p)
  BY <1>1, <1>2 DEF Trace
<1> QED BY <1>1, <1>3, RunIs

(* Reading two streams is reading one and then the other.                    *)
LEMMA RunJoined ==
  ASSUME NEW c \in Carriers, NEW d \in Demuxers(c), NEW ps \in Seq(Wire(c)), NEW qs \in Seq(Wire(c))
  PROVE  Run(d, ps \o qs) = Run(Run(d, ps), qs)
<1> DEFINE n == Len(ps)
           m == Len(qs)
           e == Run(d, ps)
           rs == ps \o qs
<1>1. PICK g : Trace(c, g, d, ps) /\ e = g[n]
  BY RunTrace
<1>2. e \in Demuxers(c)
  BY RunTyped
<1> HIDE DEF e
<1>3. PICK h : Trace(c, h, e, qs) /\ Run(e, qs) = h[m]
  BY <1>2, RunTrace
<1>4. /\ rs \in Seq(Wire(c)) /\ Len(rs) = n + m /\ n \in Nat /\ m \in Nat
      /\ \A k \in 1 .. n : rs[k] = ps[k]
      /\ \A k \in 1 .. m : rs[n + k] = qs[k]
  BY SeqJoined
<1> DEFINE f == [k \in 0 .. n + m |-> IF k <= n THEN g[k] ELSE h[k - n]]
<1>5. f \in [0 .. Len(rs) -> Demuxers(c)]
  <2>1. \A k \in 0 .. n + m : (k <= n => k \in 0 .. n) /\ (~ (k <= n) => k - n \in 0 .. m)
    BY <1>4
  <2>2. g \in [0 .. n -> Demuxers(c)] /\ h \in [0 .. m -> Demuxers(c)]
    BY <1>1, <1>3 DEF Trace
  <2> HIDE DEF rs, n, m
  <2>3. \A k \in 0 .. n + m : (IF k <= n THEN g[k] ELSE h[k - n]) \in Demuxers(c)
    BY <2>1, <2>2
  <2> QED BY <1>4, <2>3
<1>6. ASSUME NEW k \in 1 .. Len(rs) PROVE f[k] = Take(f[k - 1], rs[k])
  <2>1. k \in 0 .. n + m /\ k - 1 \in 0 .. n + m /\ k \in Nat
    BY <1>4
  <2>2. CASE k <= n
    <3>1. k \in 1 .. n /\ k - 1 <= n
      BY <1>4, <2>1, <2>2
    <3>2. g[k] = Take(g[k - 1], ps[k])
      BY <1>1, <3>1 DEF Trace
    <3> QED BY <1>4, <2>1, <2>2, <3>1, <3>2
  <2>3. CASE ~ (k <= n)
    <3> DEFINE l == k - n
    <3>1. l \in 1 .. m /\ k = n + l
      BY <1>4, <2>1, <2>3
    <3>2. h[l] = Take(h[l - 1], qs[l])
      BY <1>3, <3>1 DEF Trace
    <3>3. f[k] = h[l] /\ rs[k] = qs[l]
      BY <1>4, <2>1, <2>3, <3>1
    <3>4. f[k - 1] = h[l - 1]
      <4>1. CASE l = 1
        <5>1. k - 1 = n /\ l - 1 = 0
          BY <1>4, <3>1, <4>1
        <5>2. h[0] = g[n]
          BY <1>1, <1>3 DEF Trace
        <5> QED BY <1>4, <2>1, <5>1, <5>2
      <4>2. CASE l # 1
        <5>1. ~ (k - 1 <= n) /\ (k - 1) - n = l - 1
          BY <1>4, <3>1, <4>2
        <5> QED BY <2>1, <5>1
      <4> QED BY <4>1, <4>2
    <3> QED BY <3>2, <3>3, <3>4
  <2> QED BY <2>2, <2>3
<1>7. f[0] = d
  BY <1>1, <1>4 DEF Trace
<1>8. f[n + m] = h[m]
  <2>1. CASE m = 0
    <3>1. h[0] = g[n] /\ n + m = n
      BY <1>1, <1>3, <1>4, <2>1 DEF Trace
    <3> QED BY <1>4, <2>1, <3>1
  <2>2. CASE m # 0
    <3>1. ~ (n + m <= n) /\ (n + m) - n = m
      BY <1>4, <2>2
    <3> QED BY <1>4, <3>1
  <2> QED BY <2>1, <2>2
<1> HIDE DEF f
<1>9. Trace(c, f, d, rs)
  BY <1>5, <1>6, <1>7 DEF Trace
<1> HIDE DEF rs
<1>10. Run(d, rs) = f[Len(rs)]
  BY <1>4, <1>9, RunIs
<1> QED BY <1>3, <1>4, <1>8, <1>10 DEF rs, e

(* Reading a stream is reading its first packet and then the rest.           *)
LEMMA RunFirst ==
  ASSUME NEW c \in Carriers, NEW d \in Demuxers(c), NEW ps \in Seq(Wire(c)), ps # <<>>
  PROVE  /\ Run(d, ps) = Run(Take(d, Head(ps)), Tail(ps))
         /\ Head(ps) \in Wire(c) /\ Tail(ps) \in Seq(Wire(c))
<1>1. Head(ps) \in Wire(c) /\ Tail(ps) \in Seq(Wire(c)) /\ <<Head(ps)>> \in Seq(Wire(c))
  OBVIOUS
<1>2. ps = <<Head(ps)>> \o Tail(ps)
  OBVIOUS
<1> DEFINE p == Head(ps)
           qs == Tail(ps)
<1> HIDE DEF p, qs
<1>3. Run(d, <<p>> \o qs) = Run(Run(d, <<p>>), qs)
  BY <1>1, RunJoined DEF p, qs
<1>4. Run(d, <<p>>) = Take(d, p)
  BY <1>1, RunOne DEF p
<1> QED BY <1>1, <1>2, <1>3, <1>4 DEF p, qs

(* What every packet preserves the sequence preserves.                       *)
LEMMA RunWithin ==
  ASSUME NEW c \in Carriers, NEW d \in Demuxers(c), NEW ps \in Seq(Wire(c)), NEW G, d \in G,
         \A e \in Demuxers(c) : e \in G => \A k \in 1 .. Len(ps) : Take(e, ps[k]) \in G
  PROVE  Run(d, ps) \in G
<1>1. PICK g : Trace(c, g, d, ps) /\ Run(d, ps) = g[Len(ps)]
  BY RunTrace
<1>2. Len(ps) \in Nat
  OBVIOUS
<1> DEFINE T == {k \in Nat : k <= Len(ps) => g[k] \in G}
<1>3. 0 \in T
  BY <1>1 DEF Trace
<1>4. ASSUME NEW k \in Nat, k \in T PROVE k + 1 \in T
  <2> SUFFICES ASSUME k + 1 <= Len(ps) PROVE g[k + 1] \in G
    OBVIOUS
  <2>1. k + 1 \in 1 .. Len(ps) /\ (k + 1) - 1 = k /\ k \in 0 .. Len(ps) /\ k <= Len(ps)
    BY <1>2
  <2>2. g[k + 1] = Take(g[k], ps[k + 1]) /\ g[k] \in Demuxers(c)
    BY <1>1, <2>1 DEF Trace
  <2>3. g[k] \in G
    BY <1>4, <2>1
  <2> QED BY <2>1, <2>2, <2>3
<1> HIDE DEF T
<1>5. \A k \in Nat : k \in T
  BY <1>3, <1>4, Inductively
<1>6. Len(ps) \in T
  BY <1>2, <1>5
<1> QED BY <1>1, <1>2, <1>6 DEF T

-----------------------------------------------------------------------------
(* The packets of one unit.                                                  *)

(* A time of the stream fits into its stamp.                                 *)
LEMMA StampIs ==
  ASSUME NEW x \in Times \cup {None}
  PROVE  Stamp(x) = x
<1>1. CASE x = None
  BY <1>1 DEF Stamp
<1>2. CASE x # None
  <2> DEFINE M == 2 ^ TimeBits
  <2>1. x \in 0 .. M - 1 /\ M \in Int
    BY <1>2, TransportAssumption DEF Times
  <2> HIDE DEF M
  <2>2. M \in Nat \ {0} /\ x \in Nat /\ x < M
    BY <2>1
  <2>3. x % M = x
    BY <2>2
  <2> QED BY <1>2, <2>3 DEF Stamp, M
<1> QED BY <1>1, <1>2

(* What demux makes of a unit has its time and its data.                     *)
LEMMA NormalFacts ==
  ASSUME NEW u \in AnyUnit
  PROVE  /\ Normal(u) \in AnyUnit /\ Normal(u).pts = u.pts /\ Normal(u).data = u.data
         /\ Normal(u).dts = IF u.dts = u.pts THEN None ELSE u.dts
         /\ Normal(u) = [pts |-> u.pts, dts |-> IF u.dts = u.pts THEN None ELSE u.dts, data |-> u.data]
         /\ Time(Normal(u)) = Time(u) /\ Normal(Normal(u)) = Normal(u)
<1>1. /\ u = [pts |-> u.pts, dts |-> u.dts, data |-> u.data]
      /\ u.pts \in Times \cup {None} /\ u.dts \in Times \cup {None} /\ u.data \in Seq(AnyCell) \ {<<>>}
  BY DEF AnyUnit
<1> DEFINE x == IF u.dts = u.pts THEN None ELSE u.dts
<1>2. Normal(u) = [pts |-> u.pts, dts |-> x, data |-> u.data]
  BY <1>1 DEF Normal
<1>3. x \in Times \cup {None} /\ (x = u.pts => x = None)
  BY <1>1
<1>4. Normal(u) \in AnyUnit
  BY <1>1, <1>2, <1>3 DEF AnyUnit
<1>5. Time(Normal(u)) = Time(u)
  BY <1>2 DEF Time
<1> HIDE DEF x
<1>6. Normal(Normal(u)) = Normal(u)
  BY <1>2, <1>3 DEF Normal
<1> QED BY <1>2, <1>4, <1>5, <1>6 DEF x

(* The header that mux writes.                                               *)
LEMMA HeaderIs ==
  ASSUME NEW c \in Carriers, NEW t \in DOMAIN c, NEW u \in AnyUnit
  PROVE  /\ Header(c, t, u) = [pts |-> u.pts, dts |-> Normal(u).dts, length |-> Length(c, t, u.data)]
         /\ Header(c, t, u) \in Heads /\ Length(c, t, u.data) \in {None, Len(u.data)}
<1>1. u.pts \in Times \cup {None} /\ u.dts \in Times \cup {None} /\ u.data \in Seq(AnyCell) /\ u.data # <<>>
  BY DEF AnyUnit
<1>2. Stamp(u.pts) = u.pts /\ Stamp(u.dts) = u.dts
  BY <1>1, StampIs
<1>3. Normal(u).dts = IF u.dts = u.pts THEN None ELSE u.dts
  BY NormalFacts
<1>4. Header(c, t, u) = [pts |-> u.pts, dts |-> Normal(u).dts, length |-> Length(c, t, u.data)]
  BY <1>2, <1>3 DEF Header
<1>5. Length(c, t, u.data) \in {None, Len(u.data)} /\ Len(u.data) \in Nat \ {0}
  BY <1>1 DEF Length
<1> QED BY <1>1, <1>3, <1>4, <1>5 DEF Heads

\* The packets of a unit.
Block(c, t, u) == Packets(t, Header(c, t, u), u.data)

(* The first begins the unit, every other continues it.                      *)
LEMMA BlockFacts ==
  ASSUME NEW c \in Carriers, NEW t \in DOMAIN c, NEW u \in AnyUnit
  PROVE  LET ps == Block(c, t, u)
         IN  /\ ps \in Seq(Wire(c)) /\ Len(ps) = Len(u.data) /\ Len(ps) \in Nat \ {0}
             /\ ps[1] = Packet(t, TRUE, Header(c, t, u), SubSeq(u.data, 1, 1))
             /\ \A k \in 2 .. Len(ps) : ps[k] = Packet(t, FALSE, None, <<u.data[k]>>)
             /\ \A k \in 1 .. Len(ps) : ps[k].pid = t
<1> DEFINE x == u.data
           n == Len(x)
           h == Header(c, t, u)
           a == Packet(t, TRUE, h, SubSeq(x, 1, 1))
           B(i) == Packet(t, FALSE, None, <<x[i + 1]>>)
           rest == [i \in 1 .. n - 1 |-> B(i)]
<1>1. x \in Seq(AnyCell) /\ x # <<>>
  BY DEF AnyUnit
<1>2. n \in Nat \ {0} /\ SubSeq(x, 1, 1) \in Seq(AnyCell) /\ SubSeq(x, 1, 1) # <<>>
  <2> HIDE DEF x
  <2> QED BY <1>1
<1>3. h \in Heads /\ t \in Int /\ t \in Nat
  BY HeaderIs, CarrierTyped
<1>4. a \in Wire(c)
  BY <1>2, <1>3 DEF Wire, Packet
<1>5. \A i \in 1 .. n - 1 : B(i) \in Wire(c)
  <2> TAKE i \in 1 .. n - 1
  <2>1. x[i + 1] \in AnyCell
    BY <1>1, <1>2
  <2>2. <<x[i + 1]>> \in Seq(AnyCell)
    BY <2>1
  <2> QED BY <1>3, <2>2 DEF Wire, Packet
<1>6. Block(c, t, u) = <<a>> \o rest
  BY DEF Block, Packets
<1>7. a.pid = t /\ \A i : B(i).pid = t
  BY DEF Packet
<1> HIDE DEF a, B, n
<1>8. <<a>> \in Seq(Wire(c)) /\ Len(<<a>>) = 1 /\ <<a>>[1] = a
  BY <1>4
<1>9. rest \in Seq(Wire(c)) /\ Len(rest) = n - 1 /\ n - 1 \in Nat
  <2>1. rest \in [1 .. n - 1 -> Wire(c)] /\ n - 1 \in Nat
    BY <1>2, <1>5
  <2> QED BY <2>1
<1> DEFINE ps == <<a>> \o rest
<1>10. ps \in Seq(Wire(c)) /\ Len(ps) = n /\ ps[1] = a
  BY <1>2, <1>8, <1>9
<1>11. ASSUME NEW k \in 2 .. n PROVE ps[k] = B(k - 1) /\ (k - 1) + 1 = k
  <2>1. k - 1 \in 1 .. n - 1 /\ (k - 1) + 1 = k /\ 1 + (k - 1) = k
    BY <1>2
  <2>2. ps[1 + (k - 1)] = rest[k - 1]
    BY <1>8, <1>9, <2>1, SeqJoined
  <2>3. rest[k - 1] = B(k - 1)
    BY <2>1
  <2> HIDE DEF ps, rest
  <2> QED BY <2>1, <2>2, <2>3
<1> HIDE DEF ps, rest
<1>12. \A k \in 2 .. n : B(k - 1) = Packet(t, FALSE, None, <<x[k]>>)
  BY <1>2 DEF B
<1>13. \A k \in 1 .. n : ps[k].pid = t
  <2> TAKE k \in 1 .. n
  <2>1. k = 1 \/ k \in 2 .. n
    BY <1>2
  <2> QED BY <1>7, <1>10, <1>11, <2>1
<1>14. Block(c, t, u) = ps
  BY <1>6 DEF ps
<1> QED BY <1>2, <1>10, <1>11, <1>12, <1>13, <1>14 DEF n, a

\* A state of the demultiplexer.
State(pat, pmt, buffers, program) == [pat |-> pat, pmt |-> pmt, buffers |-> buffers, units |-> program]

(* A unit's packets close the unit before and leave it whole in the buffer.   *)
LEMMA RunBlock ==
  ASSUME NEW c \in Carriers, NEW t \in DOMAIN c, NEW u \in AnyUnit, NEW d \in Demuxers(c), d.pmt
  PROVE  Run(d, Block(c, t, u)) =
             State(d.pat, d.pmt, [d.buffers EXCEPT ![t] = Buffer(Header(c, t, u), u.data)],
                   [d.units EXCEPT ![t] = Final(d, t)])
<1> DEFINE ps == Block(c, t, u)
           x == u.data
           n == Len(x)
           h == Header(c, t, u)
           B(k) == [d.buffers EXCEPT ![t] = Buffer(h, SubSeq(x, 1, k))]
           w == [d.units EXCEPT ![t] = Final(d, t)]
           S(k) == State(d.pat, d.pmt, B(k), w)
<1>1. /\ ps \in Seq(Wire(c)) /\ Len(ps) = n /\ n \in Nat \ {0}
      /\ ps[1] = Packet(t, TRUE, h, SubSeq(x, 1, 1))
      /\ \A k \in 2 .. n : ps[k] = Packet(t, FALSE, None, <<x[k]>>)
  BY BlockFacts
<1>2. x \in Seq(AnyCell) /\ d.buffers \in [DOMAIN c -> Buffers]
  BY DEF AnyUnit, Demuxers
<1>3. PICK g : Trace(c, g, d, ps) /\ Run(d, ps) = g[Len(ps)]
  BY <1>1, RunTrace
<1> HIDE DEF ps, x, n, h, B, w, S
<1>4. g[1] = S(1)
  <2>1. g[1] = Take(d, ps[1]) /\ ps[1] \in Wire(c)
    <3>1. 1 \in 1 .. Len(ps) /\ 1 - 1 = 0
      BY <1>1
    <3> QED BY <1>1, <1>3, <3>1 DEF Trace
  <2>2. ps[1].pid = t /\ ps[1].start /\ ps[1].head = h /\ ps[1].data = SubSeq(x, 1, 1)
    BY <1>1 DEF Packet
  <2>3. Take(d, ps[1]) = State(d.pat, d.pmt, [d.buffers EXCEPT ![t] = Buffer(h, SubSeq(x, 1, 1))], w)
    BY <2>1, <2>2, TakeStart DEF State, w
  <2> QED BY <2>1, <2>3 DEF S, B
<1>5. ASSUME NEW k \in 1 .. n - 1, g[k] = S(k)
      PROVE  g[k + 1] = S(k + 1)
  <2>1. k + 1 \in 2 .. n /\ k + 1 \in 1 .. n /\ (k + 1) - 1 = k /\ k \in 0 .. n
    BY <1>1
  <2>2. g[k + 1] = Take(g[k], ps[k + 1]) /\ g[k] \in Demuxers(c) /\ ps[k + 1] \in Wire(c)
    BY <1>1, <1>3, <2>1 DEF Trace
  <2>3. ps[k + 1].pid = t /\ ~ ps[k + 1].start /\ ps[k + 1].data = <<x[k + 1]>>
    <3>1. ps[k + 1] = Packet(t, FALSE, None, <<x[k + 1]>>)
      BY <1>1, <2>1
    <3> QED BY <3>1 DEF Packet
  <2>4. /\ g[k].pat = d.pat /\ g[k].pmt = d.pmt /\ g[k].units = w
        /\ g[k].buffers = B(k)
    BY <1>5 DEF S, State
  <2>5. B(k)[t] = Buffer(h, SubSeq(x, 1, k))
    BY <1>2 DEF B
  <2>6. LET b == B(k)[t] IN b.open /\ b.head = h /\ b.data = SubSeq(x, 1, k)
    BY <2>5 DEF Buffer
  <2>7. Take(g[k], ps[k + 1]) = State(d.pat, d.pmt, [B(k) EXCEPT ![t] = Buffer(h, SubSeq(x, 1, k) \o <<x[k + 1]>>)], w)
    <3>1. g[k].pmt /\ g[k].buffers[t].open
      BY <2>4, <2>6
    <3>2. Take(g[k], ps[k + 1]) =
            [pat |-> g[k].pat, pmt |-> g[k].pmt,
             buffers |-> [g[k].buffers EXCEPT ![ps[k + 1].pid] =
                  Buffer(g[k].buffers[ps[k + 1].pid].head,
                         g[k].buffers[ps[k + 1].pid].data \o ps[k + 1].data)],
             units |-> g[k].units]
      BY <2>2, <2>3, <3>1, TakeMore
    <3> QED BY <2>3, <2>4, <2>6, <3>2 DEF State
  <2>8. SubSeq(x, 1, k) \o <<x[k + 1]>> = SubSeq(x, 1, k + 1)
    <3>1. k \in Nat /\ k < Len(x)
      BY <1>1 DEF n
    <3> QED BY ONLY <1>2, <3>1
  <2>9. [B(k) EXCEPT ![t] = Buffer(h, SubSeq(x, 1, k + 1))] = B(k + 1)
    <3>1. \A y, z : [[d.buffers EXCEPT ![t] = y] EXCEPT ![t] = z] = [d.buffers EXCEPT ![t] = z]
      BY <1>2
    <3> QED BY <3>1 DEF B
  <2> QED BY <2>2, <2>7, <2>8, <2>9 DEF S
<1> DEFINE T == {k \in Nat : k + 1 <= n => g[k + 1] = S(k + 1)}
<1>6. 0 \in T
  BY <1>4
<1>7. ASSUME NEW k \in Nat, k \in T PROVE k + 1 \in T
  <2> SUFFICES ASSUME (k + 1) + 1 <= n PROVE g[(k + 1) + 1] = S((k + 1) + 1)
    OBVIOUS
  <2>1. k + 1 \in 1 .. n - 1
    BY <1>1
  <2>2. g[k + 1] = S(k + 1)
    BY <1>1, <1>7, <2>1
  <2> QED BY <1>5, <2>1, <2>2
<1> HIDE DEF T
<1>8. \A k \in Nat : k \in T
  BY <1>6, <1>7, Inductively
<1>9. g[n] = S(n)
  <2>1. n - 1 \in T /\ (n - 1) + 1 = n
    BY <1>1, <1>8
  <2> QED BY <1>1, <2>1 DEF T
<1>10. SubSeq(x, 1, n) = x
  BY <1>2 DEF n
<1> QED BY <1>1, <1>3, <1>9, <1>10 DEF S, B, ps, x, h, w

(* What such a buffer parses to.                                             *)
LEMMA ParseUnit ==
  ASSUME NEW c \in Carriers, NEW t \in DOMAIN c, NEW u \in AnyUnit
  PROVE  LET b == Buffer(Header(c, t, u), u.data) IN b.open /\ Parse(b) = Normal(u) /\ b \in Buffers
<1> DEFINE b == Buffer(Header(c, t, u), u.data)
           m == Length(c, t, u.data)
<1>1. b.open /\ b.head = Header(c, t, u) /\ b.data = u.data
  BY DEF Buffer
<1>2. /\ Header(c, t, u) = [pts |-> u.pts, dts |-> Normal(u).dts, length |-> m]
      /\ Header(c, t, u) \in Heads /\ m \in {None, Len(u.data)}
  BY HeaderIs
<1>3. u.data \in Cells /\ Len(u.data) \in Nat
  BY DEF AnyUnit, Cells
<1>4. ~ (m # None /\ m < Len(u.data))
  BY <1>2, <1>3
<1> HIDE DEF m
<1>5. Parse(b) = [pts |-> u.pts, dts |-> Normal(u).dts, data |-> u.data]
  BY <1>1, <1>2, <1>4 DEF Parse
<1>6. Normal(u) = [pts |-> u.pts, dts |-> Normal(u).dts, data |-> u.data]
  BY NormalFacts
<1>7. b \in Buffers
  BY <1>2, <1>3, BufferIn
<1> QED BY <1>1, <1>5, <1>6, <1>7

(* So in the end one unit more is the track's.                               *)
LEMMA RunBlockFinal ==
  ASSUME NEW c \in Carriers, NEW t \in DOMAIN c, NEW u \in AnyUnit, NEW d \in Demuxers(c), d.pmt
  PROVE  LET e == Run(d, Block(c, t, u))
         IN  /\ e \in Demuxers(c) /\ e.pmt
             /\ Final(e, t) = Append(Final(d, t), Normal(u))
             /\ \A s \in DOMAIN c : s # t => Final(e, s) = Final(d, s)
<1> DEFINE e == Run(d, Block(c, t, u))
           b == Buffer(Header(c, t, u), u.data)
           w == Final(d, t)
<1>1. e \in Demuxers(c)
  BY BlockFacts, RunTyped
<1>2. e = State(d.pat, d.pmt, [d.buffers EXCEPT ![t] = b], [d.units EXCEPT ![t] = w])
  BY RunBlock
<1>3. b.open /\ Parse(b) = Normal(u)
  BY ParseUnit
<1>4. d.buffers \in [DOMAIN c -> Buffers] /\ d.units \in [DOMAIN c -> Seq(AnyUnit)]
  BY DEF Demuxers, Programs
<1> HIDE DEF e, b, w
<1>5. /\ e.pmt = d.pmt /\ e.buffers = [d.buffers EXCEPT ![t] = b]
      /\ e.units = [d.units EXCEPT ![t] = w]
  BY <1>2 DEF State
<1>6. e.buffers[t] = b /\ e.units[t] = w
  BY <1>4, <1>5
<1>7. \A s \in DOMAIN c : s # t => e.buffers[s] = d.buffers[s] /\ e.units[s] = d.units[s]
  BY <1>4, <1>5
<1>8. Final(e, t) = Append(w, Normal(u))
  BY <1>3, <1>6 DEF Final
<1>9. \A s \in DOMAIN c : s # t => Final(e, s) = Final(d, s)
  BY <1>7 DEF Final
<1> QED BY <1>1, <1>5, <1>8, <1>9 DEF e, w

-----------------------------------------------------------------------------
(* Packets of tables and of one track leave the other tracks alone.          *)

\* What is added comes after what is there.
Extends(x, y) == Len(y) <= Len(x) /\ \A i \in 1 .. Len(y) : x[i] = y[i]

(* Closing a buffer adds one unit at most.                                   *)
LEMMA FinalExtends ==
  ASSUME NEW c \in Carriers, NEW d \in Demuxers(c), NEW t \in DOMAIN c
  PROVE  /\ Extends(Final(d, t), d.units[t]) /\ Len(Final(d, t)) <= Len(d.units[t]) + 1
         /\ Len(Final(d, t)) \in Nat /\ Len(d.units[t]) \in Nat
<1> DEFINE u == d.units[t]
           x == Parse(d.buffers[t])
<1>1. u \in Seq(AnyUnit) /\ Final(d, t) \in Seq(AnyUnit)
  BY FinalTyped
<1>2. Final(d, t) \in {u, Append(u, x)}
  BY DEF Final
<1> HIDE DEF u, x
<1>3. Len(u) \in Nat /\ Len(Append(u, x)) = Len(u) + 1 /\ \A i \in 1 .. Len(u) : Append(u, x)[i] = u[i]
  BY <1>1
<1>4. Extends(Final(d, t), u) /\ Len(Final(d, t)) <= Len(u) + 1 /\ Len(Final(d, t)) \in Nat
  BY <1>1, <1>2, <1>3 DEF Extends
<1> QED BY <1>3, <1>4 DEF u

(* Packets of one track, and tables, leave every other track as it is.       *)
LEMMA RunApart ==
  ASSUME NEW c \in Carriers, NEW d \in Demuxers(c), d.pmt, NEW ps \in Seq(Wire(c)), NEW p,
         \A k \in 1 .. Len(ps) : ps[k].pid \in Tables \cup {p}
  PROVE  LET e == Run(d, ps)
         IN  /\ e \in Demuxers(c) /\ e.pmt
             /\ \A t \in DOMAIN c : /\ t # p => e.buffers[t] = d.buffers[t] /\ e.units[t] = d.units[t]
                                                /\ Final(e, t) = Final(d, t)
                                    /\ Extends(e.units[t], d.units[t])
<1> DEFINE G == {e \in Demuxers(c) :
                    /\ e.pmt
                    /\ \A t \in DOMAIN c : t # p => e.buffers[t] = d.buffers[t] /\ e.units[t] = d.units[t]
                    /\ \A t \in DOMAIN c : Extends(e.units[t], d.units[t])}
<1>1. d \in G
  <2>1. \A t \in DOMAIN c : Len(d.units[t]) \in Nat
    BY FinalExtends
  <2> QED BY <2>1 DEF Extends
<1>2. ASSUME NEW e \in Demuxers(c), e \in G, NEW k \in 1 .. Len(ps)
      PROVE  Take(e, ps[k]) \in G
  <2> DEFINE q == ps[k]
             f == Take(e, q)
  <2>1. q \in Wire(c) /\ q.pid \in Tables \cup {p}
    OBVIOUS
  <2> HIDE DEF q
  <2>2. /\ f \in Demuxers(c)
        /\ q.pid \in Tables => f.buffers = e.buffers /\ f.units = e.units /\ (f.pmt <=> e.pmt \/ (q.pid = Pmt /\ q.start /\ e.pat))
        /\ q.pid \notin Tables => f.pmt = e.pmt
        /\ \A t \in DOMAIN c : /\ t # q.pid => f.buffers[t] = e.buffers[t] /\ f.units[t] = e.units[t]
                               /\ f.units[t] \in {e.units[t], Final(e, t)}
    BY <2>1, TakeFacts
  <2> HIDE DEF f
  <2>3. f.pmt
    BY <1>2, <2>2
  <2>4. ASSUME NEW t \in DOMAIN c, t # p PROVE f.buffers[t] = d.buffers[t] /\ f.units[t] = d.units[t]
    <3>1. e.buffers[t] = d.buffers[t] /\ e.units[t] = d.units[t]
      BY <1>2, <2>4
    <3> QED BY <2>1, <2>2, <2>4, <3>1
  <2>5. ASSUME NEW t \in DOMAIN c PROVE Extends(f.units[t], d.units[t])
    <3>1. Extends(e.units[t], d.units[t]) /\ Extends(Final(e, t), e.units[t])
      BY <1>2, FinalExtends
    <3>2. Len(Final(e, t)) \in Nat /\ Len(e.units[t]) \in Nat /\ Len(d.units[t]) \in Nat
      BY FinalExtends
    <3>3. Extends(Final(e, t), d.units[t])
      BY <3>1, <3>2 DEF Extends
    <3> QED BY <2>2, <3>1, <3>3
  <2> QED BY <2>2, <2>3, <2>4, <2>5 DEF f, q
<1> HIDE DEF G
<1>3. Run(d, ps) \in G
  BY <1>1, <1>2, RunWithin
<1> QED BY <1>3 DEF G, Final

\* The tables as a mux writes them.
Psi == <<Table(Pat), Table(Pmt)>>

(* The two tables as packets.                                                *)
LEMMA PsiTyped ==
  ASSUME NEW c \in Carriers
  PROVE  /\ Psi \in Seq(Wire(c)) /\ Len(Psi) = 2 /\ Psi[1] = Table(Pat) /\ Psi[2] = Table(Pmt)
         /\ Psi = <<Table(Pat)>> \o <<Table(Pmt)>>
         /\ \A pid \in Tables : Table(pid) \in Wire(c) /\ Table(pid).pid = pid /\ Table(pid).start
         /\ <<>> \in Seq(Wire(c)) /\ Len(<<>>) = 0
         /\ Pat \in Tables /\ Pmt \in Tables /\ Pat # Pmt
<1>1. Filler \in AnyCell
  <2>1. Filler = [of |-> None, part |-> 0, size |-> 1, gop |-> FALSE, lock |-> Plain]
    BY DEF Filler
  <2>2. 0 \in Nat /\ 1 \in {1, 2} /\ FALSE \in BOOLEAN /\ Plain \in {Plain, Noise} \cup Label
    OBVIOUS
  <2> QED BY ONLY <2>1, <2>2 DEF AnyCell
<1>2. Pat \in Tables /\ Pmt \in Tables /\ Pat # Pmt /\ Tables \subseteq Int
  BY DEF Tables, Pat, Pmt
<1>3. \A pid \in Tables : Table(pid) \in Wire(c) /\ Table(pid).pid = pid /\ Table(pid).start
  <2> TAKE pid \in Tables
  <2>1. pid \notin DOMAIN c
    BY CarrierTyped
  <2>2. <<Filler>> \in Seq(AnyCell)
    BY <1>1
  <2> QED BY <1>2, <2>1, <2>2 DEF Table, Packet, Wire
<1> DEFINE a == Table(Pat)
           b == Table(Pmt)
<1>4. a \in Wire(c) /\ b \in Wire(c)
  BY <1>2, <1>3
<1> HIDE DEF a, b
<1>5. <<a, b>> \in Seq(Wire(c)) /\ Len(<<a, b>>) = 2 /\ <<a, b>>[1] = a /\ <<a, b>>[2] = b
  BY <1>4
<1>6. <<a, b>> = <<a>> \o <<b>>
  BY <1>4, Pair
<1> QED BY <1>2, <1>3, <1>5, <1>6 DEF Psi, a, b

(* The tables open the program and touch no unit.                            *)
LEMMA RunPsi ==
  ASSUME NEW c \in Carriers, NEW d \in Demuxers(c)
  PROVE  LET e == Run(d, Psi)
         IN  e \in Demuxers(c) /\ e.pmt /\ e.buffers = d.buffers /\ e.units = d.units
<1> DEFINE a == Table(Pat)
           b == Table(Pmt)
           f == Take(d, a)
           e == Take(f, b)
<1>1. /\ a \in Wire(c) /\ b \in Wire(c) /\ a.pid = Pat /\ b.pid = Pmt /\ a.start /\ b.start
      /\ Pat \in Tables /\ Pmt \in Tables /\ Psi = <<a>> \o <<b>>
  BY PsiTyped
<1> HIDE DEF a, b
<1>2. f \in Demuxers(c) /\ f.pat /\ f.buffers = d.buffers /\ f.units = d.units
  BY <1>1, TakeFacts
<1> HIDE DEF f
<1>3. e \in Demuxers(c) /\ e.pmt /\ e.buffers = f.buffers /\ e.units = f.units
  BY <1>1, <1>2, TakeFacts
<1> HIDE DEF e
<1>4. Run(d, Psi) = e
  <2>1. <<a>> \in Seq(Wire(c)) /\ <<b>> \in Seq(Wire(c))
    BY <1>1
  <2>2. Run(d, <<a>> \o <<b>>) = Run(Run(d, <<a>>), <<b>>)
    BY <2>1, RunJoined
  <2>3. Run(d, <<a>>) = f
    BY <1>1, RunOne DEF f
  <2>4. Run(f, <<b>>) = e
    BY <1>1, <1>2, RunOne DEF e
  <2> QED BY <1>1, <2>2, <2>3, <2>4
<1> QED BY <1>2, <1>3, <1>4

(* Before the tables no packet of a track is of use.                         *)
LEMMA RunDeaf ==
  ASSUME NEW c \in Carriers, NEW d \in Demuxers(c), ~ d.pmt, NEW ps \in Seq(Wire(c)),
         \A k \in 1 .. Len(ps) : ps[k].pid \notin Tables
  PROVE  Run(d, ps) = d
<1>1. ASSUME NEW e \in Demuxers(c), e \in {d}, NEW k \in 1 .. Len(ps)
      PROVE  Take(e, ps[k]) \in {d}
  <2>1. ps[k] \in Wire(c) /\ e = d
    BY <1>1
  <2> QED BY <2>1, TakeFacts
<1>2. Run(d, ps) \in {d}
  BY <1>1, RunWithin
<1> QED BY <1>2

UnitAt(us, i) == us[Order(us)[i][1]][Order(us)[i][2]]
Lead(c, us, i) == IF TablesBefore(c, Order(us), i) THEN Psi ELSE <<>>
MuxPart(c, us, i) == Lead(c, us, i) \o Block(c, Order(us)[i][1], UnitAt(us, i))
MuxParts(c, us) == [i \in DOMAIN Order(us) |-> MuxPart(c, us, i)]

(* What mux writes is the parts, one for each unit in order.                 *)
LEMMA MuxFacts ==
  ASSUME NEW c \in Carriers, NEW us \in Programs(c)
  PROVE  LET ps == MuxParts(c, us)
         IN  /\ Mux(c, us) = FlattenSeq(ps) /\ ps \in Seq(Seq(Wire(c))) /\ Len(ps) = Len(Order(us))
             /\ Len(ps) \in Nat /\ Mux(c, us) \in Seq(Wire(c))
             /\ \A i \in 1 .. Len(ps) :
                   /\ ps[i] = MuxPart(c, us, i) /\ Lead(c, us, i) \in {<<>>, Psi}
                   /\ Lead(c, us, i) \in Seq(Wire(c)) /\ UnitAt(us, i) \in AnyUnit
                   /\ Order(us)[i][1] \in DOMAIN c
                   /\ Block(c, Order(us)[i][1], UnitAt(us, i)) \in Seq(Wire(c))
<1> DEFINE ps == MuxParts(c, us)
           q == Order(us)
<1>1. /\ q \in Seq(Numbered(us)) /\ Len(q) \in Nat /\ DOMAIN q = 1 .. Len(q)
      /\ \A i \in 1 .. Len(q) : q[i][1] \in DOMAIN c /\ UnitAt(us, i) \in AnyUnit
  BY OrderFacts DEF UnitAt
<1>2. Mux(c, us) = FlattenSeq(ps)
  BY DEF Mux, MuxParts, MuxPart, Lead, Block, UnitAt, Psi
<1> HIDE DEF q
<1>3. \A i \in 1 .. Len(q) : Block(c, q[i][1], UnitAt(us, i)) \in Seq(Wire(c))
  BY <1>1, BlockFacts
<1>4. \A i : Lead(c, us, i) \in {<<>>, Psi} /\ Lead(c, us, i) \in Seq(Wire(c))
  BY PsiTyped DEF Lead
<1>5. \A i \in 1 .. Len(q) : MuxPart(c, us, i) \in Seq(Wire(c))
  <2> TAKE i \in 1 .. Len(q)
  <2> DEFINE a == Lead(c, us, i)
             b == Block(c, q[i][1], UnitAt(us, i))
  <2>1. a \in Seq(Wire(c)) /\ b \in Seq(Wire(c))
    BY <1>3, <1>4
  <2>2. MuxPart(c, us, i) = a \o b
    BY DEF MuxPart, q
  <2> HIDE DEF a, b
  <2>3. a \o b \in Seq(Wire(c))
    BY <2>1
  <2> QED BY <2>2, <2>3
<1>6. ps = [i \in 1 .. Len(q) |-> MuxPart(c, us, i)]
  BY <1>1 DEF MuxParts, q
<1> HIDE DEF ps
<1>7. ps \in Seq(Seq(Wire(c))) /\ Len(ps) = Len(q)
  <2>1. ps \in [1 .. Len(q) -> Seq(Wire(c))]
    BY <1>5, <1>6
  <2> QED BY <1>1, <2>1
<1>8. Mux(c, us) \in Seq(Wire(c))
  BY <1>2, <1>7, FlattenTyped
<1>9. \A i \in 1 .. Len(ps) : ps[i] = MuxPart(c, us, i)
  BY <1>6, <1>7
<1> QED BY <1>1, <1>2, <1>3, <1>4, <1>7, <1>8, <1>9 DEF ps, q

(* What holds at each place, if every part preserves it.                     *)
LEMMA RunParts ==
  ASSUME NEW c \in Carriers, NEW d \in Demuxers(c), NEW ps \in Seq(Seq(Wire(c))), NEW i \in 0 .. Len(ps),
         NEW G, <<i, d>> \in G,
         \A j \in i .. Len(ps) - 1 : \A e \in Demuxers(c) : <<j, e>> \in G => <<j + 1, Run(e, ps[j + 1])>> \in G
  PROVE  /\ <<Len(ps), Run(d, FlattenSeq(SubSeq(ps, i + 1, Len(ps))))>> \in G
         /\ FlattenSeq(SubSeq(ps, i + 1, Len(ps))) \in Seq(Wire(c))
<1> DEFINE n == Len(ps)
           P(k) == SubSeq(ps, i + 1, i + k)
           T == {k \in Nat : i + k <= n => <<i + k, Run(d, FlattenSeq(P(k)))>> \in G}
<1>1. n \in Nat /\ i \in Nat /\ i <= n
  OBVIOUS
<1>2. \A k \in Nat : i + k <= n => P(k) \in Seq(Seq(Wire(c)))
  <2> TAKE k \in Nat
  <2> HAVE i + k <= n
  <2> QED OBVIOUS
<1>3. 0 \in T
  <2>1. P(0) = <<>> /\ i + 0 = i
    BY <1>1
  <2> HIDE DEF P
  <2>2. Run(d, FlattenSeq(P(0))) = d
    BY <2>1, FlattenEmpty, RunEmpty
  <2> QED BY <2>1, <2>2
<1>4. ASSUME NEW k \in Nat, k \in T PROVE k + 1 \in T
  <2> SUFFICES ASSUME i + (k + 1) <= n PROVE <<i + (k + 1), Run(d, FlattenSeq(P(k + 1)))>> \in G
    OBVIOUS
  <2> DEFINE j == i + k
             a == FlattenSeq(P(k))
             b == ps[j + 1]
  <2>1. j \in i .. n - 1 /\ j + 1 \in 1 .. n /\ i + (k + 1) = j + 1 /\ i + k <= n
    BY <1>1
  <2>2. b \in Seq(Wire(c)) /\ P(k) \in Seq(Seq(Wire(c)))
    BY <1>2, <2>1
  <2>3. P(k + 1) = Append(P(k), b)
    <3>1. i + 1 \in Nat \ {0} /\ j \in Nat /\ i + 1 <= j + 1 /\ j + 1 <= Len(ps)
      BY <1>1, <2>1
    <3>2. SubSeq(ps, i + 1, j + 1) = Append(SubSeq(ps, i + 1, j), ps[j + 1])
      <4> DEFINE m == i + 1
      <4>1. m \in Nat \ {0} /\ m <= j + 1
        BY <3>1
      <4> HIDE DEF m, j
      <4>2. SubSeq(ps, m, j + 1) = Append(SubSeq(ps, m, j), ps[j + 1])
        BY ONLY ps \in Seq(Seq(Wire(c))), <3>1, <4>1
      <4> QED BY <4>2 DEF m
    <3> QED BY <2>1, <3>2
  <2> HIDE DEF P, b, j
  <2>4. a \in Seq(Wire(c)) /\ FlattenSeq(P(k + 1)) = a \o b
    BY <2>2, <2>3, FlattenTyped, FlattenMore
  <2> HIDE DEF a
  <2>5. Run(d, a \o b) = Run(Run(d, a), b) /\ Run(d, a) \in Demuxers(c)
    BY <2>2, <2>4, RunJoined, RunTyped
  <2>6. <<j, Run(d, a)>> \in G
    BY <1>4, <2>1 DEF a, j
  <2>7. <<j + 1, Run(Run(d, a), b)>> \in G
    BY <2>1, <2>5, <2>6 DEF b
  <2> QED BY <2>1, <2>4, <2>5, <2>7
<1> HIDE DEF T
<1>5. \A k \in Nat : k \in T
  BY <1>3, <1>4, Inductively
<1>6. n - i \in T /\ i + (n - i) = n /\ n - i \in Nat
  BY <1>1, <1>5
<1>7. P(n - i) = SubSeq(ps, i + 1, n) /\ P(n - i) \in Seq(Seq(Wire(c)))
  BY <1>1, <1>2, <1>6
<1> HIDE DEF P
<1>8. <<n, Run(d, FlattenSeq(P(n - i)))>> \in G
  BY <1>1, <1>6 DEF T
<1> QED BY <1>7, <1>8, FlattenTyped

-----------------------------------------------------------------------------
(* What is received of a stream.                                             *)

(* A part whose demultiplexer knows the program, or that begins with the     *)
(* tables, is heard.                                                         *)
LEMMA PartStep ==
  ASSUME NEW c \in Carriers, NEW us \in Programs(c), NEW i \in 1 .. Len(Order(us)), NEW d \in Demuxers(c)
  PROVE  LET e == Run(d, MuxPart(c, us, i))
             t == Order(us)[i][1]
             heard == d.pmt \/ TablesBefore(c, Order(us), i)
         IN  /\ e \in Demuxers(c) /\ t \in DOMAIN c
             /\ heard => /\ e.pmt /\ Final(e, t) = Append(Final(d, t), Normal(UnitAt(us, i)))
                         /\ \A s \in DOMAIN c : s # t => Final(e, s) = Final(d, s)
             /\ ~ heard => e = d
<1> DEFINE t == Order(us)[i][1]
           u == UnitAt(us, i)
           l == Lead(c, us, i)
           b == Block(c, t, u)
           f == Run(d, l)
           e == Run(d, MuxPart(c, us, i))
<1>1. /\ i \in 1 .. Len(MuxParts(c, us)) /\ l \in {<<>>, Psi} /\ l \in Seq(Wire(c)) /\ u \in AnyUnit
      /\ t \in DOMAIN c /\ b \in Seq(Wire(c)) /\ MuxPart(c, us, i) = l \o b
      /\ (l = IF TablesBefore(c, Order(us), i) THEN Psi ELSE <<>>)
  <2>1. Len(MuxParts(c, us)) = Len(Order(us))
    BY MuxFacts
  <2>2. i \in 1 .. Len(MuxParts(c, us))
    BY <2>1
  <2> QED BY <2>2, MuxFacts DEF MuxPart, Lead
<1>2. b = Block(c, t, u)
  OBVIOUS
<1> HIDE DEF l, b, u, t
<1>3. e = Run(f, b) /\ f \in Demuxers(c)
  <2>1. l \in Seq(Wire(c)) /\ b \in Seq(Wire(c)) /\ MuxPart(c, us, i) = l \o b
    BY <1>1
  <2>2. Run(d, l \o b) = Run(Run(d, l), b) /\ Run(d, l) \in Demuxers(c)
    BY ONLY c \in Carriers, d \in Demuxers(c), <2>1, RunJoined, RunTyped
  <2> QED BY <2>1, <2>2
<1>4. e \in Demuxers(c)
  BY <1>1, <1>3, RunTyped
<1>5. f.buffers = d.buffers /\ f.units = d.units
      /\ (TablesBefore(c, Order(us), i) => f.pmt) /\ (~ TablesBefore(c, Order(us), i) => f = d)
  BY <1>1, RunPsi, RunEmpty
<1> HIDE DEF f
<1>6. \A s \in DOMAIN c : Final(f, s) = Final(d, s)
  BY <1>5 DEF Final
<1>7. CASE d.pmt \/ TablesBefore(c, Order(us), i)
  <2>1. f.pmt
    BY <1>5, <1>7
  <2>2. /\ Run(f, b).pmt /\ Final(Run(f, b), t) = Append(Final(f, t), Normal(u))
        /\ \A s \in DOMAIN c : s # t => Final(Run(f, b), s) = Final(f, s)
    BY <1>1, <1>2, <1>3, <2>1, RunBlockFinal
  <2> HIDE DEF e
  <2> QED BY <1>1, <1>3, <1>4, <1>6, <1>7, <2>2 DEF e, t, u
<1>8. CASE ~ (d.pmt \/ TablesBefore(c, Order(us), i))
  <2>1. f = d /\ ~ f.pmt
    BY <1>5, <1>8
  <2>2. Len(b) \in Nat /\ \A k \in 1 .. Len(b) : b[k].pid = t
    <3>1. u \in AnyUnit /\ t \in DOMAIN c
      BY <1>1
    <3>2. Len(Block(c, t, u)) \in Nat /\ \A k \in 1 .. Len(Block(c, t, u)) : Block(c, t, u)[k].pid = t
      BY ONLY c \in Carriers, <3>1, BlockFacts
    <3> QED BY <1>2, <3>2
  <2>3. \A k \in 1 .. Len(b) : b[k].pid \notin Tables
    BY <1>1, <2>2, CarrierTyped
  <2>4. Run(f, b) = f
    BY <1>1, <1>3, <2>1, <2>3, RunDeaf
  <2> HIDE DEF e
  <2> QED BY <1>1, <1>3, <1>4, <1>8, <2>1, <2>4 DEF e, t
<1> QED BY <1>7, <1>8

(* What demux makes of a program has its times; it is the same the second    *)
(* time.                                                                     *)
LEMMA NormalUnitsFacts ==
  ASSUME NEW c \in Carriers, NEW us \in Programs(c)
  PROVE  LET ns == NormalUnits(us)
         IN  /\ ns \in Programs(c) /\ SameTimes(us, ns) /\ SameTimes(ns, us) /\ NormalUnits(ns) = ns
             /\ \A t \in DOMAIN c :
                   /\ Len(ns[t]) = Len(us[t]) /\ Len(us[t]) \in Nat /\ ns[t] \in Seq(AnyUnit) /\ us[t] \in Seq(AnyUnit)
                   /\ \A k \in 1 .. Len(us[t]) : ns[t][k] = Normal(us[t][k]) /\ us[t][k] \in AnyUnit
<1> DEFINE ns == NormalUnits(us)
<1>1. DOMAIN us = DOMAIN c /\ \A t \in DOMAIN c : us[t] \in Seq(AnyUnit)
  BY DEF Programs
<1>2. \A t \in DOMAIN c : /\ Len(us[t]) \in Nat /\ DOMAIN us[t] = 1 .. Len(us[t])
                          /\ \A k \in 1 .. Len(us[t]) : us[t][k] \in AnyUnit
  BY <1>1
<1>3. ns = [t \in DOMAIN c |-> [k \in 1 .. Len(us[t]) |-> Normal(us[t][k])]]
  BY <1>1, <1>2 DEF NormalUnits
<1>4. ASSUME NEW t \in DOMAIN c
      PROVE  /\ ns[t] \in Seq(AnyUnit) /\ Len(ns[t]) = Len(us[t])
             /\ \A k \in 1 .. Len(us[t]) : ns[t][k] = Normal(us[t][k]) /\ Time(ns[t][k]) = Time(us[t][k])
                                           /\ Normal(ns[t][k]) = ns[t][k]
  <2> DEFINE n == Len(us[t])
             x == ns[t]
  <2>1. x = [k \in 1 .. n |-> Normal(us[t][k])]
    BY <1>3
  <2>2. \A k \in 1 .. n : us[t][k] \in AnyUnit /\ n \in Nat
    BY <1>2
  <2>3. \A k \in 1 .. n : Normal(us[t][k]) \in AnyUnit /\ Time(Normal(us[t][k])) = Time(us[t][k])
                          /\ Normal(Normal(us[t][k])) = Normal(us[t][k])
    BY <2>2, NormalFacts
  <2>4. n \in Nat
    BY <1>2
  <2> HIDE DEF x, n
  <2>5. x \in [1 .. n -> AnyUnit]
    BY <2>1, <2>3
  <2>6. x \in Seq(AnyUnit) /\ Len(x) = n
    BY <2>4, <2>5
  <2> QED BY <2>1, <2>3, <2>6 DEF x, n
<1> HIDE DEF ns
<1>5. DOMAIN ns = DOMAIN c
  BY <1>3
<1>6. ns \in Programs(c)
  BY <1>3, <1>4 DEF Programs
<1>7. NormalUnits(ns) = ns
  <2>1. \A t \in DOMAIN c : [k \in DOMAIN ns[t] |-> Normal(ns[t][k])] = ns[t]
    <3> TAKE t \in DOMAIN c
    <3> DEFINE x == ns[t]
    <3>1. x \in Seq(AnyUnit) /\ \A k \in 1 .. Len(x) : Normal(x[k]) = x[k]
      BY <1>4
    <3> HIDE DEF x
    <3>2. DOMAIN x = 1 .. Len(x) /\ x = [k \in DOMAIN x |-> x[k]]
      BY <3>1
    <3>3. [k \in DOMAIN x |-> Normal(x[k])] = x
      BY <3>1, <3>2
    <3> QED BY <3>3 DEF x
  <2>2. NormalUnits(ns) = [t \in DOMAIN c |-> [k \in DOMAIN ns[t] |-> Normal(ns[t][k])]]
    BY <1>5 DEF NormalUnits
  <2>3. ns = [t \in DOMAIN c |-> ns[t]]
    BY <1>3
  <2> QED BY <2>1, <2>2, <2>3
<1>8. SameTimes(us, ns) /\ SameTimes(ns, us)
  BY <1>1, <1>4, <1>5 DEF SameTimes
<1> QED BY <1>1, <1>2, <1>4, <1>6, <1>7, <1>8 DEF ns

(* The unit at a place is the next of its track.                             *)
LEMMA NextUnit ==
  ASSUME NEW c \in Carriers, NEW us \in Programs(c), Rises(us), NEW i \in Nat, i + 1 <= Len(Order(us))
  PROVE  LET q == Order(us)
             t == q[i + 1][1]
             m == Places(q, t, i)
         IN  /\ t \in DOMAIN c /\ m \in Nat /\ m + 1 \in 1 .. Len(us[t])
             /\ Normal(UnitAt(us, i + 1)) = NormalUnits(us)[t][m + 1]
             /\ Places(q, t, i + 1) = m + 1
             /\ \A s \in DOMAIN c : s # t => Places(q, s, i + 1) = Places(q, s, i)
<1> DEFINE q == Order(us)
           t == q[i + 1][1]
           m == Places(q, t, i)
<1>1. i + 1 \in 1 .. Len(q) /\ (i + 1) - 1 = i
  BY OrderFacts
<1>2. t \in DOMAIN c /\ q[i + 1][2] \in 1 .. Len(us[t])
  BY <1>1, OrderFacts
<1>3. q[i + 1][2] = m + 1
  <2>1. q[i + 1][2] = Places(q, q[i + 1][1], (i + 1) - 1) + 1
    BY <1>1, PlaceOfUnit
  <2> QED BY <1>1, <2>1
<1>4. /\ m \in Nat /\ Places(q, t, i + 1) = m + 1
      /\ \A s \in DOMAIN c : s # t => Places(q, s, i + 1) = Places(q, s, i)
  <2>1. \A s : Places(q, s, i) \in Nat /\ Places(q, s, i + 1) = IF q[i + 1][1] = s THEN Places(q, s, i) + 1
                                                              ELSE Places(q, s, i)
    <3> TAKE s
    <3> HIDE DEF q, t, m
    <3>1. i \in Nat
      OBVIOUS
    <3> QED BY ONLY <3>1, PlacesStep
  <2> QED BY <2>1
<1>5. UnitAt(us, i + 1) = us[t][m + 1]
  BY <1>3 DEF UnitAt
<1>6. NormalUnits(us)[t][m + 1] = Normal(us[t][m + 1])
  BY <1>2, <1>3, NormalUnitsFacts
<1> QED BY <1>2, <1>3, <1>4, <1>5, <1>6

LEMMA JoinMore ==
  \A x, y \in Seq(AnyUnit) : \A z \in AnyUnit : Append(x \o y, z) = x \o Append(y, z)
  OBVIOUS

(* From tables on every unit is received.                                    *)
LEMMA HearsUpto ==
  ASSUME NEW c \in Carriers, NEW us \in Programs(c), Rises(us), NEW d \in Demuxers(c),
         NEW i \in 0 .. Len(Order(us)), NEW n \in i .. Len(Order(us)),
         d.pmt \/ i = n \/ TablesBefore(c, Order(us), i + 1)
  PROVE  LET q == Order(us)
             rest == FlattenSeq(SubSeq(MuxParts(c, us), i + 1, n))
             e == Run(d, rest)
         IN  /\ rest \in Seq(Wire(c)) /\ e \in Demuxers(c) /\ (e.pmt \/ (i = n /\ e = d))
             /\ \A t \in DOMAIN c : Final(e, t) = Final(d, t)
                    \o SubSeq(NormalUnits(us)[t], Places(q, t, i) + 1, Places(q, t, n))
<1> DEFINE q == Order(us)
           all == MuxParts(c, us)
           ps == SubSeq(all, 1, n)
           N(t) == NormalUnits(us)[t]
           M(t, j) == Places(q, t, j)
           Got(e, j) == \A t \in DOMAIN c : Final(e, t) = Final(d, t) \o SubSeq(N(t), M(t, i) + 1, M(t, j))
           After(j) == \A t \in DOMAIN c : M(t, i) <= M(t, j)
           G == {z \in Nat \X Demuxers(c) :
                    /\ After(z[1]) /\ Got(z[2], z[1])
                    /\ z[2].pmt \/ z = <<i, d>>}
<1>1. /\ ps \in Seq(Seq(Wire(c))) /\ Len(ps) = n /\ n \in Nat /\ i \in Nat /\ i \in 0 .. Len(ps)
      /\ \A j \in 1 .. n : ps[j] = MuxPart(c, us, j)
      /\ n <= Len(q) /\ Len(q) \in Nat /\ Len(all) = Len(q) /\ all \in Seq(Seq(Wire(c))) /\ i <= n
  <2>1. /\ all \in Seq(Seq(Wire(c))) /\ Len(all) = Len(q) /\ Len(q) \in Nat
        /\ \A j \in 1 .. Len(q) : all[j] = MuxPart(c, us, j)
    BY MuxFacts
  <2>2. n \in 0 .. Len(all) /\ i \in Nat /\ i <= n
    BY <2>1
  <2> HIDE DEF all, q
  <2>3. ps \in Seq(Seq(Wire(c))) /\ Len(ps) = n /\ \A j \in 1 .. n : ps[j] = all[j]
    BY <2>1, <2>2
  <2> QED BY <2>1, <2>2, <2>3
<1>2. /\ \A t \in DOMAIN c : N(t) \in Seq(AnyUnit) /\ Len(N(t)) = Len(us[t]) /\ Len(us[t]) \in Nat
      /\ \A t \in DOMAIN c : \A j \in 0 .. n : M(t, j) \in 0 .. Len(us[t]) /\ M(t, j) \in Nat
      /\ \A e \in Demuxers(c) : \A t \in DOMAIN c : Final(e, t) \in Seq(AnyUnit)
  <2>1. \A t \in DOMAIN c : N(t) \in Seq(AnyUnit) /\ Len(N(t)) = Len(us[t]) /\ Len(us[t]) \in Nat
    BY NormalUnitsFacts
  <2>2. \A t \in DOMAIN c : \A j \in 0 .. Len(q) : M(t, j) \in 0 .. Len(us[t])
    BY PlaceOfUnit
  <2>3. \A t \in DOMAIN c : \A j \in 0 .. n : M(t, j) \in 0 .. Len(us[t])
    <3> HIDE DEF M
    <3> QED BY <1>1, <2>2
  <2>4. \A t \in DOMAIN c : \A j \in 0 .. n : M(t, j) \in Nat
    BY <2>1, <2>3
  <2> QED BY <2>1, <2>3, <2>4, FinalTyped
<1>3. <<i, d>> \in G
  <2>1. ASSUME NEW t \in DOMAIN c
        PROVE  /\ M(t, i) <= M(t, i)
               /\ Final(d, t) = Final(d, t) \o SubSeq(N(t), M(t, i) + 1, M(t, i))
    <3> DEFINE m == M(t, i)
               x == N(t)
    <3>1. x \in Seq(AnyUnit) /\ m \in Nat /\ Final(d, t) \in Seq(AnyUnit)
      BY <1>1, <1>2
    <3> HIDE DEF m, x
    <3>2. SubSeq(x, m + 1, m) = <<>>
      BY <3>1, SliceEmpty
    <3>3. Final(d, t) \o <<>> = Final(d, t)
      BY <3>1
    <3> QED BY <3>1, <3>2, <3>3 DEF m, x
  <2> HIDE DEF M, N
  <2>2. After(i) /\ Got(d, i)
    BY <2>1
  <2> HIDE DEF After, Got
  <2> QED BY <1>1, <2>2
<1>4. ASSUME NEW j \in i .. Len(ps) - 1, NEW e \in Demuxers(c), <<j, e>> \in G
      PROVE  <<j + 1, Run(e, ps[j + 1])>> \in G
  <2> DEFINE f == Run(e, ps[j + 1])
             u == UnitAt(us, j + 1)
             t == q[j + 1][1]
  <2>1. j \in Nat /\ j + 1 <= n /\ j + 1 \in 1 .. n /\ j \in 0 .. n /\ ps[j + 1] = MuxPart(c, us, j + 1)
    BY <1>1
  <2>2. e.pmt \/ TablesBefore(c, q, j + 1)
    <3>1. e.pmt \/ <<j, e>> = <<i, d>>
      BY <1>4
    <3>2. CASE <<j, e>> = <<i, d>>
      <4>1. j = i /\ e = d
        BY <3>2
      <4> QED BY <4>1
    <3> QED BY <3>1, <3>2
  <2>3. /\ f \in Demuxers(c) /\ f.pmt /\ t \in DOMAIN c
        /\ Final(f, t) = Append(Final(e, t), Normal(u))
        /\ \A s \in DOMAIN c : s # t => Final(f, s) = Final(e, s)
    BY <2>1, <2>2, PartStep
  <2>4. /\ M(t, j) \in Nat /\ M(t, j) + 1 \in 1 .. Len(us[t])
        /\ Normal(u) = N(t)[M(t, j) + 1] /\ M(t, j + 1) = M(t, j) + 1
        /\ \A s \in DOMAIN c : s # t => M(s, j + 1) = M(s, j)
    BY <2>1, NextUnit
  <2>5. After(j) /\ Got(e, j)
    BY <1>4
  <2> HIDE DEF f, u, t, M, N, G
  <2>6. After(j + 1)
    <3> SUFFICES ASSUME NEW s \in DOMAIN c PROVE M(s, i) <= M(s, j + 1)
      OBVIOUS
    <3>1. M(s, i) <= M(s, j) /\ M(s, i) \in Nat /\ M(s, j) \in Nat
      BY <1>1, <1>2, <2>1, <2>5
    <3> QED BY <2>4, <3>1
  <2>7. Got(f, j + 1)
    <3> SUFFICES ASSUME NEW s \in DOMAIN c
                 PROVE  Final(f, s) = Final(d, s) \o SubSeq(N(s), M(s, i) + 1, M(s, j + 1))
      OBVIOUS
    <3>1. Final(e, s) = Final(d, s) \o SubSeq(N(s), M(s, i) + 1, M(s, j))
      BY <2>5
    <3>2. CASE s # t
      BY <2>3, <2>4, <3>1, <3>2
    <3>3. CASE s = t
      <4> DEFINE a == M(s, i)
                 m == M(s, j)
                 x == N(s)
                 w == Final(d, s)
                 y == SubSeq(x, a + 1, m)
      <4>1. /\ x \in Seq(AnyUnit) /\ a \in Nat /\ m \in Nat /\ a <= m /\ m < Len(x) /\ w \in Seq(AnyUnit)
            /\ M(s, j + 1) = m + 1 /\ Normal(u) = x[m + 1]
        <5>1. x \in Seq(AnyUnit) /\ Len(x) = Len(us[s]) /\ a \in Nat /\ m \in Nat /\ Len(us[s]) \in Nat
          BY <1>1, <1>2, <2>1
        <5>2. a <= m /\ w \in Seq(AnyUnit)
          BY <1>2, <2>5
        <5>3. m + 1 \in 1 .. Len(us[s]) /\ M(s, j + 1) = m + 1 /\ Normal(u) = x[m + 1]
          BY <2>4, <3>3
        <5> QED BY <5>1, <5>2, <5>3
      <4>2. Final(f, s) = Append(w \o y, x[m + 1])
        BY <2>3, <3>1, <3>3, <4>1
      <4> HIDE DEF a, m, x, w
      <4>3. SubSeq(x, a + 1, m + 1) = Append(y, x[m + 1]) /\ y \in Seq(AnyUnit) /\ x[m + 1] \in AnyUnit
        BY <4>1, SliceMore
      <4> HIDE DEF y
      <4>4. Append(w \o y, x[m + 1]) = w \o Append(y, x[m + 1])
        <5> DEFINE z == x[m + 1]
        <5>1. w \in Seq(AnyUnit) /\ y \in Seq(AnyUnit) /\ z \in AnyUnit
          BY <4>1, <4>3
        <5> HIDE DEF z
        <5>2. Append(w \o y, z) = w \o Append(y, z)
          BY ONLY <5>1, JoinMore, Zenon
        <5> QED BY <5>2 DEF z
      <4>5. Final(f, s) = w \o SubSeq(x, a + 1, m + 1)
        BY <4>2, <4>3, <4>4
      <4> QED BY <4>1, <4>5 DEF a, w, x
    <3> QED BY <3>2, <3>3
  <2> HIDE DEF After, Got
  <2> QED BY <2>1, <2>3, <2>6, <2>7 DEF f, G
<1> DEFINE rest == FlattenSeq(SubSeq(ps, i + 1, Len(ps)))
<1>5. <<Len(ps), Run(d, rest)>> \in G /\ rest \in Seq(Wire(c))
  <2> HIDE DEF G, ps
  <2> QED BY <1>1, <1>3, <1>4, RunParts
<1> DEFINE e == Run(d, rest)
<1>6. rest = FlattenSeq(SubSeq(all, i + 1, n))
  <2> DEFINE b == i + 1
  <2>1. b \in Nat \ {0} /\ n \in 0 .. Len(all)
    BY <1>1
  <2> HIDE DEF all, b
  <2>2. SubSeq(SubSeq(all, 1, n), b, n) = SubSeq(all, b, n)
    BY <1>1, <2>1
  <2> QED BY <1>1, <2>2 DEF b
<1> HIDE DEF rest, e
<1>7. e \in Demuxers(c) /\ Got(e, n) /\ (e.pmt \/ (n = i /\ e = d))
  <2>1. <<n, e>> \in G
    BY <1>1, <1>5 DEF e
  <2>2. e.pmt \/ <<n, e>> = <<i, d>>
    BY <2>1
  <2>3. <<n, e>> = <<i, d>> => n = i /\ e = d
    OBVIOUS
  <2> QED BY <2>1, <2>2, <2>3
<1> HIDE DEF M, N, G, all
<1> QED BY <1>5, <1>6, <1>7 DEF e, M, N, all

(* From where it hears, a demultiplexer has all that follows.                *)
LEMMA HearsTheRest ==
  ASSUME NEW c \in Carriers, NEW us \in Programs(c), Rises(us), NEW d \in Demuxers(c),
         NEW i \in 0 .. Len(Order(us)),
         d.pmt \/ (i < Len(Order(us)) /\ TablesBefore(c, Order(us), i + 1))
  PROVE  LET q == Order(us)
             rest == FlattenSeq(SubSeq(MuxParts(c, us), i + 1, Len(q)))
             e == Run(d, rest)
         IN  /\ rest \in Seq(Wire(c)) /\ e \in Demuxers(c) /\ e.pmt
             /\ \A t \in DOMAIN c : Final(e, t) = Final(d, t)
                    \o SubSeq(NormalUnits(us)[t], Places(q, t, i) + 1, Len(us[t]))
<1> DEFINE q == Order(us)
           n == Len(q)
           rest == FlattenSeq(SubSeq(MuxParts(c, us), i + 1, n))
           e == Run(d, rest)
<1>1. n \in i .. n /\ (d.pmt \/ TablesBefore(c, q, i + 1)) /\ (~ d.pmt => i # n)
  BY OrderFacts
<1>2. /\ rest \in Seq(Wire(c)) /\ e \in Demuxers(c) /\ (e.pmt \/ (i = n /\ e = d))
      /\ \A t \in DOMAIN c : Final(e, t) = Final(d, t)
             \o SubSeq(NormalUnits(us)[t], Places(q, t, i) + 1, Places(q, t, n))
  BY <1>1, HearsUpto
<1>3. \A t \in DOMAIN c : Places(q, t, n) = Len(us[t])
  BY PlaceOfUnit
<1> HIDE DEF q, n, rest
<1>4. e.pmt
  <2> HIDE DEF e
  <2> QED BY <1>1, <1>2
<1>5. \A t \in DOMAIN c : Final(e, t) = Final(d, t) \o SubSeq(NormalUnits(us)[t], Places(q, t, i) + 1, Len(us[t]))
  <2> HIDE DEF e
  <2> QED BY <1>2, <1>3
<1> QED BY <1>2, <1>4, <1>5 DEF q, n, rest, e

(* The track whose units the tables precede is one.                           *)
LEMMA ClockIsOne ==
  ASSUME NEW c \in Carriers, NEW v \in ClockTrack(c)
  PROVE  /\ ClockTrack(c) = {v}
         /\ \A q, i : Cardinality({k \in 1 .. i : q[k][1] \in ClockTrack(c)}) = Places(q, v, i)
<1>1. ASSUME NEW t \in First(c, FALSE), NEW s \in First(c, FALSE)
      PROVE  t = s
  <2>1. /\ t \in Nat /\ s \in Nat /\ 1 <= t /\ 1 <= s
    BY CarrierTyped DEF First
  <2>2. ~ (s < t) /\ ~ (t < s)
    <3>1. /\ IsAudio(c, t) = FALSE /\ \A k \in 1 .. t - 1 : IsAudio(c, k) # FALSE
          /\ IsAudio(c, s) = FALSE /\ \A k \in 1 .. s - 1 : IsAudio(c, k) # FALSE
      BY DEF First
    <3>2. s < t => s \in 1 .. t - 1
      BY <2>1
    <3>3. t < s => t \in 1 .. s - 1
      BY <2>1
    <3> QED BY <3>1, <3>2, <3>3
  <2> QED BY <2>1, <2>2
<1>2. ClockTrack(c) = {v}
  BY <1>1 DEF ClockTrack
<1>3. ASSUME NEW q, NEW i
      PROVE  Cardinality({k \in 1 .. i : q[k][1] \in ClockTrack(c)}) = Places(q, v, i)
  <2>1. {k \in 1 .. i : q[k][1] \in ClockTrack(c)} = {k \in 1 .. i : q[k][1] = v}
    BY <1>2
  <2> QED BY <2>1 DEF Places
<1> QED BY <1>2, <1>3

(* The tables come again after PsiPeriod units.                              *)
LEMMA PeriodFacts ==
  /\ PsiPeriod \in Nat \ {0} /\ 0 % PsiPeriod = 0
  /\ \A m \in Nat : m <= PsiPeriod /\ m % PsiPeriod # 0 => m + 1 <= PsiPeriod
<1>1. PsiPeriod \in Nat \ {0}
  BY TransportAssumption
<1>2. PsiPeriod % PsiPeriod = 0 /\ 0 % PsiPeriod = 0
  BY <1>1
<1> QED BY <1>1, <1>2

(* Before tables nothing is received, and what follows them is.               *)
LEMMA DeafThenHears ==
  ASSUME NEW c \in Carriers, NEW us \in Programs(c), Rises(us), NEW d \in Demuxers(c), ~ d.pmt,
         \A t \in DOMAIN c : Final(d, t) = <<>>, NEW i \in 0 .. Len(Order(us))
  PROVE  LET q == Order(us)
             e == Run(d, FlattenSeq(SubSeq(MuxParts(c, us), i + 1, Len(q))))
         IN  \A t \in DOMAIN c : \E off \in Places(q, t, i) .. Len(us[t]) :
                /\ Final(e, t) = SubSeq(NormalUnits(us)[t], off + 1, Len(us[t]))
                /\ t \in ClockTrack(c) /\ Places(q, t, i) <= PsiPeriod => off <= PsiPeriod
<1> DEFINE q == Order(us)
           n == Len(q)
           ps == MuxParts(c, us)
           N(t) == NormalUnits(us)[t]
           M(t, j) == Places(q, t, j)
           Clock(t) == t \in ClockTrack(c) /\ M(t, i) <= PsiPeriod
           Deaf(j) == \A t \in DOMAIN c : M(t, i) <= M(t, j) /\ (Clock(t) => M(t, j) <= PsiPeriod)
           From(e, j, t, off) == /\ off <= M(t, j) /\ M(t, i) <= off
                                 /\ Final(e, t) = SubSeq(N(t), off + 1, M(t, j))
                                 /\ Clock(t) => off <= PsiPeriod
           Hears(e, j) == \A t \in DOMAIN c : \E off \in Nat : From(e, j, t, off)
           G == {z \in Nat \X Demuxers(c) :
                    (z[2] = d /\ Deaf(z[1])) \/ (z[2].pmt /\ Hears(z[2], z[1]))}
<1>1. /\ ps \in Seq(Seq(Wire(c))) /\ Len(ps) = n /\ n \in Nat /\ i \in Nat /\ i \in 0 .. Len(ps)
      /\ \A j \in 1 .. n : ps[j] = MuxPart(c, us, j)
  BY MuxFacts
<1>2. /\ \A t \in DOMAIN c : N(t) \in Seq(AnyUnit) /\ Len(N(t)) = Len(us[t]) /\ Len(us[t]) \in Nat
      /\ \A t \in DOMAIN c : \A j \in 0 .. n : M(t, j) \in 0 .. Len(us[t]) /\ M(t, j) \in Nat
      /\ \A t \in DOMAIN c : M(t, n) = Len(us[t])
  <2>1. \A t \in DOMAIN c : N(t) \in Seq(AnyUnit) /\ Len(N(t)) = Len(us[t]) /\ Len(us[t]) \in Nat
    BY NormalUnitsFacts
  <2>2. \A t \in DOMAIN c : \A j \in 0 .. n : M(t, j) \in 0 .. Len(us[t])
    BY PlaceOfUnit
  <2>3. \A t \in DOMAIN c : \A j \in 0 .. n : M(t, j) \in Nat
    BY <2>1, <2>2
  <2>4. \A t \in DOMAIN c : M(t, n) = Len(us[t])
    BY PlaceOfUnit
  <2> QED BY <2>1, <2>2, <2>3, <2>4
<1>3. <<i, d>> \in G
  <2>1. \A t \in DOMAIN c : M(t, i) \in Nat
    BY <1>1, <1>2
  <2> HIDE DEF M
  <2>2. Deaf(i)
    BY <2>1
  <2> HIDE DEF Deaf
  <2> QED BY <1>1, <2>2
<1>4. ASSUME NEW j \in i .. Len(ps) - 1, NEW e \in Demuxers(c), <<j, e>> \in G
      PROVE  <<j + 1, Run(e, ps[j + 1])>> \in G
  <2> DEFINE f == Run(e, ps[j + 1])
             u == UnitAt(us, j + 1)
             t == q[j + 1][1]
             heard == e.pmt \/ TablesBefore(c, q, j + 1)
  <2>1. j \in Nat /\ j + 1 <= n /\ j + 1 \in 1 .. n /\ j \in 0 .. n /\ ps[j + 1] = MuxPart(c, us, j + 1)
    BY <1>1
  <2>2. /\ f \in Demuxers(c) /\ t \in DOMAIN c
        /\ heard => /\ f.pmt /\ Final(f, t) = Append(Final(e, t), Normal(u))
                    /\ \A s \in DOMAIN c : s # t => Final(f, s) = Final(e, s)
        /\ ~ heard => f = e
    BY <2>1, PartStep
  <2>3. /\ M(t, j) \in Nat /\ M(t, j) + 1 \in 1 .. Len(us[t])
        /\ Normal(u) = N(t)[M(t, j) + 1] /\ M(t, j + 1) = M(t, j) + 1
        /\ \A s \in DOMAIN c : s # t => M(s, j + 1) = M(s, j)
    BY <2>1, NextUnit
  <2>4. \A s \in DOMAIN c : /\ M(s, i) \in Nat /\ M(s, j) \in Nat /\ M(s, j) <= Len(N(s))
                            /\ N(s) \in Seq(AnyUnit)
    BY <1>1, <1>2, <2>1
  <2>5. (e = d /\ Deaf(j)) \/ (e.pmt /\ Hears(e, j))
    BY <1>4
  <2>6. CASE e = d /\ Deaf(j) /\ ~ heard
    <3>1. t \in ClockTrack(c) => M(t, j) % PsiPeriod # 0
      <4> SUFFICES ASSUME t \in ClockTrack(c) PROVE M(t, j) % PsiPeriod # 0
        OBVIOUS
      <4>1. Cardinality({k \in 1 .. j : q[k][1] \in ClockTrack(c)}) = M(t, j)
        BY ClockIsOne
      <4>2. (j + 1) - 1 = j
        BY <2>1
      <4>3. ~ TablesBefore(c, q, j + 1)
        BY <2>6
      <4> HIDE DEF M, q
      <4> QED BY <4>1, <4>2, <4>3 DEF TablesBefore, t
    <3> HIDE DEF f, M, heard, t
    <3>2. \A s \in DOMAIN c : M(s, i) <= M(s, j + 1) /\ (Clock(s) => M(s, j + 1) <= PsiPeriod)
      <4> TAKE s \in DOMAIN c
      <4>1. CASE s # t
        BY <2>3, <2>6, <4>1
      <4>2. CASE s = t
        <5>1. M(t, i) <= M(t, j) /\ (Clock(t) => M(t, j) <= PsiPeriod) /\ M(t, i) \in Nat /\ M(t, j) \in Nat
          BY <2>2, <2>4, <2>6
        <5> QED BY <2>3, <3>1, <4>2, <5>1, PeriodFacts
      <4> QED BY <4>1, <4>2
    <3>3. f = d
      BY <2>2, <2>6
    <3> HIDE DEF Clock
    <3>4. Deaf(j + 1)
      BY <3>2
    <3> HIDE DEF Deaf
    <3> QED BY <2>1, <2>2, <3>3, <3>4 DEF f
  <2>7. CASE e = d /\ Deaf(j) /\ heard
    <3> DEFINE m == M(t, j)
               x == N(t)
    <3>1. m \in Nat /\ m + 1 \in 1 .. Len(x) /\ x \in Seq(AnyUnit) /\ Normal(u) = x[m + 1] /\ M(t, j + 1) = m + 1
      BY <1>2, <2>2, <2>3
    <3>2. Final(f, t) = Append(<<>>, Normal(u)) /\ f.pmt
      BY <2>2, <2>7
    <3>3. \A s \in DOMAIN c : s # t => Final(f, s) = <<>> /\ M(s, j + 1) = M(s, j)
      BY <2>2, <2>3, <2>7
    <3>4. \A s \in DOMAIN c : M(s, i) <= M(s, j) /\ (Clock(s) => M(s, j) <= PsiPeriod)
      BY <2>7
    <3> HIDE DEF f, M, heard, t, N, Clock
    <3>5. \A s \in DOMAIN c : From(f, j + 1, s, M(s, j))
      <4> TAKE s \in DOMAIN c
      <4>1. CASE s # t
        <5>1. SubSeq(N(s), M(s, j) + 1, M(s, j)) = <<>>
          BY <2>4, SliceEmpty
        <5>2. M(s, j) <= M(s, j + 1) /\ M(s, i) <= M(s, j)
          BY <2>4, <3>3, <3>4, <4>1
        <5>3. Final(f, s) = SubSeq(N(s), M(s, j) + 1, M(s, j + 1))
          BY <3>3, <4>1, <5>1
        <5> HIDE DEF M, N
        <5> QED BY <3>4, <5>2, <5>3
      <4>2. CASE s = t
        <5> HIDE DEF m, x
        <5>1. SubSeq(x, m + 1, m + 1) = Append(<<>>, x[m + 1])
          BY <3>1, FirstOne
        <5>2. Final(f, t) = SubSeq(x, m + 1, M(t, j + 1))
          BY <3>1, <3>2, <5>1
        <5>3. M(t, j) <= M(t, j + 1) /\ M(t, i) <= M(t, j)
          BY <2>2, <3>1, <3>4 DEF m
        <5>4. Final(f, t) = SubSeq(N(t), M(t, j) + 1, M(t, j + 1))
          BY <5>2 DEF m, x
        <5> HIDE DEF M, N
        <5> QED BY <3>4, <4>2, <5>3, <5>4
      <4> QED BY <4>1, <4>2
    <3> HIDE DEF From
    <3>6. Hears(f, j + 1)
      BY <2>4, <3>5
    <3> HIDE DEF Hears
    <3> QED BY <2>1, <2>2, <3>2, <3>6 DEF f
  <2>8. CASE e.pmt /\ Hears(e, j)
    <3>1. Final(f, t) = Append(Final(e, t), Normal(u)) /\ f.pmt
      BY <2>2, <2>8
    <3>2. \A s \in DOMAIN c : s # t => Final(f, s) = Final(e, s) /\ M(s, j + 1) = M(s, j)
      BY <2>2, <2>3, <2>8
    <3> HIDE DEF f, M, heard, t, N, Clock
    <3>3. \A s \in DOMAIN c : \E off \in Nat : From(f, j + 1, s, off)
      <4> TAKE s \in DOMAIN c
      <4>1. PICK off \in Nat : From(e, j, s, off)
        BY <2>8
      <4>2. CASE s # t
        BY <3>2, <4>1, <4>2
      <4>3. CASE s = t
        <5> DEFINE m == M(t, j)
                   x == N(t)
        <5>1. /\ m \in Nat /\ m + 1 \in 1 .. Len(x) /\ x \in Seq(AnyUnit) /\ Normal(u) = x[m + 1]
              /\ M(t, j + 1) = m + 1 /\ off <= m /\ m < Len(x)
          <6>1. Len(x) = Len(us[t]) /\ x \in Seq(AnyUnit) /\ Len(us[t]) \in Nat
            BY <1>2, <2>2
          <6> QED BY <2>3, <4>1, <4>3, <6>1
        <5>2. Final(f, t) = Append(SubSeq(x, off + 1, m), x[m + 1])
          BY <3>1, <4>1, <4>3, <5>1
        <5> HIDE DEF m, x
        <5>3. SubSeq(x, off + 1, m + 1) = Append(SubSeq(x, off + 1, m), x[m + 1])
          BY <5>1, SliceMore
        <5>4. Final(f, t) = SubSeq(x, off + 1, M(t, j + 1)) /\ off <= M(t, j + 1)
          BY <5>1, <5>2, <5>3
        <5> QED BY <4>1, <4>3, <5>4 DEF x
      <4> QED BY <4>2, <4>3
    <3> HIDE DEF From
    <3>4. Hears(f, j + 1)
      BY <3>3
    <3> HIDE DEF Hears
    <3> QED BY <2>1, <2>2, <3>1, <3>4 DEF f
  <2> HIDE DEF Deaf, Hears, heard
  <2> QED BY <2>5, <2>6, <2>7, <2>8
<1> DEFINE rest == FlattenSeq(SubSeq(ps, i + 1, Len(ps)))
<1>5. <<Len(ps), Run(d, rest)>> \in G
  <2> HIDE DEF G, ps
  <2> QED BY <1>1, <1>3, <1>4, RunParts
<1> DEFINE e == Run(d, rest)
<1> HIDE DEF rest, e
<1>6. (e = d /\ Deaf(n)) \/ Hears(e, n)
  <2> HIDE DEF Deaf, Hears
  <2>1. <<n, e>> \in G
    BY <1>1, <1>5 DEF e
  <2> QED BY <2>1
<1>7. \A t \in DOMAIN c : \E off \in M(t, i) .. Len(us[t]) :
          Final(e, t) = SubSeq(N(t), off + 1, Len(us[t])) /\ (Clock(t) => off <= PsiPeriod)
  <2> TAKE t \in DOMAIN c
  <2>1. M(t, n) = Len(us[t]) /\ Len(us[t]) \in Nat /\ N(t) \in Seq(AnyUnit) /\ M(t, i) \in Nat
        /\ M(t, i) <= Len(us[t])
    BY <1>1, <1>2
  <2> HIDE DEF M, N, Clock
  <2>2. CASE e = d /\ Deaf(n)
    <3>1. SubSeq(N(t), Len(us[t]) + 1, Len(us[t])) = <<>>
      BY <2>1, SliceEmpty
    <3>2. Clock(t) => Len(us[t]) <= PsiPeriod
      BY <2>1, <2>2
    <3>3. Len(us[t]) \in M(t, i) .. Len(us[t])
      BY <2>1
    <3> QED BY <2>2, <3>1, <3>2, <3>3
  <2>3. CASE Hears(e, n)
    <3>1. PICK off \in Nat : From(e, n, t, off)
      BY <2>3
    <3>2. off \in M(t, i) .. Len(us[t])
      BY <2>1, <3>1
    <3> QED BY <2>1, <3>1, <3>2
  <2> HIDE DEF Deaf, Hears
  <2> QED BY <1>6, <2>2, <2>3
<1>8. e = Run(d, FlattenSeq(SubSeq(ps, i + 1, n)))
  <2> HIDE DEF ps, n
  <2> QED BY <1>1 DEF e, rest
<1> HIDE DEF e
<1> QED BY <1>7, <1>8

\* The units heard of a stream; a stream in order that begins with the clock
\* track.
Received(c, F) == Finish(Run(Demuxer(c), F))
Ordered(c, us) == Rises(us) /\ (Order(us) = <<>> \/ Order(us)[1][1] \in ClockTrack(c))

(* A demultiplexer that has read nothing.                                    *)
LEMMA DemuxerFacts ==
  ASSUME NEW c \in Carriers
  PROVE  /\ Demuxer(c) \in Demuxers(c) /\ ~ Demuxer(c).pmt /\ Demuxer(c).units \in Programs(c)
         /\ \A t \in DOMAIN c : Final(Demuxer(c), t) = <<>>
<1>1. Demuxer(c) = [pat |-> FALSE, pmt |-> FALSE, buffers |-> [t \in DOMAIN c |-> NoBuffer],
                    units |-> [t \in DOMAIN c |-> <<>>]]
  BY DEF Demuxer
<1>2. [t \in DOMAIN c |-> NoBuffer] \in [DOMAIN c -> Buffers]
  BY DEF Buffers
<1>3. [t \in DOMAIN c |-> <<>>] \in Programs(c)
  BY DEF Programs
<1>4. Demuxer(c) \in Demuxers(c)
  <2> HIDE DEF NoBuffer
  <2> QED BY <1>1, <1>2, <1>3 DEF Demuxers
<1>5. \A t \in DOMAIN c : Final(Demuxer(c), t) = <<>>
  BY <1>1 DEF Final, NoBuffer
<1>6. ~ Demuxer(c).pmt /\ Demuxer(c).units = [t \in DOMAIN c |-> <<>>]
  BY <1>1
<1> QED BY <1>3, <1>4, <1>5, <1>6

(* What is received is units of the tracks.                                  *)
LEMMA ReceivedIs ==
  ASSUME NEW c \in Carriers, NEW F \in Seq(Wire(c))
  PROVE  /\ Received(c, F) \in Programs(c) /\ Run(Demuxer(c), F) \in Demuxers(c)
         /\ DOMAIN Received(c, F) = DOMAIN c
         /\ \A t \in DOMAIN c : Received(c, F)[t] = Final(Run(Demuxer(c), F), t)
<1>1. Run(Demuxer(c), F) \in Demuxers(c)
  BY DemuxerFacts, RunTyped
<1>2. Received(c, F) = [t \in DOMAIN c |-> Final(Run(Demuxer(c), F), t)] /\ Received(c, F) \in Programs(c)
  BY <1>1, FinishIs DEF Received
<1> QED BY <1>1, <1>2

(* Where the times of every track rise and the clock track has the earliest  *)
(* unit, what mux wrote gives back its units: demux has each of them, with   *)
(* a decode time that equals the presentation time left out (mux, demux).    *)
(* The proof begins with the first part, which comes with the tables.        *)
THEOREM ReceivedInOrder ==
  ASSUME NEW c \in Carriers, NEW us \in Programs(c), Ordered(c, us)
  PROVE  /\ Received(c, Mux(c, us)) = NormalUnits(us)
         /\ Order(us) # <<>> => Run(Demuxer(c), Mux(c, us)).pmt
<1> DEFINE q == Order(us)
           d == Demuxer(c)
           ps == MuxParts(c, us)
           F == Mux(c, us)
           ns == NormalUnits(us)
<1>1. /\ ps \in Seq(Seq(Wire(c))) /\ Len(ps) = Len(q) /\ Len(q) \in Nat /\ F = FlattenSeq(ps)
      /\ F \in Seq(Wire(c)) /\ Rises(us) /\ q \in Seq(Numbered(us))
  BY MuxFacts, OrderFacts DEF Ordered
<1>2. d \in Demuxers(c) /\ \A t \in DOMAIN c : Final(d, t) = <<>>
  BY DemuxerFacts
<1>3. /\ ns \in Programs(c) /\ DOMAIN ns = DOMAIN c
      /\ \A t \in DOMAIN c : ns[t] \in Seq(AnyUnit) /\ Len(ns[t]) = Len(us[t]) /\ Len(us[t]) \in Nat
  BY NormalUnitsFacts DEF Programs
<1>4. SubSeq(ps, 0 + 1, Len(q)) = ps /\ 0 \in 0 .. Len(q)
  BY <1>1, WholeSlice
<1>5. \A t : Places(q, t, 0) = 0
  BY PlacesStep
<1>6. ASSUME \A t \in DOMAIN c : Final(Run(d, F), t) = ns[t]
      PROVE  Received(c, F) = ns
  <2>1. Received(c, F) = [t \in DOMAIN c |-> Received(c, F)[t]] /\ ns = [t \in DOMAIN c |-> ns[t]]
    <3>1. Received(c, F) \in Programs(c)
      BY <1>1, ReceivedIs
    <3> HIDE DEF F, ns
    <3> QED BY <1>3, <3>1 DEF Programs
  <2>2. \A t \in DOMAIN c : Received(c, F)[t] = ns[t]
    BY <1>1, <1>6, ReceivedIs
  <2> HIDE DEF F, ns
  <2> QED BY <2>1, <2>2
<1>7. CASE q = <<>>
  <2>1. F = <<>> /\ Len(q) = 0
    <3>1. Len(q) = 0 /\ Len(ps) = 0
      BY <1>1, <1>7
    <3>2. ps = <<>>
      BY <1>1, <3>1
    <3> QED BY <1>1, <3>1, <3>2, FlattenEmpty
  <2>2. Run(d, F) = d
    BY <1>2, <2>1, RunEmpty
  <2>3. \A t \in DOMAIN c : ns[t] = <<>>
    <3>1. \A t \in DOMAIN c : Places(q, t, Len(q)) = Len(us[t])
      BY <1>1, PlaceOfUnit
    <3>2. \A t \in DOMAIN c : Len(ns[t]) = 0 /\ ns[t] \in Seq(AnyUnit)
      BY <1>3, <1>5, <2>1, <3>1
    <3> HIDE DEF ns
    <3> QED BY <3>2
  <2> QED BY <1>2, <1>6, <1>7, <2>2, <2>3
<1>8. CASE q # <<>>
  <2>1. Len(q) > 0 /\ 0 < Len(q)
    BY <1>1, <1>8
  <2>2. TablesBefore(c, q, 0 + 1)
    <3>1. q[1][1] \in ClockTrack(c)
      BY <1>8 DEF Ordered
    <3>2. Cardinality({k \in 1 .. 0 : q[k][1] \in ClockTrack(c)}) = 0
      <4>1. \A i : Cardinality({k \in 1 .. i : q[k][1] \in ClockTrack(c)}) = Places(q, q[1][1], i)
        <5> HIDE DEF q
        <5> QED BY <3>1, ClockIsOne
      <4> HIDE DEF q
      <4> QED BY <1>5, <4>1
    <3>3. 0 + 1 = 1 /\ (0 + 1) - 1 = 0
      OBVIOUS
    <3> HIDE DEF q
    <3> QED BY <3>1, <3>2, <3>3, PeriodFacts DEF TablesBefore
  <2>3. LET e == Run(d, FlattenSeq(SubSeq(ps, 0 + 1, Len(q))))
        IN  e.pmt /\ \A t \in DOMAIN c : Final(e, t) = Final(d, t) \o SubSeq(ns[t], Places(q, t, 0) + 1, Len(us[t]))
    BY <1>1, <1>2, <1>4, <2>1, <2>2, HearsTheRest
  <2>4. Run(d, F).pmt
    BY <1>1, <1>4, <2>3
  <2>5. \A t \in DOMAIN c : Final(Run(d, F), t) = ns[t]
    <3> TAKE t \in DOMAIN c
    <3>1. Final(Run(d, F), t) = <<>> \o SubSeq(ns[t], 1, Len(ns[t]))
      <4>1. Run(d, FlattenSeq(SubSeq(ps, 0 + 1, Len(q)))) = Run(d, F)
        BY <1>1, <1>4
      <4>2. Final(Run(d, F), t) = Final(d, t) \o SubSeq(ns[t], Places(q, t, 0) + 1, Len(us[t]))
        BY <2>3, <4>1
      <4>3. Places(q, t, 0) + 1 = 1 /\ Final(d, t) = <<>> /\ Len(us[t]) = Len(ns[t])
        BY <1>2, <1>3, <1>5
      <4> HIDE DEF q, d, F, ns
      <4> QED BY <4>2, <4>3
    <3> DEFINE x == ns[t]
    <3>2. x \in Seq(AnyUnit)
      BY <1>3
    <3> HIDE DEF x
    <3>3. <<>> \o SubSeq(x, 1, Len(x)) = x
      BY <3>2, WholeSlice
    <3> QED BY <3>1, <3>3 DEF x
  <2> QED BY <1>6, <2>4, <2>5
<1> QED BY <1>7, <1>8

(* Otherwise the units before the clock track's first are lost.               *)
LEMMA ReceivedLate ==
  ASSUME NEW c \in Carriers, NEW us \in Programs(c), Rises(us)
  PROVE  /\ \A t \in DOMAIN c : Len(Received(c, Mux(c, us))[t]) <= Len(us[t])
         /\ ~ Ordered(c, us) => \E t \in DOMAIN c : Len(Received(c, Mux(c, us))[t]) # Len(us[t])
<1> DEFINE q == Order(us)
           d == Demuxer(c)
           ps == MuxParts(c, us)
           F == Mux(c, us)
           ns == NormalUnits(us)
           R == Received(c, F)
<1>1. /\ ps \in Seq(Seq(Wire(c))) /\ Len(ps) = Len(q) /\ Len(q) \in Nat /\ F = FlattenSeq(ps)
      /\ F \in Seq(Wire(c)) /\ q \in Seq(Numbered(us))
  BY MuxFacts, OrderFacts
<1>2. d \in Demuxers(c) /\ ~ d.pmt /\ \A t \in DOMAIN c : Final(d, t) = <<>>
  BY DemuxerFacts
<1>3. \A t \in DOMAIN c : ns[t] \in Seq(AnyUnit) /\ Len(ns[t]) = Len(us[t]) /\ Len(us[t]) \in Nat
  BY NormalUnitsFacts
<1>4. ASSUME NEW t \in DOMAIN c, NEW i \in 0 .. Len(q), NEW off \in Places(q, t, i) .. Len(us[t]),
             R[t] = SubSeq(ns[t], off + 1, Len(us[t]))
      PROVE  Len(R[t]) = Len(us[t]) - off /\ off >= Places(q, t, i) /\ Places(q, t, i) \in Nat
  <2>1. Places(q, t, i) \in Nat
    BY PlacesStep
  <2> DEFINE x == ns[t]
             n == Len(us[t])
             o == off + 1
  <2>2. x \in Seq(AnyUnit) /\ Len(x) = n /\ n \in Nat /\ off \in Nat /\ off <= n /\ off >= Places(q, t, i)
    BY <1>3, <2>1
  <2>3. o \in Nat \ {0} /\ o <= n + 1
    BY <2>2
  <2>4. R[t] = SubSeq(x, o, n)
    BY <1>4
  <2> HIDE DEF R, x, n
  <2>5. Len(R[t]) = n - off
    <3> HIDE DEF o
    <3>1. Len(SubSeq(x, o, n)) = n - o + 1
      BY <2>2, <2>3
    <3> QED BY <2>2, <2>4, <3>1 DEF o
  <2> QED BY <2>1, <2>2, <2>5 DEF n
<1>5. CASE Ordered(c, us)
  <2>1. R = ns
    BY <1>5, ReceivedInOrder
  <2> HIDE DEF R, ns
  <2> QED BY <1>3, <1>5, <2>1 DEF R
<1>6. CASE ~ Ordered(c, us)
  <2>1. q # <<>> /\ q[1][1] \notin ClockTrack(c)
    BY <1>6 DEF Ordered
  <2>2. Len(q) >= 1 /\ 1 \in 1 .. Len(q) /\ 1 \in 0 .. Len(q)
    BY <1>1, <2>1
  <2>3. ~ TablesBefore(c, q, 1)
    BY <2>1 DEF TablesBefore
  <2>4. Run(d, ps[1]) = d
    <3>1. ps[1] = MuxPart(c, us, 1)
      BY <1>1, <2>2, MuxFacts
    <3>2. Run(d, MuxPart(c, us, 1)) = d
      BY <1>2, <2>2, <2>3, PartStep
    <3> QED BY <3>1, <3>2
  <2> DEFINE rest == FlattenSeq(SubSeq(ps, 1 + 1, Len(q)))
  <2>5. Run(d, F) = Run(d, rest)
    <3>1. /\ FlattenSeq(ps) = FlattenSeq(SubSeq(ps, 1, 1)) \o FlattenSeq(SubSeq(ps, 1 + 1, Len(ps)))
          /\ FlattenSeq(SubSeq(ps, 1, 1)) = FlattenSeq(SubSeq(ps, 1, 1 - 1)) \o ps[1]
          /\ FlattenSeq(SubSeq(ps, 1 + 1, Len(ps))) \in Seq(Wire(c)) /\ ps[1] \in Seq(Wire(c))
      BY <1>1, <2>2, FlattenSplit
    <3>2. SubSeq(ps, 1, 1 - 1) = <<>>
      <4>1. SubSeq(ps, 0 + 1, 0) = <<>>
        BY <1>1, SliceEmpty
      <4> QED BY <4>1
    <3>3. FlattenSeq(SubSeq(ps, 1, 1)) = <<>> \o ps[1]
      BY <3>1, <3>2, FlattenEmpty
    <3>4. F = ps[1] \o rest /\ rest \in Seq(Wire(c))
      <4> DEFINE p == ps[1]
      <4>1. p \in Seq(Wire(c))
        BY <3>1
      <4> HIDE DEF q, F, ps, p
      <4>2. <<>> \o p = p
        BY <4>1, WholeSlice
      <4>3. FlattenSeq(SubSeq(ps, 1, 1)) = p
        BY <3>3, <4>2 DEF p
      <4>4. F = p \o rest
        BY <1>1, <3>1, <4>3
      <4>5. rest \in Seq(Wire(c))
        BY <1>1, <3>1
      <4> QED BY <4>4, <4>5 DEF p
    <3> HIDE DEF rest, F, d, ps
    <3> QED BY <1>2, <2>4, <3>1, <3>4, RunJoined
  <2>6. \A t \in DOMAIN c : \E off \in Places(q, t, 1) .. Len(us[t]) :
            Final(Run(d, rest), t) = SubSeq(ns[t], off + 1, Len(us[t]))
    BY <1>2, <2>2, DeafThenHears
  <2>7. \A t \in DOMAIN c : R[t] = Final(Run(d, F), t)
    BY <1>1, ReceivedIs
  <2>8. \A t \in DOMAIN c : Len(R[t]) <= Len(us[t]) - Places(q, t, 1) /\ Places(q, t, 1) \in Nat
                            /\ Len(us[t]) \in Nat
    <3> TAKE t \in DOMAIN c
    <3>1. PICK off \in Places(q, t, 1) .. Len(us[t]) : R[t] = SubSeq(ns[t], off + 1, Len(us[t]))
      BY <2>5, <2>6, <2>7
    <3>2. Len(R[t]) = Len(us[t]) - off /\ off >= Places(q, t, 1) /\ Places(q, t, 1) \in Nat
      BY <1>4, <2>2, <3>1
    <3> HIDE DEF R
    <3> QED BY <1>3, <3>2
  <2>9. q[1][1] \in DOMAIN c /\ Places(q, q[1][1], 1) = 1
    <3>1. q[1][1] \in DOMAIN c
      BY <2>2, OrderFacts
    <3>2. /\ Places(q, q[1][1], 0) = 0
          /\ Places(q, q[1][1], 0 + 1) = IF q[0 + 1][1] = q[1][1] THEN Places(q, q[1][1], 0) + 1
                                         ELSE Places(q, q[1][1], 0)
      BY PlacesStep
    <3> QED BY <3>1, <3>2
  <2> HIDE DEF R
  <2>10. \A t \in DOMAIN c : Len(R[t]) <= Len(us[t])
    BY <2>8
  <2>11. Len(R[q[1][1]]) # Len(us[q[1][1]])
    BY <2>8, <2>9
  <2> QED BY <2>9, <2>10, <2>11 DEF R
<1> QED BY <1>5, <1>6

\* The times of a sequence of units rise.
Risen(s) == \A a, b \in DOMAIN s : a < b => Time(s[a]) <= Time(s[b])

(* Times that rise still do when a later one is added.                       *)
LEMMA RisenMore ==
  ASSUME NEW s \in Seq(AnyUnit), NEW u \in AnyUnit, Risen(s), \A a \in DOMAIN s : Time(s[a]) <= Time(u)
  PROVE  /\ Risen(Append(s, u))
         /\ \A T \in Int : (\A a \in DOMAIN s : Time(s[a]) <= T) /\ Time(u) <= T =>
                \A a \in DOMAIN Append(s, u) : Time(Append(s, u)[a]) <= T
<1> DEFINE w == Append(s, u)
           n == Len(s)
<1>1. /\ n \in Nat /\ DOMAIN s = 1 .. n /\ DOMAIN w = 1 .. n + 1 /\ w[n + 1] = u
      /\ \A a \in 1 .. n : w[a] = s[a]
  OBVIOUS
<1> HIDE DEF w
<1>2. \A a \in 1 .. n + 1 : a \in 1 .. n \/ a = n + 1
  BY <1>1
<1>3. Risen(w)
  <2> SUFFICES ASSUME NEW a \in 1 .. n + 1, NEW b \in 1 .. n + 1, a < b PROVE Time(w[a]) <= Time(w[b])
    BY <1>1 DEF Risen
  <2>1. a \in 1 .. n
    BY <1>1
  <2>2. CASE b \in 1 .. n
    BY <1>1, <2>1, <2>2 DEF Risen
  <2>3. CASE b = n + 1
    BY <1>1, <2>1, <2>3
  <2> HIDE DEF n
  <2> QED BY <1>2, <2>2, <2>3
<1>4. ASSUME NEW T \in Int, \A a \in DOMAIN s : Time(s[a]) <= T, Time(u) <= T
      PROVE  \A a \in DOMAIN w : Time(w[a]) <= T
  <2> SUFFICES ASSUME NEW a \in 1 .. n + 1 PROVE Time(w[a]) <= T
    BY <1>1
  <2>1. CASE a \in 1 .. n
    BY <1>1, <1>4, <2>1
  <2>2. CASE a = n + 1
    BY <1>1, <1>4, <2>2
  <2> HIDE DEF n
  <2> QED BY <1>2, <2>1, <2>2
<1> QED BY <1>3, <1>4 DEF w

(* A stream holds the units in decode order, so each track rises in it.       *)
LEMMA ReceivedRises ==
  ASSUME NEW c \in Carriers, NEW us \in Programs(c)
  PROVE  Rises(Received(c, Mux(c, us)))
<1> DEFINE q == Order(us)
           n == Len(q)
           d == Demuxer(c)
           ps == MuxParts(c, us)
           F == Mux(c, us)
           Bounded(s, j) == \A k \in 1 .. n : j < k => \A a \in DOMAIN s : Time(s[a]) <= Time(UnitAt(us, k))
           Good(e, j) == \A t \in DOMAIN c : Risen(Final(e, t)) /\ Bounded(Final(e, t), j)
           G == {z \in Nat \X Demuxers(c) : Good(z[2], z[1])}
<1>1. /\ ps \in Seq(Seq(Wire(c))) /\ Len(ps) = n /\ n \in Nat /\ F = FlattenSeq(ps)
      /\ F \in Seq(Wire(c)) /\ \A j \in 1 .. n : ps[j] = MuxPart(c, us, j) /\ UnitAt(us, j) \in AnyUnit
  BY MuxFacts
<1>2. d \in Demuxers(c) /\ \A t \in DOMAIN c : Final(d, t) = <<>>
  BY DemuxerFacts
<1>3. <<0, d>> \in G
  <2>1. \A t \in DOMAIN c : Risen(Final(d, t)) /\ Bounded(Final(d, t), 0)
    BY <1>2 DEF Risen
  <2> HIDE DEF d, Bounded
  <2> QED BY <1>2, <2>1
<1>4. \A j, k \in 1 .. n : j < k => Time(UnitAt(us, j)) <= Time(UnitAt(us, k))
  <2> SUFFICES ASSUME NEW j \in 1 .. n, NEW k \in 1 .. n, j < k PROVE Time(UnitAt(us, j)) <= Time(UnitAt(us, k))
    OBVIOUS
  <2>1. Earlier(us, q[j], q[k])
    BY OrderFacts
  <2>2. Time(UnitAt(us, j)) \in Int /\ Time(UnitAt(us, k)) \in Int
    BY <1>1, TimeTyped
  <2> QED BY <2>1, <2>2 DEF Earlier, UnitAt
<1>5. ASSUME NEW j \in 0 .. Len(ps) - 1, NEW e \in Demuxers(c), <<j, e>> \in G
      PROVE  <<j + 1, Run(e, ps[j + 1])>> \in G
  <2> DEFINE f == Run(e, ps[j + 1])
             u == UnitAt(us, j + 1)
             v == Normal(u)
             t == q[j + 1][1]
  <2>1. j \in Nat /\ j + 1 \in 1 .. n /\ ps[j + 1] = MuxPart(c, us, j + 1) /\ u \in AnyUnit
    BY <1>1
  <2>2. /\ f \in Demuxers(c) /\ t \in DOMAIN c
        /\ f = e \/ /\ Final(f, t) = Append(Final(e, t), v)
                    /\ \A s \in DOMAIN c : s # t => Final(f, s) = Final(e, s)
    BY <2>1, PartStep
  <2>3. Time(v) = Time(u) /\ v \in AnyUnit
    BY <2>1, NormalFacts
  <2>4. Good(e, j)
    BY <1>5
  <2>5. \A s \in DOMAIN c : Final(e, s) \in Seq(AnyUnit) /\ Risen(Final(e, s)) /\ Bounded(Final(e, s), j + 1)
    <3> TAKE s \in DOMAIN c
    <3>1. Final(e, s) \in Seq(AnyUnit) /\ Risen(Final(e, s)) /\ Bounded(Final(e, s), j)
      BY <2>4, FinalTyped
    <3>2. \A k \in 1 .. n : j + 1 < k => j < k
      BY <2>1
    <3> HIDE DEF n
    <3> QED BY <3>1, <3>2
  <2>6. Risen(Final(f, t)) /\ Bounded(Final(f, t), j + 1)
    <3>1. CASE f = e
      <4> HIDE DEF Bounded, f, t
      <4> QED BY <2>2, <2>5, <3>1
    <3>2. CASE Final(f, t) = Append(Final(e, t), v)
      <4> DEFINE s == Final(e, t)
      <4>1. s \in Seq(AnyUnit) /\ Risen(s)
        BY <2>2, <2>5
      <4>2. \A a \in DOMAIN s : Time(s[a]) <= Time(v)
        <5>1. Bounded(s, j)
          BY <2>2, <2>4
        <5>2. j < j + 1
          BY <2>1
        <5>3. \A a \in DOMAIN s : Time(s[a]) <= Time(u)
          <6> HIDE DEF s, n
          <6> QED BY <2>1, <5>1, <5>2
        <5> QED BY <2>3, <5>3
      <4> HIDE DEF s, v, u, n
      <4>3. Risen(Append(s, v))
        BY <2>3, <4>1, <4>2, RisenMore
      <4>4. Bounded(Append(s, v), j + 1)
        <5> SUFFICES ASSUME NEW k \in 1 .. n, j + 1 < k
                     PROVE  \A a \in DOMAIN Append(s, v) : Time(Append(s, v)[a]) <= Time(UnitAt(us, k))
          OBVIOUS
        <5>1. Time(UnitAt(us, k)) \in Int
          BY <1>1, TimeTyped
        <5>2. Time(v) <= Time(UnitAt(us, k))
          BY <1>4, <2>1, <2>3 DEF u
        <5>3. \A a \in DOMAIN s : Time(s[a]) <= Time(UnitAt(us, k))
          BY <2>2, <2>5 DEF s
        <5> QED BY <2>3, <4>1, <4>2, <5>1, <5>2, <5>3, RisenMore
      <4> HIDE DEF Bounded, f, t
      <4> QED BY <3>2, <4>3, <4>4 DEF s
    <3> HIDE DEF f, t, Bounded
    <3> QED BY <2>2, <3>1, <3>2
  <2>7. Good(f, j + 1)
    <3> SUFFICES ASSUME NEW s \in DOMAIN c PROVE Risen(Final(f, s)) /\ Bounded(Final(f, s), j + 1)
      OBVIOUS
    <3>1. CASE s = t
      <4> HIDE DEF f, t, Bounded
      <4> QED BY <2>6, <3>1
    <3>2. CASE s # t
      <4>1. Final(f, s) = Final(e, s)
        <5> HIDE DEF f, t
        <5> QED BY <2>2, <3>2
      <4> HIDE DEF f, t, Bounded
      <4> QED BY <2>5, <4>1
    <3> QED BY <3>1, <3>2
  <2> HIDE DEF Good
  <2> QED BY <2>1, <2>2, <2>7 DEF f
<1>6. <<Len(ps), Run(d, FlattenSeq(SubSeq(ps, 0 + 1, Len(ps))))>> \in G
  <2>1. 0 \in 0 .. Len(ps)
    BY <1>1
  <2> HIDE DEF G, ps, d
  <2> QED BY <1>1, <1>2, <1>3, <1>5, <2>1, RunParts
<1>7. <<n, Run(d, F)>> \in G
  <2>1. SubSeq(ps, 0 + 1, Len(ps)) = ps
    <3> HIDE DEF ps
    <3> QED BY <1>1, WholeSlice
  <2> HIDE DEF G
  <2> QED BY <1>1, <1>6, <2>1
<1>8. \A t \in DOMAIN c : Risen(Received(c, F)[t])
  <2>1. Good(Run(d, F), n)
    <3> HIDE DEF Good
    <3> QED BY <1>7
  <2> HIDE DEF Bounded
  <2> QED BY <1>1, <2>1, ReceivedIs
<1>9. DOMAIN Received(c, F) = DOMAIN c
  BY <1>1, ReceivedIs
<1> QED BY <1>8, <1>9 DEF Rises, Risen

-----------------------------------------------------------------------------
(* What a packet lost or repeated does is done to one part of the stream.    *)

(* Tables leave the units as they are.                                        *)
LEMMA RunTables ==
  ASSUME NEW c \in Carriers, NEW d \in Demuxers(c), NEW ps \in Seq(Wire(c)),
         \A k \in 1 .. Len(ps) : ps[k].pid \in Tables
  PROVE  LET e == Run(d, ps)
         IN  /\ e \in Demuxers(c) /\ (d.pmt => e.pmt)
             /\ e.buffers = d.buffers /\ e.units = d.units
             /\ \A t : Final(e, t) = Final(d, t)
<1> DEFINE G == {e \in Demuxers(c) : (d.pmt => e.pmt) /\ e.buffers = d.buffers /\ e.units = d.units}
<1>1. ASSUME NEW e \in Demuxers(c), e \in G, NEW k \in 1 .. Len(ps)
      PROVE  Take(e, ps[k]) \in G
  <2>1. ps[k] \in Wire(c) /\ ps[k].pid \in Tables
    OBVIOUS
  <2> DEFINE f == Take(e, ps[k])
  <2>2. /\ f \in Demuxers(c) /\ f.buffers = e.buffers /\ f.units = e.units
        /\ f.pmt <=> e.pmt \/ (ps[k].pid = Pmt /\ ps[k].start /\ e.pat)
    BY <2>1, TakeFacts
  <2> HIDE DEF f
  <2>3. (d.pmt => e.pmt) /\ e.buffers = d.buffers /\ e.units = d.units
    BY <1>1
  <2>4. f \in G
    BY <2>2, <2>3
  <2> QED BY <2>4 DEF f
<1>2. d \in G
  OBVIOUS
<1>3. \A e \in Demuxers(c) : e \in G => \A k \in 1 .. Len(ps) : Take(e, ps[k]) \in G
  BY <1>1
<1> HIDE DEF G
<1>4. Run(d, ps) \in G
  BY <1>2, <1>3, RunWithin
<1>5. /\ Run(d, ps) \in Demuxers(c) /\ (d.pmt => Run(d, ps).pmt)
      /\ Run(d, ps).buffers = d.buffers /\ Run(d, ps).units = d.units
  BY <1>4 DEF G
<1> QED BY <1>5 DEF Final

(* The packets of a unit are of its track.                                   *)
LEMMA BlockPids ==
  ASSUME NEW c \in Carriers, NEW t \in DOMAIN c, NEW u \in AnyUnit
  PROVE  \A k \in 1 .. Len(Block(c, t, u)) : Block(c, t, u)[k].pid = t
  BY BlockFacts

(* A part of the stream, in three: what is before it, its tables and its     *)
(* block, what is after it.                                                   *)
Prior(c, us, k) == FlattenSeq(SubSeq(MuxParts(c, us), 1, k - 1))
Later(c, us, k) == FlattenSeq(SubSeq(MuxParts(c, us), k + 1, Len(Order(us))))
BlockAt(c, us, k) == Block(c, Order(us)[k][1], UnitAt(us, k))

(* A stream is what comes before the k-th part, that part, and what comes    *)
(* after.                                                                    *)
LEMMA MuxAround ==
  ASSUME NEW c \in Carriers, NEW us \in Programs(c), NEW k \in 1 .. Len(Order(us))
  PROVE  /\ Prior(c, us, k) \in Seq(Wire(c)) /\ Lead(c, us, k) \in Seq(Wire(c))
         /\ BlockAt(c, us, k) \in Seq(Wire(c)) /\ Later(c, us, k) \in Seq(Wire(c))
         /\ MuxPart(c, us, k) = Glue(Lead(c, us, k), BlockAt(c, us, k))
         /\ Mux(c, us) = Glue(Glue(Prior(c, us, k), MuxPart(c, us, k)), Later(c, us, k))
         /\ Len(Prior(c, us, k)) = Upto(MuxParts(c, us), k - 1)
<1> DEFINE ps == MuxParts(c, us)
<1>1. /\ ps \in Seq(Seq(Wire(c))) /\ k \in 1 .. Len(ps) /\ Len(ps) = Len(Order(us)) /\ Mux(c, us) = FlattenSeq(ps)
      /\ ps[k] = MuxPart(c, us, k) /\ Lead(c, us, k) \in Seq(Wire(c)) /\ BlockAt(c, us, k) \in Seq(Wire(c))
  BY MuxFacts DEF BlockAt
<1>2. /\ FlattenSeq(SubSeq(ps, 1, k - 1)) \in Seq(Wire(c))
      /\ FlattenSeq(SubSeq(ps, k + 1, Len(ps))) \in Seq(Wire(c))
      /\ FlattenSeq(SubSeq(ps, 1, k)) = FlattenSeq(SubSeq(ps, 1, k - 1)) \o ps[k]
      /\ FlattenSeq(ps) = FlattenSeq(SubSeq(ps, 1, k)) \o FlattenSeq(SubSeq(ps, k + 1, Len(ps)))
  BY <1>1, FlattenSplit
<1>3. Prior(c, us, k) \in Seq(Wire(c)) /\ Later(c, us, k) \in Seq(Wire(c))
  BY <1>1, <1>2 DEF Prior, Later
<1>4. MuxPart(c, us, k) = Glue(Lead(c, us, k), BlockAt(c, us, k))
  BY DEF MuxPart, Glue, BlockAt
<1>5. Mux(c, us) = Glue(Glue(Prior(c, us, k), MuxPart(c, us, k)), Later(c, us, k))
  <2>1. Prior(c, us, k) = FlattenSeq(SubSeq(ps, 1, k - 1)) /\ Later(c, us, k) = FlattenSeq(SubSeq(ps, k + 1, Len(ps)))
    BY <1>1 DEF Prior, Later
  <2> HIDE DEF ps
  <2> QED BY <1>1, <1>2, <2>1 DEF Glue
<1>6. Len(Prior(c, us, k)) = Upto(ps, k - 1)
  BY DEF Prior, Upto
<1> QED BY <1>1, <1>3, <1>4, <1>5, <1>6

(* What is lost or repeated is one packet of a table or of a block.          *)
TableDamaged(c, us, F, k, w) ==
    /\ TablesBefore(c, Order(us), k)
    /\ F = Glue(Glue(Prior(c, us, k), w), Glue(BlockAt(c, us, k), Later(c, us, k)))
    /\ \A m \in 1 .. Len(w) : w[m].pid \in Tables

\* One packet of the unit of part k is lost or repeated.
BlockDamaged(c, us, F, k, w) ==
    /\ F = Glue(Glue(Glue(Prior(c, us, k), Lead(c, us, k)), w), Later(c, us, k))
    /\ \A m \in 1 .. Len(w) : w[m].pid = Order(us)[k][1]

(* What is lost or repeated is of the tables or the unit of some part.       *)
LEMMA AlteredPart ==
  ASSUME NEW c \in Carriers, NEW us \in Programs(c), NEW i \in 1 .. Len(Mux(c, us)),
         NEW F, Altered(F, Mux(c, us), i)
  PROVE  \E k \in 1 .. Len(Order(us)) : \E w \in Seq(Wire(c)) :
            \/ Mux(c, us)[i].pid \in Tables /\ TableDamaged(c, us, F, k, w)
            \/ Mux(c, us)[i].pid = Order(us)[k][1] /\ BlockDamaged(c, us, F, k, w)
<1> DEFINE ps == MuxParts(c, us)
           O == Mux(c, us)
<1>1. /\ ps \in Seq(Seq(Wire(c))) /\ Len(ps) = Len(Order(us)) /\ O = FlattenSeq(ps) /\ Len(ps) \in Nat
      /\ \A k \in 1 .. Len(ps) : ps[k] = MuxPart(c, us, k) /\ Lead(c, us, k) \in {<<>>, Psi}
  BY MuxFacts
<1>2. PICK k \in 1 .. Len(ps) : \E j \in 1 .. Len(ps[k]) : i = Upto(ps, k - 1) + j
  <2>1. i \in 1 .. Len(FlattenSeq(ps))
    BY <1>1
  <2> QED BY <1>1, <2>1, FlattenFind
<1>3. PICK j \in 1 .. Len(ps[k]) : i = Upto(ps, k - 1) + j
  BY <1>2
<1> DEFINE S == Wire(c)
           pre == Prior(c, us, k)
           l == Lead(c, us, k)
           b == BlockAt(c, us, k)
           post == Later(c, us, k)
           t == Order(us)[k][1]
<1>4. /\ pre \in Seq(S) /\ l \in Seq(S) /\ b \in Seq(S) /\ post \in Seq(S)
      /\ ps[k] = Glue(l, b) /\ O = Glue(Glue(pre, Glue(l, b)), post) /\ Len(pre) = Upto(ps, k - 1)
      /\ k \in 1 .. Len(Order(us))
  <2>1. k \in 1 .. Len(Order(us)) /\ ps[k] = MuxPart(c, us, k)
    BY <1>1
  <2>2. /\ pre \in Seq(S) /\ l \in Seq(S) /\ b \in Seq(S) /\ post \in Seq(S)
        /\ MuxPart(c, us, k) = Glue(l, b) /\ O = Glue(Glue(pre, MuxPart(c, us, k)), post)
        /\ Len(pre) = Upto(ps, k - 1)
    BY <2>1, MuxAround
  <2> HIDE DEF pre, l, b, post, O, ps, S
  <2> QED BY <2>1, <2>2
<1>5. \A m \in 1 .. Len(b) : b[m].pid = t
  <2>1. UnitAt(us, k) \in AnyUnit /\ t \in DOMAIN c
    BY <1>1, MuxFacts
  <2>2. b = Block(c, t, UnitAt(us, k))
    BY DEF BlockAt
  <2> HIDE DEF t, b
  <2>3. \A m \in 1 .. Len(Block(c, t, UnitAt(us, k))) : Block(c, t, UnitAt(us, k))[m].pid = t
    BY ONLY c \in Carriers, <2>1, BlockPids
  <2> QED BY ONLY <2>2, <2>3
<1>6. \A m \in 1 .. Len(l) : l[m].pid \in Tables /\ l = Psi /\ TablesBefore(c, Order(us), k)
  <2>1. l = Psi => \A m \in 1 .. Len(l) : l[m].pid \in Tables
    <3>1. Len(Psi) = 2 /\ Psi[1].pid \in Tables /\ Psi[2].pid \in Tables
      BY PsiTyped
    <3>2. \A m \in 1 .. 2 : m = 1 \/ m = 2
      OBVIOUS
    <3> QED BY <3>1, <3>2
  <2>2. l = <<>> => Len(l) = 0
    OBVIOUS
  <2>3. l = Psi \/ l = <<>>
    BY DEF Lead
  <2>4. ~ TablesBefore(c, Order(us), k) => l = <<>>
    BY DEF Lead
  <2> HIDE DEF l
  <2>5. \A m \in 1 .. 0 : FALSE
    OBVIOUS
  <2> QED BY <2>1, <2>2, <2>3, <2>4, <2>5
<1>7. /\ Len(l) \in Nat /\ Len(b) \in Nat /\ Len(Glue(l, b)) = Len(l) + Len(b) /\ Len(pre) \in Nat
      /\ \A m \in 1 .. Len(l) : Glue(l, b)[m] = l[m]
      /\ \A m \in Len(l) + 1 .. Len(l) + Len(b) : Glue(l, b)[m] = b[m - Len(l)]
      /\ Len(Glue(pre, l)) = Len(pre) + Len(l) /\ Glue(pre, l) \in Seq(S) /\ Glue(b, post) \in Seq(S)
      /\ Glue(l, b) \in Seq(S)
  <2> HIDE DEF S, pre, l, b, post
  <2>1. Len(l) \in Nat /\ Len(b) \in Nat /\ Len(Glue(l, b)) = Len(l) + Len(b) /\ Glue(l, b) \in Seq(S)
    BY <1>4, GlueFacts
  <2>2. \A m \in 1 .. Len(l) : Glue(l, b)[m] = l[m]
    BY ONLY <1>4, GlueFacts
  <2>3. \A m \in Len(l) + 1 .. Len(l) + Len(b) : Glue(l, b)[m] = b[m - Len(l)]
    BY ONLY <1>4, GlueFacts
  <2>4. Len(pre) \in Nat /\ Len(Glue(pre, l)) = Len(pre) + Len(l) /\ Glue(pre, l) \in Seq(S)
    BY <1>4, GlueFacts
  <2>5. Glue(b, post) \in Seq(S)
    BY <1>4, GlueFacts
  <2> QED BY <2>1, <2>2, <2>3, <2>4, <2>5
<1>8. O[i] = Glue(l, b)[j] /\ j \in 1 .. Len(l) + Len(b) /\ i = Len(pre) + j
  <2>1. O[i] = ps[k][j]
    <3>1. \A jj \in 1 .. Len(ps[k]) : FlattenSeq(ps)[Upto(ps, k - 1) + jj] = ps[k][jj]
      BY <1>1, FlattenAt
    <3> QED BY <1>1, <1>3, <3>1
  <2> HIDE DEF S, pre, l, b, post, O, ps
  <2> QED BY <1>3, <1>4, <1>7, <2>1
<1>9. Glue(Glue(pre, Glue(l, b)), post) = Glue(Glue(pre, l), Glue(b, post))
      /\ Glue(Glue(pre, Glue(l, b)), post) = Glue(Glue(Glue(pre, l), b), post)
  <2> HIDE DEF S, pre, l, b, post
  <2>1. Glue(Glue(pre, l), b) = Glue(pre, Glue(l, b))
    BY ONLY <1>4, GlueAssociates
  <2>2. Glue(Glue(Glue(pre, l), b), post) = Glue(Glue(pre, l), Glue(b, post))
    <3>1. Glue(pre, l) \in Seq(S)
      BY <1>7
    <3> QED BY ONLY <1>4, <3>1, GlueAssociates
  <2> QED BY <2>1, <2>2
<1>10. CASE j \in 1 .. Len(l)
  <2> HIDE DEF S, pre, l, b, post, O
  <2>1. Altered(F, Glue(Glue(pre, l), Glue(b, post)), i) /\ i = Len(pre) + j
    BY <1>4, <1>8, <1>9 DEF O
  <2>2. Within3(S, F, pre, l, Glue(b, post))
    <3>1. Glue(b, post) \in Seq(S)
      BY <1>7
    <3> QED BY ONLY <1>4, <1>10, <2>1, <3>1, AlteredWithin
  <2>3. PICK w \in Seq(S) : /\ F = Glue(Glue(pre, w), Glue(b, post))
                            /\ \A m \in 1 .. Len(w) : \E n \in 1 .. Len(l) : w[m] = l[n]
    BY <2>2 DEF Within3
  <2>4. \A m \in 1 .. Len(w) : w[m].pid \in Tables
    BY <1>6, <2>3
  <2>5. TableDamaged(c, us, F, k, w)
    BY <1>6, <1>10, <2>3, <2>4 DEF TableDamaged, pre, b, post
  <2>6. O[i].pid \in Tables
    BY <1>6, <1>7, <1>8, <1>10
  <2> QED BY <1>4, <2>5, <2>6 DEF O, S
<1>11. CASE j \in Len(l) + 1 .. Len(l) + Len(b)
  <2> DEFINE r == j - Len(l)
             x == Glue(pre, l)
  <2> HIDE DEF S, pre, l, b, post, O
  <2>1. r \in 1 .. Len(b) /\ i = Len(x) + r
    BY <1>7, <1>8, <1>11
  <2>2. x \in Seq(S)
    BY <1>7
  <2> HIDE DEF x, r
  <2>3. Altered(F, Glue(Glue(x, b), post), i)
    BY <1>4, <1>9, <2>1 DEF O, x
  <2>4. Within3(S, F, x, b, post)
    BY ONLY <1>4, <2>1, <2>2, <2>3, AlteredWithin
  <2>5. PICK w \in Seq(S) : /\ F = Glue(Glue(x, w), post)
                            /\ \A m \in 1 .. Len(w) : \E n \in 1 .. Len(b) : w[m] = b[n]
    BY <2>4 DEF Within3
  <2>6. \A m \in 1 .. Len(w) : w[m].pid = t
    BY <1>5, <2>5
  <2>7. BlockDamaged(c, us, F, k, w)
    BY <2>5, <2>6 DEF BlockDamaged, x, pre, l, post
  <2>8. O[i].pid = t
    BY <1>5, <1>7, <1>8, <1>11, <2>1 DEF r
  <2> QED BY <1>4, <2>7, <2>8 DEF O, S
<1>12. j \in 1 .. Len(l) \/ j \in Len(l) + 1 .. Len(l) + Len(b)
  <2> HIDE DEF l, b, pre
  <2> QED BY <1>7, <1>8
<1> QED BY <1>10, <1>11, <1>12

(* Where a stream begins with its tables, nothing is missing before the part  *)
(* that is damaged.                                                           *)
LEMMA BeforeDamage ==
  ASSUME NEW c \in Carriers, NEW us \in Programs(c), Ordered(c, us), NEW k \in 1 .. Len(Order(us))
  PROVE  LET d == Run(Demuxer(c), Prior(c, us, k))
         IN  /\ d \in Demuxers(c) /\ (d.pmt \/ (k = 1 /\ d = Demuxer(c)))
             /\ d.pmt \/ TablesBefore(c, Order(us), k)
             /\ \A t \in DOMAIN c : Final(d, t) = SubSeq(NormalUnits(us)[t], 1, Places(Order(us), t, k - 1))
<1> DEFINE q == Order(us)
           d0 == Demuxer(c)
           d == Run(d0, Prior(c, us, k))
           i == k - 1
<1>1. q \in Seq(Numbered(us)) /\ Len(q) \in Nat /\ k \in Nat /\ k <= Len(q) /\ 1 <= k /\ i \in Nat /\ i \in 0 .. Len(q)
      /\ 0 \in 0 .. Len(q) /\ i \in 0 .. Len(q) /\ q # <<>>
  BY OrderFacts
<1>2. d0 \in Demuxers(c) /\ \A t \in DOMAIN c : Final(d0, t) = <<>>
  BY DemuxerFacts
<1>3. \A t : Places(q, t, 0) = 0
  BY PlacesStep
<1>4. TablesBefore(c, q, 1)
  <2>1. q[1][1] \in ClockTrack(c)
    BY <1>1 DEF Ordered
  <2>2. \A j : Cardinality({m \in 1 .. j : q[m][1] \in ClockTrack(c)}) = Places(q, q[1][1], j)
    <3> HIDE DEF q
    <3> QED BY <2>1, ClockIsOne
  <2>3. Cardinality({m \in 1 .. 0 : q[m][1] \in ClockTrack(c)}) = 0
    <3> HIDE DEF q
    <3> QED BY <1>3, <2>2
  <2> HIDE DEF q
  <2> QED BY <2>1, <2>3, PeriodFacts DEF TablesBefore
<1>5. TablesBefore(c, q, 0 + 1) /\ Rises(us) /\ 0 + 1 = 1 /\ i \in 0 .. Len(q)
  BY <1>1, <1>4 DEF Ordered
<1>6. LET e == Run(d0, FlattenSeq(SubSeq(MuxParts(c, us), 0 + 1, i)))
      IN  /\ e \in Demuxers(c) /\ (e.pmt \/ (0 = i /\ e = d0))
          /\ \A t \in DOMAIN c : Final(e, t) = Final(d0, t)
                    \o SubSeq(NormalUnits(us)[t], Places(q, t, 0) + 1, Places(q, t, i))
  BY <1>1, <1>2, <1>5, HearsUpto
<1>7. d = Run(d0, FlattenSeq(SubSeq(MuxParts(c, us), 0 + 1, i)))
  BY <1>5 DEF Prior
<1> HIDE DEF d0, i, d, q
<1>8. d \in Demuxers(c) /\ (d.pmt \/ (0 = i /\ d = d0))
  BY <1>6, <1>7
<1>9. ASSUME NEW t \in DOMAIN c
      PROVE  Final(d, t) = SubSeq(NormalUnits(us)[t], 1, Places(q, t, i))
  <2>1. Final(d, t) = Final(d0, t) \o SubSeq(NormalUnits(us)[t], Places(q, t, 0) + 1, Places(q, t, i))
    BY <1>6, <1>7
  <2>2. Final(d, t) = <<>> \o SubSeq(NormalUnits(us)[t], 1, Places(q, t, i))
    BY <1>2, <1>3, <1>5, <2>1
  <2> DEFINE x == SubSeq(NormalUnits(us)[t], 1, Places(q, t, i))
  <2>3. x \in Seq(AnyUnit)
    <3>1. NormalUnits(us)[t] \in Seq(AnyUnit) /\ Len(NormalUnits(us)[t]) = Len(us[t]) /\ Len(us[t]) \in Nat
      BY NormalUnitsFacts
    <3>2. Places(q, t, i) \in 0 .. Len(us[t])
      BY <1>5, PlaceOfUnit DEF q
    <3> DEFINE s == NormalUnits(us)[t]
               m == Places(q, t, i)
    <3> HIDE DEF s, m
    <3>3. SubSeq(s, 1, m) \in Seq(AnyUnit)
      BY <3>1, <3>2 DEF s, m
    <3> QED BY <3>3 DEF s, m
  <2>4. <<>> \o x = x
    <3> HIDE DEF x
    <3> QED BY <2>3, WholeSlice
  <2> QED BY <2>2, <2>4
<1>10. (0 = i => k = 1) /\ k - 1 = i
  BY <1>1 DEF i
<1> QED BY <1>4, <1>8, <1>9, <1>10 DEF d, d0, q

(* A sequence is its first m elements and the others.                        *)
LEMMA SlicesToEnd ==
  ASSUME NEW s \in Seq(AnyUnit), NEW m \in 0 .. Len(s)
  PROVE  /\ SubSeq(s, 1, m) \o SubSeq(s, m + 1, Len(s)) = s /\ SubSeq(s, 1, m) \in Seq(AnyUnit)
         /\ Len(SubSeq(s, 1, m)) = m /\ \A j \in 1 .. m : SubSeq(s, 1, m)[j] = s[j]
         /\ m < Len(s) => Append(SubSeq(s, 1, m), s[m + 1]) \o SubSeq(s, (m + 1) + 1, Len(s)) = s
<1>1. Glue(Lower(s, m), Upper(s, m)) = s
  BY GlueOfSlices
<1>2. ASSUME m < Len(s)
      PROVE  Append(SubSeq(s, 1, m), s[m + 1]) \o SubSeq(s, (m + 1) + 1, Len(s)) = s
  <2>1. m + 1 \in 0 .. Len(s) /\ 0 <= m /\ m \in Nat /\ 0 \in Nat
    BY <1>2
  <2>2. Glue(Lower(s, m + 1), Upper(s, m + 1)) = s
    BY <2>1, GlueOfSlices
  <2>3. SubSeq(s, 0 + 1, m + 1) = Append(SubSeq(s, 0 + 1, m), s[m + 1])
    BY ONLY s \in Seq(AnyUnit), <1>2, <2>1, SliceMore
  <2>4. Lower(s, m + 1) = Append(SubSeq(s, 1, m), s[m + 1])
    BY <2>3 DEF Lower
  <2> QED BY <2>2, <2>4 DEF Glue, Upper
<1>3. /\ Lower(s, m) \in Seq(AnyUnit) /\ Len(Lower(s, m)) = m
      /\ \A j \in 1 .. m : Lower(s, m)[j] = s[j]
  BY SliceFacts
<1> QED BY <1>1, <1>2, <1>3 DEF Glue, Lower, Upper

(* A packet of a track, lost or repeated, costs that track two units at most. *)
Missing(x, y) == {n \in DOMAIN x : \A j \in DOMAIN y : y[j] # x[n]}

(* A track that begins as it was, up to one unit, and ends as it was misses  *)
(* two at most.                                                              *)
LEMMA MissesTwo ==
  ASSUME NEW s \in Seq(AnyUnit), NEW m \in Nat, m + 1 <= Len(s), NEW z \in Seq(AnyUnit),
         \A j \in 1 .. m - 1 : j <= Len(z) /\ z[j] = s[j]
  PROVE  Cardinality(Missing(s, z \o SubSeq(s, (m + 1) + 1, Len(s)))) <= 2
<1> DEFINE y == Upper(s, m + 1)
           g == Glue(z, y)
<1>1. m + 1 \in 0 .. Len(s) /\ Len(s) \in Nat /\ DOMAIN s = 1 .. Len(s)
  OBVIOUS
<1>2. y \in Seq(AnyUnit) /\ Len(y) = Len(s) - (m + 1)
      /\ \A j \in 1 .. Len(s) - (m + 1) : y[j] = s[(m + 1) + j]
  <2> DEFINE r == m + 1
  <2>3. r \in 0 .. Len(s)
    BY <1>1
  <2> HIDE DEF r
  <2>1. y \in Seq(AnyUnit) /\ Len(y) = Len(s) - r
    BY ONLY s \in Seq(AnyUnit), <2>3, SliceFacts DEF r
  <2>2. \A j \in 1 .. Len(s) - r : y[j] = s[r + j]
    BY ONLY s \in Seq(AnyUnit), <2>3, SliceFacts DEF r
  <2> QED BY <2>1, <2>2 DEF r
<1> HIDE DEF y
<1>3. /\ g \in Seq(AnyUnit) /\ Len(g) = Len(z) + Len(y) /\ Len(z) \in Nat /\ Len(y) \in Nat
      /\ \A j \in 1 .. Len(z) : g[j] = z[j]
      /\ \A j \in Len(z) + 1 .. Len(z) + Len(y) : g[j] = y[j - Len(z)]
  <2>1. g \in Seq(AnyUnit) /\ Len(g) = Len(z) + Len(y) /\ Len(z) \in Nat /\ Len(y) \in Nat
    BY ONLY z \in Seq(AnyUnit), <1>2, GlueFacts
  <2>2. \A j \in 1 .. Len(z) : g[j] = z[j]
    BY ONLY z \in Seq(AnyUnit), <1>2, GlueFacts
  <2>3. \A j \in Len(z) + 1 .. Len(z) + Len(y) : g[j] = y[j - Len(z)]
    BY ONLY z \in Seq(AnyUnit), <1>2, GlueFacts
  <2> QED BY <2>1, <2>2, <2>3
<1> HIDE DEF g
<1>4. DOMAIN g = 1 .. Len(g)
  BY <1>3
<1>5. ASSUME NEW n \in DOMAIN s, n # m, n # m + 1
      PROVE  \E j \in DOMAIN g : g[j] = s[n]
  <2>1. CASE n < m
    <3>1. n \in 1 .. m - 1
      BY <1>1, <2>1
    <3>2. n \in 1 .. Len(z) /\ z[n] = s[n]
      BY <1>3, <3>1
    <3>3. n \in DOMAIN g /\ g[n] = s[n]
      BY <1>3, <1>4, <3>2
    <3> QED BY <3>3
  <2>2. CASE n > m + 1
    <3> DEFINE j == n - (m + 1)
               h == Len(z) + j
    <3>1. j \in 1 .. Len(s) - (m + 1) /\ (m + 1) + j = n
      BY <1>1, <2>2
    <3>2. y[j] = s[n] /\ j \in 1 .. Len(y)
      <4> HIDE DEF j
      <4> QED BY <1>2, <3>1
    <3>3. h \in Len(z) + 1 .. Len(z) + Len(y) /\ h - Len(z) = j /\ h \in 1 .. Len(g)
      <4> HIDE DEF j
      <4> QED BY <1>3, <3>2
    <3> HIDE DEF h, j
    <3> QED BY <1>3, <1>4, <3>2, <3>3
  <2> QED BY <1>1, <1>5, <2>1, <2>2
<1>6. Missing(s, g) \subseteq {m, m + 1}
  BY <1>5 DEF Missing
<1>7. Cardinality(Missing(s, g)) <= 2
  <2>1. IsFiniteSet({m, m + 1}) /\ Cardinality({m, m + 1}) = 2
    <3>1. IsFiniteSet({}) /\ Cardinality({}) = 0
      BY FS_EmptySet
    <3>2. IsFiniteSet({m}) /\ Cardinality({m}) = 1
      BY FS_Singleton
    <3>3. m + 1 \notin {m} /\ {m, m + 1} = {m} \cup {m + 1}
      OBVIOUS
    <3>4. IsFiniteSet({m} \cup {m + 1}) /\ Cardinality({m} \cup {m + 1}) = Cardinality({m}) + 1
      BY <3>2, <3>3, FS_AddElement
    <3>5. IsFiniteSet({m, m + 1}) /\ Cardinality({m, m + 1}) = Cardinality({m}) + 1
      BY ONLY <3>3, <3>4, Zenon
    <3> QED BY ONLY <3>2, <3>5
  <2>2. IsFiniteSet(Missing(s, g)) /\ Cardinality(Missing(s, g)) <= Cardinality({m, m + 1})
    BY <1>6, <2>1, FS_Subset
  <2> QED BY <2>1, <2>2
<1> QED BY <1>7 DEF g, y, Glue, Upper

(* Extending twice is extending.                                             *)
LEMMA ExtendsThenAppends ==
  ASSUME NEW x, NEW y, NEW z, Extends(x, y), Extends(z, x), Len(y) \in Nat, Len(x) \in Nat, Len(z) \in Nat
  PROVE  Extends(z, y)
  BY DEF Extends

(* A packet of one track lost or repeated: its track misses two units at      *)
(* most, and the others none.                                                 *)
LEMMA BlockDamageHeard ==
  ASSUME NEW c \in Carriers, NEW us \in Programs(c), Ordered(c, us), NEW k \in 1 .. Len(Order(us)),
         NEW w \in Seq(Wire(c)), NEW F, BlockDamaged(c, us, F, k, w)
  PROVE  LET p == Order(us)[k][1]
             ns == NormalUnits(us)
         IN  /\ F \in Seq(Wire(c)) /\ p \in DOMAIN c
             /\ \A t \in DOMAIN c : t # p => Received(c, F)[t] = ns[t]
             /\ Cardinality(Missing(ns[p], Received(c, F)[p])) <= 2
<1> DEFINE q == Order(us)
           p == q[k][1]
           ns == NormalUnits(us)
           S == Wire(c)
           pre == Prior(c, us, k)
           lead == Lead(c, us, k)
           post == Later(c, us, k)
           i == k - 1
           d0 == Demuxer(c)
           d1 == Run(d0, pre)
           d2 == Run(d1, lead)
           d3 == Run(d2, w)
           d4 == Run(d3, post)
           M(t) == Places(q, t, i)
<1>1. /\ pre \in Seq(S) /\ lead \in Seq(S) /\ post \in Seq(S) /\ Rises(us)
      /\ i \in Nat /\ i + 1 = k /\ i + 1 <= Len(q) /\ Len(q) \in Nat /\ k \in 0 .. Len(q)
      /\ F = Glue(Glue(Glue(pre, lead), w), post) /\ lead = (IF TablesBefore(c, q, k) THEN Psi ELSE <<>>)
      /\ i \in 0 .. Len(q)
  <2>1. pre \in Seq(S) /\ lead \in Seq(S) /\ post \in Seq(S)
    BY MuxAround
  <2>2. Len(q) \in Nat /\ Rises(us)
    BY OrderFacts DEF Ordered
  <2>3. i \in Nat /\ i + 1 = k /\ i + 1 <= Len(q) /\ k \in 0 .. Len(q) /\ i \in 0 .. Len(q)
    BY <2>2
  <2>4. F = Glue(Glue(Glue(pre, lead), w), post)
    BY DEF BlockDamaged
  <2>5. lead = (IF TablesBefore(c, q, k) THEN Psi ELSE <<>>)
    BY DEF Lead
  <2> QED BY <2>1, <2>2, <2>3, <2>4, <2>5
<1>2. /\ d0 \in Demuxers(c)
      /\ d1 \in Demuxers(c) /\ (d1.pmt \/ TablesBefore(c, q, k))
      /\ \A t \in DOMAIN c : Final(d1, t) = SubSeq(ns[t], 1, M(t))
  BY BeforeDamage, DemuxerFacts
<1>3. /\ p \in DOMAIN c /\ M(p) \in Nat /\ M(p) + 1 \in 1 .. Len(us[p])
      /\ Places(q, p, k) = M(p) + 1
      /\ \A s \in DOMAIN c : s # p => Places(q, s, k) = M(s)
  BY <1>1, NextUnit
<1>4. \A t \in DOMAIN c : ns[t] \in Seq(AnyUnit) /\ Len(ns[t]) = Len(us[t]) /\ M(t) \in 0 .. Len(us[t])
  BY <1>1, NormalUnitsFacts, PlaceOfUnit
<1> HIDE DEF i, d1
<1>5. /\ d2 \in Demuxers(c) /\ d2.pmt
      /\ \A t \in DOMAIN c : Final(d2, t) = Final(d1, t)
  <2>1. CASE TablesBefore(c, q, k)
    <3>1. lead = Psi
      BY <1>1, <2>1
    <3>2. d2 \in Demuxers(c) /\ d2.pmt /\ d2.buffers = d1.buffers /\ d2.units = d1.units
      BY <1>2, <3>1, RunPsi
    <3> HIDE DEF d2
    <3> QED BY <3>2 DEF Final
  <2>2. CASE ~ TablesBefore(c, q, k)
    <3>1. lead = <<>>
      BY <1>1, <2>2
    <3>2. d2 = d1
      BY <1>2, <3>1, RunEmpty
    <3> HIDE DEF d2
    <3> QED BY <1>2, <2>2, <3>2
  <2> QED BY <2>1, <2>2
<1> HIDE DEF d2
<1>6. /\ d3 \in Demuxers(c) /\ d3.pmt
      /\ \A t \in DOMAIN c : t # p => Final(d3, t) = Final(d2, t)
      /\ Extends(d3.units[p], d2.units[p])
  <2>1. \A m \in 1 .. Len(w) : w[m].pid \in Tables \cup {p}
    BY DEF BlockDamaged
  <2>2. d2 \in Demuxers(c) /\ d2.pmt /\ p \in DOMAIN c
    BY <1>3, <1>5
  <2> HIDE DEF p
  <2>3. LET e == Run(d2, w)
        IN  /\ e \in Demuxers(c) /\ e.pmt
            /\ \A t \in DOMAIN c : /\ t # p => e.buffers[t] = d2.buffers[t] /\ e.units[t] = d2.units[t]
                                               /\ Final(e, t) = Final(d2, t)
                                   /\ Extends(e.units[t], d2.units[t])
    BY ONLY c \in Carriers, w \in Seq(Wire(c)), <2>1, <2>2, RunApart
  <2> QED BY ONLY <2>2, <2>3
<1> HIDE DEF d3
<1>7. d4.pmt /\ \A t \in DOMAIN c : Final(d4, t) = Final(d3, t) \o SubSeq(ns[t], Places(q, t, k) + 1, Len(us[t]))
  <2>1. post = FlattenSeq(SubSeq(MuxParts(c, us), k + 1, Len(q)))
    BY DEF Later
  <2>2. LET e == Run(d3, FlattenSeq(SubSeq(MuxParts(c, us), k + 1, Len(q))))
        IN  e.pmt /\ \A t \in DOMAIN c : Final(e, t) = Final(d3, t) \o SubSeq(ns[t], Places(q, t, k) + 1, Len(us[t]))
    BY <1>1, <1>6, HearsTheRest
  <2> HIDE DEF post, ns, q
  <2> QED BY <2>1, <2>2
<1> HIDE DEF d4
<1>8. F \in Seq(S) /\ Run(d0, F) = d4
  <2> HIDE DEF S, pre, lead, post, d0
  <2>1. Glue(pre, lead) \in Seq(S) /\ Glue(Glue(pre, lead), w) \in Seq(S) /\ F \in Seq(S)
    BY <1>1, GlueFacts DEF S
  <2>2. Run(d0, Glue(pre, lead)) = d2
    BY <1>1, <1>2, RunJoined DEF d1, d2, Glue, S
  <2>3. Run(d0, Glue(Glue(pre, lead), w)) = d3
    BY <1>2, <2>1, <2>2, RunJoined DEF d3, Glue, S
  <2> DEFINE u == Glue(Glue(pre, lead), w)
  <2> HIDE DEF u
  <2>5. F = u \o post /\ u \in Seq(Wire(c)) /\ post \in Seq(Wire(c)) /\ Run(d0, u) = d3
    BY <1>1, <2>1, <2>3 DEF u, Glue, S
  <2>4. Run(d0, F) = d4
    BY ONLY c \in Carriers, <1>2, <2>5, RunJoined DEF d4
  <2> QED BY <2>1, <2>4
<1>9. \A t \in DOMAIN c : Received(c, F)[t] = Final(d4, t)
  BY <1>8, ReceivedIs
<1>10. ASSUME NEW t \in DOMAIN c, t # p
       PROVE  Received(c, F)[t] = ns[t]
  <2> DEFINE s == ns[t]
             m == M(t)
  <2>1. s \in Seq(AnyUnit) /\ m \in 0 .. Len(s) /\ Len(us[t]) = Len(s)
    BY <1>4
  <2>2. Final(d4, t) = SubSeq(s, 1, m) \o SubSeq(s, m + 1, Len(s))
    BY <1>2, <1>3, <1>4, <1>5, <1>6, <1>7, <1>10
  <2> HIDE DEF s, m
  <2>3. Final(d4, t) = s
    BY <2>1, <2>2, SlicesToEnd
  <2> QED BY <1>9, <2>3 DEF s
<1>11. Cardinality(Missing(ns[p], Received(c, F)[p])) <= 2
  <2> DEFINE s == ns[p]
             m == M(p)
             z == Final(d3, p)
             f == Final(d2, p)
  <2>1. s \in Seq(AnyUnit) /\ m \in Nat /\ m + 1 <= Len(s) /\ m \in 0 .. Len(s)
    BY <1>3, <1>4
  <2>2. Final(d4, p) = z \o SubSeq(s, (m + 1) + 1, Len(s))
    BY <1>3, <1>4, <1>7
  <2>3. /\ z \in Seq(AnyUnit) /\ Extends(z, d3.units[p]) /\ Extends(f, d2.units[p])
        /\ Len(f) <= Len(d2.units[p]) + 1 /\ Len(d2.units[p]) \in Nat /\ Len(d3.units[p]) \in Nat
        /\ Len(z) \in Nat
    BY <1>3, <1>5, <1>6, FinalExtends, FinalTyped
  <2>4. Extends(z, d2.units[p])
    BY <1>6, <2>3, ExtendsThenAppends
  <2>5. f = SubSeq(s, 1, m)
    BY <1>2, <1>3, <1>5
  <2> HIDE DEF s, m, z
  <2>6. Len(f) = m /\ \A j \in 1 .. m : f[j] = s[j]
    <3>1. Len(SubSeq(s, 1, m)) = m /\ \A j \in 1 .. m : SubSeq(s, 1, m)[j] = s[j]
      BY <2>1, SlicesToEnd
    <3> QED BY <2>5, <3>1
  <2> HIDE DEF f
  <2>7. \A j \in 1 .. m - 1 : j <= Len(z) /\ z[j] = s[j]
    <3> TAKE j \in 1 .. m - 1
    <3>1. j \in 1 .. m /\ j \in 1 .. Len(d2.units[p])
      BY <2>1, <2>3, <2>6
    <3>2. f[j] = d2.units[p][j] /\ z[j] = d2.units[p][j] /\ Len(d2.units[p]) <= Len(z)
      BY <2>3, <2>4, <3>1 DEF Extends
    <3> QED BY <2>3, <2>6, <3>1, <3>2
  <2>8. Cardinality(Missing(s, z \o SubSeq(s, (m + 1) + 1, Len(s)))) <= 2
    BY <2>1, <2>3, <2>7, MissesTwo
  <2>9. Received(c, F)[p] = Final(d4, p)
    BY <1>3, <1>9
  <2> QED BY <2>2, <2>8, <2>9 DEF s
<1> QED BY <1>3, <1>8, <1>10, <1>11

(* A table lost or repeated: what arrives is the end of each track, and the   *)
(* clock track misses PsiPeriod units at most.                                *)
LEMMA TableDamageHeard ==
  ASSUME NEW c \in Carriers, NEW us \in Programs(c), Ordered(c, us), NEW k \in 1 .. Len(Order(us)),
         NEW w \in Seq(Wire(c)), NEW F, TableDamaged(c, us, F, k, w)
  PROVE  LET ns == NormalUnits(us)
         IN  /\ F \in Seq(Wire(c))
             /\ \A t \in DOMAIN c : IsSuffix(Received(c, F)[t], ns[t])
             /\ \A t \in ClockTrack(c) : /\ t \in DOMAIN c
                                         /\ Len(ns[t]) - Len(Received(c, F)[t]) <= PsiPeriod
<1> DEFINE q == Order(us)
           p == q[k][1]
           ns == NormalUnits(us)
           S == Wire(c)
           pre == Prior(c, us, k)
           block == BlockAt(c, us, k)
           post == Later(c, us, k)
           i == k - 1
           d0 == Demuxer(c)
           d1 == Run(d0, pre)
           d2 == Run(d1, w)
           d3 == Run(d2, block)
           d4 == Run(d3, post)
           M(t) == Places(q, t, i)
           Off(t, off) == /\ Received(c, F)[t] = SubSeq(ns[t], off + 1, Len(ns[t]))
                          /\ t \in ClockTrack(c) => off <= PsiPeriod
<1>1. /\ pre \in Seq(S) /\ block \in Seq(S) /\ post \in Seq(S) /\ Rises(us)
      /\ i \in Nat /\ i + 1 = k /\ i + 1 <= Len(q) /\ Len(q) \in Nat /\ k \in 0 .. Len(q) /\ k \in 1 .. Len(q)
      /\ F = Glue(Glue(pre, w), Glue(block, post)) /\ UnitAt(us, k) \in AnyUnit
      /\ i \in 0 .. Len(q) /\ post = FlattenSeq(SubSeq(MuxParts(c, us), k + 1, Len(q)))
      /\ block = Block(c, p, UnitAt(us, k))
  <2>1. pre \in Seq(S) /\ block \in Seq(S) /\ post \in Seq(S)
    BY MuxAround
  <2>2. Len(q) \in Nat /\ Rises(us) /\ UnitAt(us, k) \in AnyUnit
    BY OrderFacts DEF Ordered, UnitAt
  <2>3. i \in Nat /\ i + 1 = k /\ i + 1 <= Len(q) /\ k \in 0 .. Len(q) /\ i \in 0 .. Len(q) /\ k \in 1 .. Len(q)
    BY <2>2
  <2>4. F = Glue(Glue(pre, w), Glue(block, post))
    BY DEF TableDamaged
  <2>5. post = FlattenSeq(SubSeq(MuxParts(c, us), k + 1, Len(q))) /\ block = Block(c, p, UnitAt(us, k))
    BY DEF Later, BlockAt
  <2> QED BY <2>1, <2>2, <2>3, <2>4, <2>5
<1>2. /\ d0 \in Demuxers(c) /\ ~ d0.pmt /\ \A t \in DOMAIN c : Final(d0, t) = <<>>
      /\ d1 \in Demuxers(c) /\ (d1.pmt \/ (k = 1 /\ d1 = d0))
      /\ \A t \in DOMAIN c : Final(d1, t) = SubSeq(ns[t], 1, M(t))
  BY BeforeDamage, DemuxerFacts
<1>3. /\ p \in DOMAIN c /\ M(p) \in Nat /\ M(p) + 1 \in 1 .. Len(us[p])
      /\ Normal(UnitAt(us, k)) = ns[p][M(p) + 1]
      /\ Places(q, p, k) = M(p) + 1
      /\ \A s \in DOMAIN c : s # p => Places(q, s, k) = M(s)
  BY <1>1, NextUnit
<1>4. \A t \in DOMAIN c : ns[t] \in Seq(AnyUnit) /\ Len(ns[t]) = Len(us[t]) /\ M(t) \in 0 .. Len(us[t])
                          /\ Len(us[t]) \in Nat
  BY <1>1, NormalUnitsFacts, PlaceOfUnit
<1> HIDE DEF i, d1
<1>5. d2 \in Demuxers(c) /\ (d1.pmt => d2.pmt) /\ \A t \in DOMAIN c : Final(d2, t) = Final(d1, t)
  <2>1. \A m \in 1 .. Len(w) : w[m].pid \in Tables
    BY DEF TableDamaged
  <2>2. d1 \in Demuxers(c)
    BY <1>2
  <2>3. LET e == Run(d1, w)
        IN  /\ e \in Demuxers(c) /\ (d1.pmt => e.pmt)
            /\ e.buffers = d1.buffers /\ e.units = d1.units
            /\ \A t : Final(e, t) = Final(d1, t)
    BY ONLY c \in Carriers, w \in Seq(Wire(c)), <2>1, <2>2, RunTables
  <2> QED BY ONLY <2>3
<1> HIDE DEF d2
<1>6. F \in Seq(S) /\ (d3 \in Demuxers(c) => Run(d0, F) = d4)
  <2> HIDE DEF S, pre, block, post, d0, d3, d4
  <2>1. Glue(pre, w) \in Seq(S) /\ Glue(block, post) \in Seq(S) /\ F \in Seq(S)
    BY <1>1, GlueFacts DEF S
  <2>2. Run(d0, Glue(pre, w)) = d2
    BY <1>1, <1>2, RunJoined DEF d1, d2, Glue, S
  <2> DEFINE u == Glue(pre, w)
             v == Glue(block, post)
  <2>3. Run(d2, v) = d4
    BY <1>1, <1>5, RunJoined DEF d3, d4, Glue, S
  <2>4. F = u \o v /\ u \in Seq(Wire(c)) /\ v \in Seq(Wire(c)) /\ Run(d0, u) = d2
    BY <1>1, <2>1, <2>2 DEF Glue, S
  <2> HIDE DEF u, v
  <2>5. Run(d0, F) = d4
    BY ONLY c \in Carriers, <1>2, <2>3, <2>4, RunJoined
  <2> QED BY <2>1, <2>5
<1>7. F \in Seq(Wire(c)) /\ \A t \in DOMAIN c : Received(c, F)[t] = Final(Run(d0, F), t)
  BY <1>6, ReceivedIs
<1>8. ASSUME d2.pmt
      PROVE  \A t \in DOMAIN c : \E off \in 0 .. Len(us[t]) : Off(t, off)
  <2>1. /\ d3 \in Demuxers(c) /\ d3.pmt /\ Final(d3, p) = Append(Final(d2, p), Normal(UnitAt(us, k)))
        /\ \A t \in DOMAIN c : t # p => Final(d3, t) = Final(d2, t)
    <3>1. p \in DOMAIN c /\ UnitAt(us, k) \in AnyUnit /\ d2 \in Demuxers(c) /\ d2.pmt
      BY <1>1, <1>3, <1>5, <1>8
    <3>2. d3 = Run(d2, Block(c, p, UnitAt(us, k)))
      BY <1>1
    <3> HIDE DEF p, d3
    <3>3. LET e == Run(d2, Block(c, p, UnitAt(us, k)))
          IN  /\ e \in Demuxers(c) /\ e.pmt
              /\ Final(e, p) = Append(Final(d2, p), Normal(UnitAt(us, k)))
              /\ \A s \in DOMAIN c : s # p => Final(e, s) = Final(d2, s)
      BY ONLY c \in Carriers, <3>1, RunBlockFinal
    <3> QED BY ONLY <3>2, <3>3
  <2> HIDE DEF d3
  <2>2. \A t \in DOMAIN c : Final(d4, t) = Final(d3, t) \o SubSeq(ns[t], Places(q, t, k) + 1, Len(us[t]))
    <3>1. LET e == Run(d3, FlattenSeq(SubSeq(MuxParts(c, us), k + 1, Len(q))))
          IN  e.pmt /\ \A t \in DOMAIN c : Final(e, t) = Final(d3, t) \o SubSeq(ns[t], Places(q, t, k) + 1, Len(us[t]))
      BY <1>1, <2>1, HearsTheRest
    <3>2. post = FlattenSeq(SubSeq(MuxParts(c, us), k + 1, Len(q)))
      BY <1>1
    <3> HIDE DEF post, ns, q
    <3> QED BY <3>1, <3>2
  <2> HIDE DEF d4
  <2>3. ASSUME NEW t \in DOMAIN c
        PROVE  Off(t, 0)
    <3> DEFINE s == ns[t]
               m == M(t)
    <3>1. s \in Seq(AnyUnit) /\ m \in 0 .. Len(s) /\ Len(us[t]) = Len(s) /\ Final(d2, t) = SubSeq(s, 1, m)
      BY <1>2, <1>4, <1>5
    <3>2. ASSUME t = p
          PROVE  Final(d4, t) = s
      <4>1. Final(d4, t) = Append(SubSeq(s, 1, m), s[m + 1]) \o SubSeq(s, (m + 1) + 1, Len(s)) /\ m < Len(s)
        <5>1. Final(d4, t) = Final(d3, t) \o SubSeq(s, (m + 1) + 1, Len(s))
          BY <1>3, <2>2, <3>1, <3>2
        <5>2. Final(d3, t) = Append(SubSeq(s, 1, m), s[m + 1])
          BY <1>3, <2>1, <3>1, <3>2
        <5>3. m < Len(s)
          BY <1>3, <3>1, <3>2
        <5> QED BY ONLY <5>1, <5>2, <5>3
      <4> HIDE DEF s, m
      <4>2. Final(d4, t) = s
        BY <3>1, <4>1, SlicesToEnd
      <4> QED BY <4>2 DEF s
    <3>3. ASSUME t # p
          PROVE  Final(d4, t) = s
      <4>1. Final(d4, t) = SubSeq(s, 1, m) \o SubSeq(s, m + 1, Len(s))
        BY <1>3, <2>1, <2>2, <3>1, <3>3
      <4> HIDE DEF s, m
      <4>2. Final(d4, t) = s
        BY <3>1, <4>1, SlicesToEnd
      <4> QED BY <4>2 DEF s
    <3>4. Received(c, F)[t] = s
      BY <1>6, <1>7, <2>1, <3>2, <3>3
    <3> HIDE DEF s
    <3>5. SubSeq(s, 0 + 1, Len(s)) = s
      BY <3>1, WholeSlice
    <3>6. 0 <= PsiPeriod
      BY PeriodFacts
    <3> QED BY <3>4, <3>5, <3>6 DEF s
  <2>4. \A t \in DOMAIN c : 0 \in 0 .. Len(us[t])
    BY <1>4
  <2> HIDE DEF Off
  <2>5. \A t \in DOMAIN c : \E off \in 0 .. Len(us[t]) : Off(t, off)
    BY <2>3, <2>4
  <2> QED BY <2>5
<1>9. ASSUME ~ d2.pmt
      PROVE  \A t \in DOMAIN c : \E off \in 0 .. Len(us[t]) : Off(t, off)
  <2>1. k = 1 /\ d1 = d0
    BY <1>2, <1>5, <1>9
  <2>2. d3 = d2
    <3>1. \A m \in 1 .. Len(block) : block[m].pid = p
      <4>1. p \in DOMAIN c /\ UnitAt(us, k) \in AnyUnit
        BY <1>1, <1>3
      <4> HIDE DEF p
      <4> QED BY <1>1, <4>1, BlockPids
    <3>2. p \notin Tables
      BY <1>3, CarrierTyped
    <3> HIDE DEF block, p
    <3> QED BY <1>1, <1>5, <1>9, <3>1, <3>2, RunDeaf
  <2>3. \A t \in DOMAIN c : Final(d2, t) = <<>>
    BY <1>2, <1>5, <2>1
  <2>4. \A t \in DOMAIN c : \E off \in Places(q, t, 1) .. Len(us[t]) :
           /\ Final(d4, t) = SubSeq(ns[t], off + 1, Len(us[t]))
           /\ t \in ClockTrack(c) /\ Places(q, t, 1) <= PsiPeriod => off <= PsiPeriod
    <3>1. LET e == Run(d2, FlattenSeq(SubSeq(MuxParts(c, us), 1 + 1, Len(q))))
          IN  \A t \in DOMAIN c : \E off \in Places(q, t, 1) .. Len(us[t]) :
                 /\ Final(e, t) = SubSeq(ns[t], off + 1, Len(us[t]))
                 /\ t \in ClockTrack(c) /\ Places(q, t, 1) <= PsiPeriod => off <= PsiPeriod
      <4>1. 1 \in 0 .. Len(q)
        BY <1>1, <2>1
      <4> QED BY <1>1, <1>5, <1>9, <2>3, <4>1, DeafThenHears
    <3>2. post = FlattenSeq(SubSeq(MuxParts(c, us), 1 + 1, Len(q)))
      BY <1>1, <2>1
    <3> HIDE DEF post, ns, q
    <3> QED BY <2>2, <3>1, <3>2
  <2>5. \A t \in DOMAIN c : Places(q, t, 1) \in Nat /\ Places(q, t, 1) <= PsiPeriod
    <3> TAKE t \in DOMAIN c
    <3>1. /\ Places(q, t, 0) = 0
          /\ Places(q, t, 0 + 1) = IF q[0 + 1][1] = t THEN Places(q, t, 0) + 1 ELSE Places(q, t, 0)
      BY PlacesStep
    <3>2. Places(q, t, 1) \in {0, 1}
      BY <3>1
    <3> QED BY <3>2, PeriodFacts
  <2>6. \A t \in DOMAIN c : Received(c, F)[t] = Final(d4, t)
    BY <1>5, <1>6, <1>7, <2>2
  <2>7. \A t \in DOMAIN c : \E off \in 0 .. Len(us[t]) : Off(t, off)
    <3> TAKE t \in DOMAIN c
    <3>1. PICK off \in Places(q, t, 1) .. Len(us[t]) :
             /\ Final(d4, t) = SubSeq(ns[t], off + 1, Len(us[t]))
             /\ t \in ClockTrack(c) /\ Places(q, t, 1) <= PsiPeriod => off <= PsiPeriod
      BY <2>4
    <3>2. off \in 0 .. Len(us[t])
      <4> HIDE DEF d4, q, ns
      <4> QED BY <1>4, <2>5, <3>1
    <3>3. Off(t, off)
      BY <1>4, <2>5, <2>6, <3>1
    <3> HIDE DEF Off
    <3> QED BY <3>2, <3>3
  <2> QED BY <2>7
<1>10. ASSUME NEW t \in DOMAIN c
       PROVE  /\ IsSuffix(Received(c, F)[t], ns[t])
              /\ t \in ClockTrack(c) => Len(ns[t]) - Len(Received(c, F)[t]) <= PsiPeriod
  <2>1. PICK off \in 0 .. Len(us[t]) : Off(t, off)
    BY <1>8, <1>9
  <2> DEFINE s == ns[t]
             r == Received(c, F)[t]
  <2>2. s \in Seq(AnyUnit) /\ off \in 0 .. Len(s) /\ r = SubSeq(s, off + 1, Len(s)) /\ off \in Nat
        /\ (t \in ClockTrack(c) => off <= PsiPeriod)
    BY <1>4, <2>1
  <2> HIDE DEF s, r
  <2>3. IsSuffix(SubSeq(s, off + 1, Len(s)), s) /\ Len(SubSeq(s, off + 1, Len(s))) = Len(s) - off /\ Len(s) \in Nat
    BY <2>2, SuffixIs, SuffixLen
  <2>4. IsSuffix(r, s) /\ Len(s) - Len(r) = off
    BY <2>2, <2>3
  <2> QED BY <2>2, <2>4 DEF s, r
<1>11. \A t \in ClockTrack(c) : t \in DOMAIN c
  <2>1. DOMAIN c = 1 .. Len(c) /\ Len(c) \in Nat
    BY CarrierTyped
  <2>2. 1 \in DOMAIN c
    BY <1>3, <2>1
  <2> QED BY <2>2 DEF ClockTrack, First
<1> QED BY <1>6, <1>10, <1>11

-----------------------------------------------------------------------------
(* What locking makes of cells, units and tracks is of their kind.           *)

Locks == {Plain, Noise} \cup Label
Data == Seq(AnyCell) \ {<<>>}

(* Locking a cell writes its lock field alone.                               *)
LEMMA CellTyped ==
  ASSUME NEW c \in AnyCell, NEW lock \in Locks
  PROVE  /\ c.of \in STRING \cup {None} /\ c.part \in Nat /\ c.size \in {1, 2} /\ c.gop \in BOOLEAN /\ c.lock \in Locks
         /\ [c EXCEPT !.lock = lock] \in AnyCell
         /\ [c EXCEPT !.lock = lock] = [of |-> c.of, part |-> c.part, size |-> c.size, gop |-> c.gop, lock |-> lock]
         /\ c = [of |-> c.of, part |-> c.part, size |-> c.size, gop |-> c.gop, lock |-> c.lock]
  BY DEF AnyCell, Locks

(* What it writes there is a lock.                                           *)
LEMMA RelabelledTyped ==
  ASSUME NEW lock \in Locks, NEW label \in Label, NEW forward
  PROVE  Relabelled(lock, label, forward) \in Locks
  BY DEF Relabelled, Locks

(* A picture is whole.                                                       *)
LEMMA PictureFacts ==
  ASSUME NEW of \in STRING \cup {None}, NEW size \in {1, 2}, NEW gop \in BOOLEAN, NEW lock \in Locks
  PROVE  LET p == Picture(of, size, gop, lock)
         IN  /\ p \in Data /\ Len(p) \in Nat \ {0} /\ DOMAIN p = 1 .. Len(p)
             /\ Len(p) = (IF lock = Plain THEN size ELSE 3 - size)
             /\ \A k \in 1 .. Len(p) : p[k] = [of |-> of, part |-> k, size |-> size, gop |-> gop /\ k = 1, lock |-> lock]
             /\ p[1].of = of /\ p[1].size = size /\ p[1].gop = gop /\ p[1].lock = lock
             /\ PictureWhole(p)
<1> DEFINE n == IF lock = Plain THEN size ELSE 3 - size
           p == Picture(of, size, gop, lock)
           cell(k) == [of |-> of, part |-> k, size |-> size, gop |-> gop /\ k = 1, lock |-> lock]
<1>1. n \in Nat \ {0} /\ 1 \in 1 .. n
  OBVIOUS
<1>2. p = [k \in 1 .. n |-> cell(k)]
  BY DEF Picture
<1> HIDE DEF p, n
<1>3. \A k \in 1 .. n : cell(k) \in AnyCell
  BY DEF AnyCell, Locks
<1>4. p \in [1 .. n -> AnyCell] /\ DOMAIN p = 1 .. n /\ \A k \in 1 .. n : p[k] = cell(k)
  <2> HIDE DEF cell
  <2> QED BY <1>2, <1>3
<1>5. p \in Seq(AnyCell) /\ Len(p) = n
  BY <1>1, <1>4
<1>6. p # <<>>
  BY <1>1, <1>5
<1>7. p[1].of = of /\ p[1].size = size /\ p[1].lock = lock
  BY <1>1, <1>4
<1>8. p[1].gop = gop
  <2>1. p[1] = cell(1)
    BY <1>1, <1>4
  <2>2. p[1].gop = (gop /\ 1 = 1)
    BY <2>1
  <2>3. (gop /\ 1 = 1) = gop
    OBVIOUS
  <2> QED BY ONLY <2>2, <2>3
<1>9. PictureWhole(p)
  BY <1>7, <1>8 DEF PictureWhole, p
<1> QED BY <1>1, <1>4, <1>5, <1>6, <1>7, <1>8, <1>9 DEF p, n, Data

(* A picture that went through FFedit is not empty.                          *)
LEMMA LockPictureTyped ==
  ASSUME NEW x \in Data, NEW label \in Label, NEW forward
  PROVE  /\ LockPicture(x, label, forward) \in Data
         /\ Len(LockPicture(x, label, forward)) \in Nat \ {0}
<1>1. x \in Seq(AnyCell) /\ x # <<>> /\ Len(x) \in Nat \ {0} /\ x[1] \in AnyCell
  BY DEF Data
<1>2. /\ x[1].of \in STRING \cup {None} /\ x[1].size \in {1, 2} /\ x[1].gop \in BOOLEAN /\ x[1].lock \in Locks
      /\ Relabelled(x[1].lock, label, forward) \in Locks
  <2> DEFINE a == x[1]
  <2>1. a \in AnyCell
    BY <1>1
  <2> HIDE DEF a
  <2>2. a.of \in STRING \cup {None} /\ a.size \in {1, 2} /\ a.gop \in BOOLEAN /\ a.lock \in Locks
    BY <2>1 DEF AnyCell, Locks
  <2>3. Relabelled(a.lock, label, forward) \in Locks
    BY <2>2, RelabelledTyped
  <2> QED BY <2>2, <2>3 DEF a
<1>3. CASE PictureWhole(x)
  <2>1. LockPicture(x, label, forward) =
            Picture(x[1].of, x[1].size, x[1].gop, Relabelled(x[1].lock, label, forward))
    BY <1>3 DEF LockPicture
  <2> DEFINE of == x[1].of
             size == x[1].size
             gop == x[1].gop
             lock == Relabelled(x[1].lock, label, forward)
             y == LockPicture(x, label, forward)
  <2>2. of \in STRING \cup {None} /\ size \in {1, 2} /\ gop \in BOOLEAN /\ lock \in Locks
    BY <1>2
  <2>3. y = Picture(of, size, gop, lock)
    BY <2>1
  <2> HIDE DEF of, size, gop, lock, y
  <2>4. LET p == Picture(of, size, gop, lock) IN p \in Data /\ Len(p) \in Nat \ {0}
    BY ONLY <2>2, PictureFacts
  <2> QED BY ONLY <2>3, <2>4 DEF y
<1>4. CASE ~ PictureWhole(x)
  <2> DEFINE y == [k \in DOMAIN x |-> [x[k] EXCEPT !.lock = Noise]]
  <2>1. LockPicture(x, label, forward) = y
    BY <1>4 DEF LockPicture
  <2>2. \A k \in 1 .. Len(x) : [x[k] EXCEPT !.lock = Noise] \in AnyCell
    <3> TAKE k \in 1 .. Len(x)
    <3>1. x[k] \in AnyCell /\ Noise \in Locks
      BY <1>1 DEF Locks
    <3> QED BY <3>1, CellTyped
  <2>3. y \in [1 .. Len(x) -> AnyCell]
    BY <1>1, <2>2
  <2>4. y \in Seq(AnyCell) /\ Len(y) = Len(x)
    <3> HIDE DEF y
    <3> QED BY <1>1, <2>3
  <2>5. y # <<>>
    BY <1>1, <2>4
  <2> HIDE DEF y
  <2> QED BY <1>1, <2>1, <2>4, <2>5 DEF Data
<1> QED BY <1>3, <1>4

(* A segment falls into pieces that are not empty.                           *)
LEMMA DelimitersFacts ==
  ASSUME NEW x \in Seq(AnyCell)
  PROVE  /\ Within(Delimiters(x), x) /\ Len(Delimiters(x)) \in Nat
         /\ Pieces(x, Delimiters(x)) \in Seq(Data) /\ Len(Pieces(x, Delimiters(x))) = Len(Delimiters(x))
<1> DEFINE T == {i \in DOMAIN x : x[i].part = 1}
           s == Delimiters(x)
<1>1. Len(x) \in Nat /\ DOMAIN x = 1 .. Len(x) /\ T \subseteq 1 .. Len(x)
  OBVIOUS
<1>2. s = Ascending(T)
  BY DEF Delimiters
<1>3. /\ s \in Seq(T) /\ Rising(s) /\ Len(s) \in Nat /\ \A i \in DOMAIN s : s[i] \in T
  BY <1>1, <1>2, AscendingFacts
<1> HIDE DEF s, T
<1>4. Within(s, x)
  <2>1. \A i \in 1 .. Len(s) : s[i] \in Nat
    <3> TAKE i \in 1 .. Len(s)
    <3>1. DOMAIN s = 1 .. Len(s)
      BY <1>3
    <3>2. s[i] \in T
      BY <1>3, <3>1
    <3>3. s[i] \in 1 .. Len(x)
      BY ONLY <1>1, <3>2
    <3> QED BY <1>1, <3>3
  <2>2. s \in Seq(Nat)
    <3>1. s = [i \in 1 .. Len(s) |-> s[i]]
      BY <1>3
    <3>2. s \in [1 .. Len(s) -> Nat]
      BY ONLY <2>1, <3>1
    <3> QED BY ONLY <1>3, <3>2
  <2> QED BY <1>1, <1>3, <2>2 DEF Within
<1>5. /\ Pieces(x, s) \in Seq(Seq(AnyCell)) /\ Len(Pieces(x, s)) = Len(s)
      /\ \A k \in 1 .. Len(s) : Pieces(x, s)[k] \in Seq(AnyCell) /\ Len(Pieces(x, s)[k]) \in Nat \ {0}
  <2>1. Pieces(x, s) \in Seq(Seq(AnyCell)) /\ Len(Pieces(x, s)) = Len(s)
    BY <1>4, PiecesTyped
  <2>2. ASSUME NEW k \in 1 .. Len(s)
        PROVE  Pieces(x, s)[k] \in Seq(AnyCell) /\ Len(Pieces(x, s)[k]) \in Nat \ {0}
    BY <1>4, PiecesTyped
  <2> QED BY <2>1, <2>2
<1> DEFINE p == Pieces(x, s)
<1>6. \A k \in 1 .. Len(p) : p[k] \in Data
  <2> TAKE k \in 1 .. Len(p)
  <2>1. p[k] \in Seq(AnyCell) /\ Len(p[k]) \in Nat \ {0}
    BY <1>5
  <2> HIDE DEF p
  <2>2. p[k] # <<>>
    BY <2>1
  <2> QED BY <2>1, <2>2 DEF Data
<1> HIDE DEF p
<1>7. p \in Seq(Data)
  <2>1. p \in Seq(Seq(AnyCell))
    BY <1>5 DEF p
  <2>2. p = [k \in 1 .. Len(p) |-> p[k]] /\ Len(p) \in Nat
    BY <2>1
  <2>3. p \in [1 .. Len(p) -> Data]
    BY <1>6, <2>2
  <2> QED BY <2>2, <2>3
<1> QED BY <1>3, <1>4, <1>5, <1>7 DEF s, p

LEMMA PartTyped ==
  ASSUME NEW x \in Seq(AnyCell), NEW n \in Int, n <= Len(x)
  PROVE  SubSeq(x, 1, n) \in Seq(AnyCell)
<1>1. CASE n \in Nat
  BY <1>1, SeqSlice
<1>2. CASE n \notin Nat
  <2>1. 1 > n
    BY <1>2
  <2>2. SubSeq(x, 1, n) = <<>>
    BY <2>1
  <2> QED BY <2>2
<1> QED BY <1>1, <1>2

(* Pictures, each locked under its number.                                    *)
LockedPictures(ps, number, forward) == [k \in DOMAIN ps |-> LockPicture(ps[k], <<number, k>>, forward)]

LEMMA LockedPicturesTyped ==
  ASSUME NEW ps \in Seq(Data), NEW number \in Nat, NEW forward
  PROVE  /\ LockedPictures(ps, number, forward) \in Seq(Data) /\ ps \in Seq(Seq(AnyCell))
         /\ LockedPictures(ps, number, forward) \in Seq(Seq(AnyCell))
         /\ Len(LockedPictures(ps, number, forward)) = Len(ps) /\ Len(ps) \in Nat
         /\ \A k \in 1 .. Len(ps) : LockedPictures(ps, number, forward)[k] = LockPicture(ps[k], <<number, k>>, forward)
<1> DEFINE q == LockedPictures(ps, number, forward)
<1>1. Len(ps) \in Nat /\ DOMAIN ps = 1 .. Len(ps) /\ \A k \in 1 .. Len(ps) : ps[k] \in Data
  OBVIOUS
<1>2. \A k \in 1 .. Len(ps) : LockPicture(ps[k], <<number, k>>, forward) \in Data
  <2> TAKE k \in 1 .. Len(ps)
  <2>1. <<number, k>> \in Label /\ ps[k] \in Data
    BY <1>1 DEF Label
  <2> QED BY <2>1, LockPictureTyped
<1>3. q = [k \in 1 .. Len(ps) |-> LockPicture(ps[k], <<number, k>>, forward)]
  BY <1>1 DEF LockedPictures
<1>4. q \in [1 .. Len(ps) -> Data]
  BY <1>2, <1>3
<1>5. \A k \in 1 .. Len(ps) : q[k] = LockPicture(ps[k], <<number, k>>, forward)
  BY <1>3
<1> HIDE DEF q
<1>6. q \in Seq(Data) /\ Len(q) = Len(ps)
  BY <1>1, <1>4
<1>7. \A y \in Seq(Data) : y \in Seq(Seq(AnyCell))
  BY DEF Data
<1> QED BY <1>1, <1>5, <1>6, <1>7 DEF q

(* A segment that went through FFedit is cells.                              *)
LEMMA LockSegmentTyped ==
  ASSUME NEW x \in Seq(AnyCell), NEW number \in Nat, NEW forward
  PROVE  LockSegment(x, number, forward) \in Seq(AnyCell)
<1> DEFINE ps == Pieces(x, Delimiters(x))
           a == SubSeq(x, 1, Len(x) - Len(FlattenSeq(ps)))
           b == FlattenSeq(LockedPictures(ps, number, forward))
<1>1. LockSegment(x, number, forward) = a \o b
  BY DEF LockSegment, LockedPictures
<1>2. ps \in Seq(Data)
  BY DelimitersFacts
<1> HIDE DEF ps
<1>3. ps \in Seq(Seq(AnyCell)) /\ LockedPictures(ps, number, forward) \in Seq(Seq(AnyCell))
  BY <1>2, LockedPicturesTyped
<1>4. Len(FlattenSeq(ps)) \in Nat /\ b \in Seq(AnyCell)
  BY <1>3, FlattenTyped
<1>5. Len(x) \in Nat
  OBVIOUS
<1>6. a \in Seq(AnyCell)
  <2> DEFINE n == Len(x) - Len(FlattenSeq(ps))
  <2>1. n \in Int /\ n <= Len(x)
    BY <1>4, <1>5
  <2> HIDE DEF n
  <2>2. SubSeq(x, 1, n) \in Seq(AnyCell)
    BY <2>1, PartTyped
  <2> QED BY <2>2 DEF n
<1> HIDE DEF a, b
<1> QED BY <1>1, <1>4, <1>6

-----------------------------------------------------------------------------
(* Groups of pictures.                                                       *)

\* Where every e-th of n begins.
Parcels(n, e) == (n + e - 1) \div e
Leads(k, e) == (k - 1) * e + 1

(* Every e-th of n: at least one, the first first, and rising.               *)
LEMMA ParcelFacts ==
  ASSUME NEW n \in Nat \ {0}, NEW e \in Nat \ {0}
  PROVE  /\ Parcels(n, e) \in Nat \ {0} /\ Leads(1, e) = 1
         /\ \A k \in 1 .. Parcels(n, e) : Leads(k, e) \in 1 .. n
         /\ \A k, l \in 1 .. Parcels(n, e) : k < l => Leads(k, e) < Leads(l, e)
<1> DEFINE m == Parcels(n, e)
<1>1. m \in Int /\ m * e <= n + e - 1 /\ n + e - 1 < m * e + e
  BY DEF Parcels
<1> HIDE DEF m
<1>2. m >= 1
  <2> SUFFICES ASSUME m <= 0 PROVE FALSE
    BY <1>1
  <2>1. m * e <= 0
    BY <1>1
  <2> QED BY <1>1, <2>1
<1>3. ASSUME NEW k \in 1 .. m
      PROVE  Leads(k, e) \in 1 .. n
  <2>1. k - 1 \in Nat /\ k - 1 <= m - 1
    BY <1>1
  <2>2. (k - 1) * e >= 0 /\ (k - 1) * e \in Int
    BY <2>1
  <2>3. (k - 1) * e <= (m - 1) * e
    BY <1>1, <2>1
  <2>4. (m - 1) * e = m * e - e
    BY <1>1
  <2> QED BY <1>1, <2>2, <2>3, <2>4 DEF Leads
<1>4. ASSUME NEW k \in 1 .. m, NEW l \in 1 .. m, k < l
      PROVE  Leads(k, e) < Leads(l, e)
  <2>1. k \in Int /\ l \in Int /\ k + 1 <= l
    BY <1>1, <1>4
  <2>2. (k - 1) * e + e = k * e /\ k * e <= (l - 1) * e
    BY <2>1
  <2>3. (k - 1) * e \in Int /\ (l - 1) * e \in Int
    BY <2>1
  <2> QED BY <2>2, <2>3 DEF Leads
<1>5. Leads(1, e) = 1
  BY DEF Leads
<1> QED BY <1>1, <1>2, <1>3, <1>4, <1>5 DEF m

\* Where the groups begin.
GroupStarts(us, n) ==
    [k \in 1 .. Parcels(Len(GopStarts(us)), PerSegment(n)) |-> GopStarts(us)[Leads(k, PerSegment(n))]]

(* The groups are the pieces that begin there.                               *)
LEMMA GroupsIs ==
  ASSUME NEW us, NEW n
  PROVE  Groups(us, n) = IF GopStarts(us) = <<>> THEN None
                         ELSE IF Head(GopStarts(us)) # 1 THEN None
                         ELSE Pieces(us, GroupStarts(us, n))
  BY DEF Groups, GroupStarts, Parcels, Leads

(* The units with a GOP marker, rising.                                      *)
LEMMA GopStartsFacts ==
  ASSUME NEW us \in Seq(AnyUnit)
  PROVE  /\ GopStarts(us) \in Seq(1 .. Len(us)) /\ Rising(GopStarts(us)) /\ Len(GopStarts(us)) \in Nat
         /\ \A k \in 1 .. Len(GopStarts(us)) : GopStarts(us)[k] \in 1 .. Len(us)
<1> DEFINE T == {i \in DOMAIN us : \E k \in DOMAIN us[i].data : us[i].data[k].gop}
           s == GopStarts(us)
<1>1. Len(us) \in Nat /\ DOMAIN us = 1 .. Len(us) /\ T \subseteq 1 .. Len(us)
  OBVIOUS
<1>2. s = Ascending(T)
  BY DEF GopStarts
<1>3. /\ s \in Seq(T) /\ Rising(s) /\ Len(s) \in Nat /\ \A i \in DOMAIN s : s[i] \in T
  BY <1>1, <1>2, AscendingFacts
<1> HIDE DEF s, T
<1>4. \A k \in 1 .. Len(s) : s[k] \in 1 .. Len(us)
  <2> TAKE k \in 1 .. Len(s)
  <2>1. DOMAIN s = 1 .. Len(s)
    BY <1>3
  <2>2. s[k] \in T
    BY <1>3, <2>1
  <2> QED BY ONLY <1>1, <2>2
<1>5. s \in Seq(1 .. Len(us))
  <2>1. s = [i \in 1 .. Len(s) |-> s[i]]
    BY <1>3
  <2>2. s \in [1 .. Len(s) -> 1 .. Len(us)]
    BY ONLY <1>4, <2>1
  <2> QED BY ONLY <1>3, <2>2
<1> QED BY <1>3, <1>4, <1>5 DEF s

(* The groups are not empty, and joined they are the track.                  *)
LEMMA GroupsFacts ==
  ASSUME NEW us \in Seq(AnyUnit), NEW n \in Int
  PROVE  /\ Groups(us, n) = None <=> (GopStarts(us) = <<>> \/ Head(GopStarts(us)) # 1)
         /\ Groups(us, n) # None =>
              LET gs == GroupStarts(us, n)
                  p == Groups(us, n)
              IN  /\ Within(gs, us) /\ gs # <<>> /\ gs[1] = 1 /\ p = Pieces(us, gs) /\ us # <<>>
                  /\ p \in Seq(Seq(AnyUnit)) /\ Len(p) = Len(gs) /\ Len(gs) \in Nat \ {0} /\ DOMAIN p = 1 .. Len(gs)
                  /\ FlattenSeq(p) = us
                  /\ \A k \in 1 .. Len(gs) : Upto(p, k - 1) + 1 = gs[k]
                  /\ \A k \in 1 .. Len(gs) : p[k] \in Seq(AnyUnit) /\ Len(p[k]) \in Nat \ {0}
<1> DEFINE st == GopStarts(us)
           e == PerSegment(n)
           gs == GroupStarts(us, n)
           p == Pieces(us, gs)
<1>1. st \in Seq(1 .. Len(us)) /\ Rising(st) /\ Len(st) \in Nat /\ \A k \in 1 .. Len(st) : st[k] \in 1 .. Len(us)
  BY GopStartsFacts
<1>2. e \in Nat \ {0}
  BY DEF PerSegment
<1>3. ASSUME st # <<>>, Head(st) = 1
      PROVE  /\ Within(gs, us) /\ gs # <<>> /\ gs[1] = 1 /\ us # <<>>
             /\ p \in Seq(Seq(AnyUnit)) /\ Len(p) = Len(gs) /\ Len(gs) \in Nat \ {0} /\ DOMAIN p = 1 .. Len(gs)
             /\ FlattenSeq(p) = us
             /\ \A k \in 1 .. Len(gs) : Upto(p, k - 1) + 1 = gs[k]
             /\ \A k \in 1 .. Len(gs) : p[k] \in Seq(AnyUnit) /\ Len(p[k]) \in Nat \ {0}
  <2> DEFINE N == Len(st)
             m == Parcels(N, e)
  <2>1. N \in Nat \ {0} /\ st[1] = 1 /\ DOMAIN st = 1 .. N
    BY <1>1, <1>3
  <2>2. /\ m \in Nat \ {0} /\ Leads(1, e) = 1
        /\ \A k \in 1 .. m : Leads(k, e) \in 1 .. N
        /\ \A k, l \in 1 .. m : k < l => Leads(k, e) < Leads(l, e)
    <3> HIDE DEF N, e
    <3> QED BY <1>2, <2>1, ParcelFacts
  <2>3. gs = [k \in 1 .. m |-> st[Leads(k, e)]]
    BY DEF GroupStarts
  <2> HIDE DEF gs, m, e, st
  <2>4. DOMAIN gs = 1 .. m /\ \A k \in 1 .. m : gs[k] = st[Leads(k, e)] /\ gs[k] \in 1 .. Len(us) /\ gs[k] \in Nat
    <3>1. \A k \in 1 .. m : st[Leads(k, e)] \in 1 .. Len(us)
      BY <1>1, <2>2 DEF N
    <3> QED BY <2>3, <3>1
  <2>5. gs \in Seq(Nat) /\ Len(gs) = m
    <3>1. gs \in [1 .. m -> Nat]
      <4>1. gs = [k \in 1 .. m |-> gs[k]]
        BY <2>3
      <4> QED BY ONLY <2>4, <4>1
    <3> QED BY <2>2, <3>1
  <2>6. Rising(gs)
    <3> SUFFICES ASSUME NEW k \in 1 .. m, NEW l \in 1 .. m, k < l
                 PROVE  gs[k] < gs[l]
      BY <2>4 DEF Rising
    <3>1. Leads(k, e) \in DOMAIN st /\ Leads(l, e) \in DOMAIN st /\ Leads(k, e) < Leads(l, e)
      BY <2>1, <2>2
    <3>2. st[Leads(k, e)] < st[Leads(l, e)]
      BY <1>1, <3>1 DEF Rising
    <3> QED BY <2>4, <3>2
  <2>7. Within(gs, us)
    BY <2>4, <2>5, <2>6 DEF Within
  <2>8. gs # <<>> /\ gs[1] = 1
    <3>1. 1 \in 1 .. m
      BY <2>2
    <3>2. gs[1] = 1
      BY <2>1, <2>2, <2>4, <3>1
    <3> QED BY <2>2, <2>5, <3>2
  <2>9. us # <<>>
    <3>1. 1 \in 1 .. Len(us)
      BY <2>2, <2>4, <2>8
    <3> QED BY <3>1
  <2>10. FlattenSeq(p) = us /\ \A k \in 1 .. Len(gs) : Upto(p, k - 1) + 1 = gs[k]
    BY <2>7, <2>8, FlattenOfPieces
  <2>11. p \in Seq(Seq(AnyUnit)) /\ Len(p) = Len(gs)
    BY <2>7, PiecesTyped
  <2>12. ASSUME NEW k \in 1 .. Len(gs)
         PROVE  p[k] \in Seq(AnyUnit) /\ Len(p[k]) \in Nat \ {0}
    BY <2>7, PiecesTyped
  <2>13. DOMAIN p = 1 .. Len(gs)
    <3> HIDE DEF p
    <3> QED BY <2>11
  <2> QED BY <2>2, <2>5, <2>7, <2>8, <2>9, <2>10, <2>11, <2>12, <2>13
<1>4. Groups(us, n) = IF st = <<>> THEN None ELSE IF Head(st) # 1 THEN None ELSE p
  BY GroupsIs
<1>5. ASSUME st # <<>>, Head(st) = 1
      PROVE  Groups(us, n) = p /\ Groups(us, n) # None
  <2>1. p \in Seq(Seq(AnyUnit))
    BY <1>3, <1>5
  <2> HIDE DEF p, st
  <2>2. None \notin Seq(Seq(AnyUnit))
    BY TransportAssumption
  <2> QED BY <1>4, <1>5, <2>1, <2>2
<1>6. Groups(us, n) = None <=> (st = <<>> \/ Head(st) # 1)
  <2> HIDE DEF p, st
  <2> QED BY <1>4, <1>5
<1>7. ASSUME Groups(us, n) # None
      PROVE  st # <<>> /\ Head(st) = 1 /\ Groups(us, n) = p
  BY <1>5, <1>6, <1>7
<1> HIDE DEF p, gs, st
<1> QED BY <1>3, <1>6, <1>7 DEF p, gs, st

\* The data of each unit; one group after its transform; all of them, joined.
Members(us) == [i \in DOMAIN us |-> us[i].data]
Transformed(group, number, forward) == LockSegment(Concat(group), number, forward)
Fits(group, number, forward) == ~ SplitFails(Transformed(group, number, forward), group)
Rebuilt(group, number, forward) ==
    [i \in DOMAIN group |->
        [group[i] EXCEPT !.data = Split(Transformed(group, number, forward), group)[i]]]
RebuiltGroups(us, n, forward) ==
    [g \in DOMAIN Groups(us, n) |-> Rebuilt(Groups(us, n)[g], Number(g), forward)]
VideoJoin(us, n, forward) == FlattenSeq(RebuiltGroups(us, n, forward))
AllFit(us, n, forward) == \A g \in DOMAIN Groups(us, n) : Fits(Groups(us, n)[g], Number(g), forward)

(* The data of the units, joined, is that of the track.                      *)
LEMMA MembersFacts ==
  ASSUME NEW us \in Seq(AnyUnit)
  PROVE  /\ Members(us) \in Seq(Data) /\ Members(us) \in Seq(Seq(AnyCell)) /\ Len(Members(us)) = Len(us)
         /\ Len(us) \in Nat
         /\ \A i \in 1 .. Len(us) : Members(us)[i] = us[i].data /\ us[i].data \in Data /\ Len(us[i].data) \in Nat \ {0}
         /\ Concat(us) = FlattenSeq(Members(us)) /\ Concat(us) \in Seq(AnyCell)
<1> DEFINE m == Members(us)
<1>1. Len(us) \in Nat /\ DOMAIN us = 1 .. Len(us)
  OBVIOUS
<1>2. ASSUME NEW i \in 1 .. Len(us)
      PROVE  us[i].data \in Data /\ Len(us[i].data) \in Nat \ {0}
  <2> DEFINE x == us[i].data
  <2>1. us[i] \in AnyUnit
    OBVIOUS
  <2>2. x \in Seq(AnyCell) /\ x # <<>>
    BY <2>1 DEF AnyUnit
  <2> HIDE DEF x
  <2>3. x \in Data /\ Len(x) \in Nat \ {0}
    BY <2>2 DEF Data
  <2> QED BY <2>3 DEF x
<1>3. m = [i \in 1 .. Len(us) |-> us[i].data]
  BY <1>1 DEF Members
<1>4. m \in [1 .. Len(us) -> Data] /\ \A i \in 1 .. Len(us) : m[i] = us[i].data
  BY <1>2, <1>3
<1>5. Concat(us) = FlattenSeq(m)
  BY DEF Concat, Members
<1> HIDE DEF m
<1>6. m \in Seq(Data) /\ Len(m) = Len(us)
  BY <1>1, <1>4
<1>7. \A y \in Seq(Data) : y \in Seq(Seq(AnyCell))
  BY DEF Data
<1>8. Concat(us) \in Seq(AnyCell)
  BY <1>5, <1>6, <1>7, FlattenTyped
<1> QED BY <1>1, <1>2, <1>4, <1>5, <1>6, <1>7, <1>8 DEF m

(* Rewriting a unit writes its data alone.                                   *)
LEMMA UnitWith ==
  ASSUME NEW u \in AnyUnit, NEW x \in Data
  PROVE  /\ [u EXCEPT !.data = x] = [pts |-> u.pts, dts |-> u.dts, data |-> x]
         /\ [u EXCEPT !.data = x] \in AnyUnit
         /\ u = [pts |-> u.pts, dts |-> u.dts, data |-> u.data] /\ u.data \in Data
         /\ u.pts \in Times \cup {None} /\ u.dts \in Times \cup {None}
  BY DEF AnyUnit, Data

(* A group that fits keeps its units and their times.                        *)
LEMMA RebuiltFacts ==
  ASSUME NEW group \in Seq(AnyUnit), NEW number \in Nat, NEW forward, Fits(group, number, forward)
  PROVE  LET r == Rebuilt(group, number, forward)
             x == Split(Transformed(group, number, forward), group)
         IN  /\ r \in Seq(AnyUnit) /\ Len(r) = Len(group) /\ Len(group) \in Nat
             /\ x \in Seq(Data) /\ Len(x) = Len(group)
             /\ \A i \in 1 .. Len(group) :
                    r[i] = [pts |-> group[i].pts, dts |-> group[i].dts, data |-> x[i]]
<1> DEFINE r == Rebuilt(group, number, forward)
           out == Transformed(group, number, forward)
           x == Split(out, group)
<1>1. out \in Seq(AnyCell)
  <2>1. Concat(group) \in Seq(AnyCell)
    BY MembersFacts
  <2> QED BY <2>1, LockSegmentTyped DEF Transformed
<1> HIDE DEF out
<1>2. Len(Delimiters(out)) = Len(group)
  BY DEF Fits, SplitFails, out
<1>3. x \in Seq(Data) /\ Len(x) = Len(group)
  BY <1>1, <1>2, DelimitersFacts DEF Split
<1>4. Len(group) \in Nat /\ DOMAIN group = 1 .. Len(group)
  OBVIOUS
<1>5. r = [i \in 1 .. Len(group) |-> [group[i] EXCEPT !.data = x[i]]]
  BY <1>4 DEF Rebuilt, out
<1> HIDE DEF r, x
<1>6. ASSUME NEW i \in 1 .. Len(group)
      PROVE  /\ [group[i] EXCEPT !.data = x[i]] \in AnyUnit
             /\ [group[i] EXCEPT !.data = x[i]] = [pts |-> group[i].pts, dts |-> group[i].dts, data |-> x[i]]
  <2>1. group[i] \in AnyUnit /\ x[i] \in Data
    BY <1>3
  <2> QED BY <2>1, UnitWith
<1>7. r \in [1 .. Len(group) -> AnyUnit]
  BY <1>5, <1>6
<1>8. r \in Seq(AnyUnit) /\ Len(r) = Len(group)
  BY <1>4, <1>7
<1>9. \A i \in 1 .. Len(group) : r[i] = [pts |-> group[i].pts, dts |-> group[i].dts, data |-> x[i]]
  BY <1>5, <1>6
<1> QED BY <1>3, <1>4, <1>8, <1>9 DEF r, x, out

(* The k-th unit is the j-th of group g.                                      *)
IsAt(us, n, k, g, j) ==
    /\ g \in 1 .. Len(GroupStarts(us, n)) /\ j \in 1 .. Len(Groups(us, n)[g]) /\ k = GroupStarts(us, n)[g] + j - 1

(* Each unit is in a group.                                                  *)
LEMMA GroupOf ==
  ASSUME NEW us \in Seq(AnyUnit), NEW n \in Int, Groups(us, n) # None
  PROVE  /\ \A k \in 1 .. Len(us) : \E g, j : IsAt(us, n, k, g, j)
         /\ \A k, g, j : IsAt(us, n, k, g, j) => k \in 1 .. Len(us) /\ us[k] = Groups(us, n)[g][j]
<1> DEFINE gs == GroupStarts(us, n)
           p == Groups(us, n)
<1>1. /\ p \in Seq(Seq(AnyUnit)) /\ Len(p) = Len(gs) /\ Len(gs) \in Nat
      /\ FlattenSeq(p) = us /\ \A k \in 1 .. Len(gs) : Upto(p, k - 1) + 1 = gs[k]
  BY GroupsFacts
<1> HIDE DEF gs, p
<1>2. ASSUME NEW k \in 1 .. Len(us)
      PROVE  \E g, j : IsAt(us, n, k, g, j)
  <2>1. k \in 1 .. Len(FlattenSeq(p))
    BY <1>1
  <2>2. PICK g \in 1 .. Len(p) : \E j \in 1 .. Len(p[g]) : k = Upto(p, g - 1) + j
    BY <1>1, <2>1, FlattenFind
  <2>3. PICK j \in 1 .. Len(p[g]) : k = Upto(p, g - 1) + j
    BY <2>2
  <2>4. Upto(p, g - 1) \in Nat /\ Len(p[g]) \in Nat
    BY <1>1, FlattenAt
  <2>5. k = gs[g] + j - 1
    <3>1. gs[g] = Upto(p, g - 1) + 1
      BY <1>1
    <3> QED BY <2>3, <2>4, <3>1
  <2>6. g \in 1 .. Len(gs)
    BY <1>1
  <2>7. IsAt(us, n, k, g, j)
    BY <2>5, <2>6 DEF IsAt, gs, p
  <2> QED BY <2>7
<1>3. ASSUME NEW k, NEW g, NEW j, IsAt(us, n, k, g, j)
      PROVE  k \in 1 .. Len(us) /\ us[k] = p[g][j]
  <2>1. g \in 1 .. Len(p) /\ j \in 1 .. Len(p[g]) /\ k = gs[g] + j - 1
    BY <1>1, <1>3 DEF IsAt, gs, p
  <2>2. /\ Upto(p, g - 1) \in Nat /\ Upto(p, g) = Upto(p, g - 1) + Len(p[g]) /\ Upto(p, g) <= Len(FlattenSeq(p))
        /\ Len(p[g]) \in Nat
        /\ \A i \in 1 .. Len(p[g]) : FlattenSeq(p)[Upto(p, g - 1) + i] = p[g][i]
    BY <1>1, <2>1, FlattenAt
  <2>3. k = Upto(p, g - 1) + j
    <3>1. gs[g] = Upto(p, g - 1) + 1
      BY <1>1, <2>1
    <3> QED BY <2>1, <2>2, <3>1
  <2>4. Len(us) \in Nat
    OBVIOUS
  <2>5. us[k] = p[g][j]
    BY <1>1, <2>1, <2>2, <2>3
  <2>6. k \in 1 .. Len(us)
    BY <1>1, <2>1, <2>2, <2>3, <2>4
  <2> QED BY <2>5, <2>6
<1> QED BY <1>2, <1>3 DEF p

(* The first group is segment 1.                                             *)
LEMMA NumberIs == \A g \in Nat \ {0} : Number(g) = g /\ Number(g) \in Nat
  BY DEF Number, FirstSegment

(* The joined video has the units that went in, in their places.              *)
LEMMA VideoJoinFacts ==
  ASSUME NEW us \in Seq(AnyUnit), NEW n \in Int, NEW forward, Groups(us, n) # None, AllFit(us, n, forward)
  PROVE  LET v == VideoJoin(us, n, forward)
         IN  /\ v \in Seq(AnyUnit) /\ Len(v) = Len(us)
             /\ \A k, g, j : IsAt(us, n, k, g, j) =>
                    /\ v[k] = Rebuilt(Groups(us, n)[g], Number(g), forward)[j]
                    /\ v[k] = [pts |-> us[k].pts, dts |-> us[k].dts, data |->
                          Split(Transformed(Groups(us, n)[g], Number(g), forward), Groups(us, n)[g])[j]]
<1> DEFINE gs == GroupStarts(us, n)
           p == Groups(us, n)
           q == RebuiltGroups(us, n, forward)
           v == VideoJoin(us, n, forward)
           b(g) == Rebuilt(p[g], Number(g), forward)
<1>1. /\ p \in Seq(Seq(AnyUnit)) /\ Len(p) = Len(gs) /\ Len(gs) \in Nat /\ DOMAIN p = 1 .. Len(p)
      /\ FlattenSeq(p) = us /\ \A k \in 1 .. Len(gs) : Upto(p, k - 1) + 1 = gs[k]
  BY GroupsFacts
<1>2. q = [g \in 1 .. Len(p) |-> b(g)]
  BY <1>1 DEF RebuiltGroups
<1>3. v = FlattenSeq(q)
  BY DEF VideoJoin
<1>4. \A g \in 1 .. Len(p) : Fits(p[g], Number(g), forward)
  BY <1>1 DEF AllFit
<1> HIDE DEF gs, p, q, v
<1>5. ASSUME NEW g \in 1 .. Len(p)
      PROVE  /\ p[g] \in Seq(AnyUnit) /\ Number(g) \in Nat
             /\ b(g) \in Seq(AnyUnit) /\ Len(b(g)) = Len(p[g])
             /\ \A i \in 1 .. Len(p[g]) : b(g)[i] = [pts |-> p[g][i].pts, dts |-> p[g][i].dts, data |->
                       Split(Transformed(p[g], Number(g), forward), p[g])[i]]
  <2>1. p[g] \in Seq(AnyUnit) /\ Number(g) \in Nat /\ Fits(p[g], Number(g), forward)
    BY <1>1, <1>4, NumberIs
  <2> DEFINE x == p[g]
             m == Number(g)
  <2> HIDE DEF x, m
  <2>2. LET r == Rebuilt(x, m, forward)
            y == Split(Transformed(x, m, forward), x)
        IN  /\ r \in Seq(AnyUnit) /\ Len(r) = Len(x)
            /\ \A i \in 1 .. Len(x) : r[i] = [pts |-> x[i].pts, dts |-> x[i].dts, data |-> y[i]]
    BY <2>1, RebuiltFacts DEF x, m
  <2> QED BY <2>1, <2>2 DEF x, m
<1>6. q \in Seq(Seq(AnyUnit)) /\ Len(q) = Len(p) /\ \A g \in 1 .. Len(p) : q[g] = b(g)
  <2>1. \A g \in 1 .. Len(p) : b(g) \in Seq(AnyUnit)
    BY <1>5
  <2> HIDE DEF b
  <2>2. q \in [1 .. Len(p) -> Seq(AnyUnit)]
    BY <1>2, <2>1
  <2>3. Len(p) \in Nat
    BY <1>1
  <2> QED BY <1>2, <2>2, <2>3
<1>7. \A k \in 0 .. Len(p) : Upto(p, k) = Upto(q, k)
  <2>1. \A k \in 1 .. Len(p) : Len(p[k]) = Len(q[k])
    BY <1>5, <1>6
  <2> QED BY <1>1, <1>6, <2>1, UptoSame
<1>8. v \in Seq(AnyUnit) /\ Len(v) = Len(us)
  <2>1. v \in Seq(AnyUnit)
    BY <1>3, <1>6, FlattenTyped
  <2>2. Upto(p, Len(p)) = Len(us) /\ Upto(q, Len(q)) = Len(v)
    BY <1>1, <1>3, <1>6, UptoFacts
  <2>3. Len(p) \in 0 .. Len(p)
    BY <1>1
  <2> QED BY <1>6, <1>7, <2>1, <2>2, <2>3
<1>9. ASSUME NEW k, NEW g, NEW j, IsAt(us, n, k, g, j)
      PROVE  v[k] = b(g)[j] /\ v[k] = [pts |-> us[k].pts, dts |-> us[k].dts, data |->
                          Split(Transformed(p[g], Number(g), forward), p[g])[j]]
  <2>1. g \in 1 .. Len(p) /\ j \in 1 .. Len(p[g]) /\ k = gs[g] + j - 1 /\ us[k] = p[g][j]
    <3>1. g \in 1 .. Len(p) /\ j \in 1 .. Len(p[g]) /\ k = gs[g] + j - 1
      BY <1>1, <1>9 DEF IsAt, gs, p
    <3>2. us[k] = p[g][j]
      BY ONLY us \in Seq(AnyUnit), n \in Int, Groups(us, n) # None, <1>9, GroupOf DEF p
    <3> QED BY <3>1, <3>2
  <2>2. /\ Upto(q, g - 1) \in Nat /\ \A i \in 1 .. Len(q[g]) : FlattenSeq(q)[Upto(q, g - 1) + i] = q[g][i]
    <3>1. g \in 1 .. Len(q)
      BY <1>6, <2>1
    <3> QED BY <1>6, <3>1, FlattenAt
  <2>3. k = Upto(q, g - 1) + j
    <3>1. gs[g] = Upto(p, g - 1) + 1
      BY <1>1, <2>1
    <3>2. g - 1 \in 0 .. Len(p)
      BY <1>1, <2>1
    <3>3. Upto(p, g - 1) = Upto(q, g - 1)
      BY <1>7, <3>2
    <3>4. j \in Nat
      <4>1. Len(p[g]) \in Nat
        BY <1>5, <2>1
      <4> QED BY <2>1, <4>1
    <3> QED BY <2>1, <2>2, <3>1, <3>3, <3>4
  <2>4. j \in 1 .. Len(q[g]) /\ q[g] = b(g)
    BY <1>5, <1>6, <2>1
  <2>5. v[k] = b(g)[j]
    BY <1>3, <2>2, <2>3, <2>4
  <2>6. b(g)[j] = [pts |-> p[g][j].pts, dts |-> p[g][j].dts, data |->
                       Split(Transformed(p[g], Number(g), forward), p[g])[j]]
    BY <1>5, <2>1
  <2> HIDE DEF b
  <2> QED BY <2>1, <2>5, <2>6
<1> QED BY <1>8, <1>9 DEF v, p

-----------------------------------------------------------------------------
(* Whole pictures are found again by their delimiters.                       *)

(* What a whole picture is made of.                                          *)
LEMMA WholeFacts ==
  ASSUME NEW x \in Data, PictureWhole(x)
  PROVE  /\ Len(x) \in Nat \ {0} /\ \A j \in 1 .. Len(x) : x[j].part = j
         /\ x[1].of \in STRING \cup {None} /\ x[1].size \in {1, 2} /\ x[1].gop \in BOOLEAN /\ x[1].lock \in Locks
         /\ x = Picture(x[1].of, x[1].size, x[1].gop, x[1].lock)
         /\ \A j \in 1 .. Len(x) : x[j] = [of |-> x[1].of, part |-> j, size |-> x[1].size,
                                           gop |-> x[1].gop /\ j = 1, lock |-> x[1].lock]
<1> DEFINE of == x[1].of
           size == x[1].size
           gop == x[1].gop
           lock == x[1].lock
<1>1. of \in STRING \cup {None} /\ size \in {1, 2} /\ gop \in BOOLEAN /\ lock \in Locks
  <2> DEFINE a == x[1]
  <2>1. a \in AnyCell
    <3>1. x \in Seq(AnyCell) /\ x # <<>>
      BY DEF Data
    <3> QED BY <3>1
  <2> HIDE DEF a
  <2>2. a.of \in STRING \cup {None} /\ a.size \in {1, 2} /\ a.gop \in BOOLEAN /\ a.lock \in Locks
    BY <2>1 DEF AnyCell, Locks
  <2> QED BY <2>2 DEF a
<1>2. x = Picture(of, size, gop, lock)
  BY DEF PictureWhole
<1> HIDE DEF of, size, gop, lock
<1>3. LET p == Picture(of, size, gop, lock)
      IN  /\ Len(p) \in Nat \ {0}
          /\ \A k \in 1 .. Len(p) : p[k] = [of |-> of, part |-> k, size |-> size, gop |-> gop /\ k = 1, lock |-> lock]
  BY ONLY <1>1, PictureFacts
<1>4. Len(x) \in Nat \ {0} /\ \A k \in 1 .. Len(x) : x[k] = [of |-> of, part |-> k, size |-> size, gop |-> gop /\ k = 1, lock |-> lock]
  BY ONLY <1>2, <1>3
<1>5. \A k \in 1 .. Len(x) : x[k].part = k
  <2> TAKE k \in 1 .. Len(x)
  <2> DEFINE g == gop /\ k = 1
  <2>1. x[k] = [of |-> of, part |-> k, size |-> size, gop |-> g, lock |-> lock]
    BY <1>4
  <2> HIDE DEF g
  <2> QED BY ONLY <2>1
<1> QED BY <1>1, <1>2, <1>4, <1>5 DEF of, size, gop, lock

(* Whole pictures, joined, fall into the same pictures.                      *)
LEMMA WholeDelimiters ==
  ASSUME NEW p \in Seq(Data), \A k \in 1 .. Len(p) : PictureWhole(p[k])
  PROVE  /\ FlattenSeq(p) \in Seq(AnyCell)
         /\ Pieces(FlattenSeq(p), Delimiters(FlattenSeq(p))) = p
         /\ Len(Delimiters(FlattenSeq(p))) = Len(p) /\ Len(p) \in Nat
         /\ p # <<>> => Delimiters(FlattenSeq(p)) # <<>> /\ Head(Delimiters(FlattenSeq(p))) = 1
<1> DEFINE D == FlattenSeq(p)
           T == {i \in DOMAIN D : D[i].part = 1}
           s == [k \in 1 .. Len(p) |-> Upto(p, k - 1) + 1]
<1>1. p \in Seq(Seq(AnyCell)) /\ Len(p) \in Nat
  BY DEF Data
<1>2. D \in Seq(AnyCell) /\ DOMAIN D = 1 .. Len(D) /\ Len(D) \in Nat
  <2>1. D \in Seq(AnyCell)
    BY <1>1, FlattenTyped
  <2> HIDE DEF D
  <2> QED BY <2>1
<1>3. ASSUME NEW k \in 1 .. Len(p)
      PROVE  /\ Len(p[k]) \in Nat \ {0} /\ Upto(p, k - 1) \in Nat /\ Upto(p, k) = Upto(p, k - 1) + Len(p[k])
             /\ Upto(p, k) <= Len(D)
             /\ \A j \in 1 .. Len(p[k]) : D[Upto(p, k - 1) + j] = p[k][j] /\ p[k][j].part = j
  <2>1. p[k] \in Data /\ PictureWhole(p[k])
    OBVIOUS
  <2>2. Len(p[k]) \in Nat \ {0} /\ \A j \in 1 .. Len(p[k]) : p[k][j].part = j
    BY <2>1, WholeFacts
  <2>3. /\ Upto(p, k - 1) \in Nat /\ Upto(p, k) = Upto(p, k - 1) + Len(p[k]) /\ Upto(p, k) <= Len(D)
        /\ \A j \in 1 .. Len(p[k]) : D[Upto(p, k - 1) + j] = p[k][j]
    BY <1>1, FlattenAt
  <2> HIDE DEF D
  <2> QED BY <2>2, <2>3
<1> HIDE DEF D
<1>4. \A k \in 1 .. Len(p) : s[k] = Upto(p, k - 1) + 1 /\ s[k] \in T /\ s[k] \in Nat
  <2> TAKE k \in 1 .. Len(p)
  <2>1. s[k] = Upto(p, k - 1) + 1
    OBVIOUS
  <2>2. 1 \in 1 .. Len(p[k]) /\ Upto(p, k - 1) + 1 \in 1 .. Len(D)
    BY <1>2, <1>3
  <2>3. D[Upto(p, k - 1) + 1].part = 1
    <3>1. \A j \in 1 .. Len(p[k]) : D[Upto(p, k - 1) + j] = p[k][j] /\ p[k][j].part = j
      BY <1>3
    <3>2. D[Upto(p, k - 1) + 1] = p[k][1] /\ p[k][1].part = 1
      BY ONLY <2>2, <3>1, Zenon
    <3> QED BY ONLY <3>2
  <2> QED BY <1>2, <2>1, <2>2, <2>3
<1>5. \A k, l \in 1 .. Len(p) : k < l => s[k] < s[l]
  <2> SUFFICES ASSUME NEW k \in 1 .. Len(p), NEW l \in 1 .. Len(p), k < l
               PROVE  s[k] < s[l]
    OBVIOUS
  <2>1. k \in 0 .. Len(p) /\ l - 1 \in 0 .. Len(p) /\ k <= l - 1
    BY <1>1
  <2>2. Upto(p, k) <= Upto(p, l - 1)
    BY <1>1, <2>1, UptoRises
  <2>3. Upto(p, k) = Upto(p, k - 1) + Len(p[k]) /\ Len(p[k]) \in Nat \ {0} /\ Upto(p, k - 1) \in Nat /\ Upto(p, l - 1) \in Nat
    BY <1>3
  <2> QED BY <1>4, <2>2, <2>3
<1>6. DOMAIN s = 1 .. Len(p)
  OBVIOUS
<1>7. ASSUME NEW a \in T
      PROVE  \E k \in 1 .. Len(p) : s[k] = a
  <2>1. a \in 1 .. Len(FlattenSeq(p)) /\ D[a].part = 1
    BY <1>2 DEF D
  <2>2. PICK k \in 1 .. Len(p) : \E j \in 1 .. Len(p[k]) : a = Upto(p, k - 1) + j
    BY <1>1, <2>1, FlattenFind
  <2>3. PICK j \in 1 .. Len(p[k]) : a = Upto(p, k - 1) + j
    BY <2>2
  <2>4. j = 1
    <3>1. \A i \in 1 .. Len(p[k]) : D[Upto(p, k - 1) + i] = p[k][i] /\ p[k][i].part = i
      BY <1>3
    <3>2. D[Upto(p, k - 1) + j] = p[k][j] /\ p[k][j].part = j
      BY ONLY j \in 1 .. Len(p[k]), <3>1, Zenon
    <3>3. D[a] = p[k][j]
      BY ONLY <2>3, <3>2
    <3> QED BY ONLY <2>1, <3>2, <3>3
  <2> QED BY <1>4, <2>3, <2>4
<1> HIDE DEF s, T
<1>8. s \in Seq(T) /\ s \in Seq(Nat) /\ Len(s) = Len(p)
  <2>1. s = [k \in 1 .. Len(p) |-> s[k]]
    BY DEF s
  <2>2. s \in [1 .. Len(p) -> T] /\ s \in [1 .. Len(p) -> Nat]
    BY ONLY <1>4, <2>1
  <2>3. s \in Seq(T) /\ Len(s) = Len(p)
    BY <1>1, <2>2, SeqFromFunction
  <2>4. s \in Seq(Nat)
    BY <1>1, <2>2, SeqFromFunction
  <2> QED BY <2>3, <2>4
<1>9. Rising(s)
  BY <1>5, <1>6 DEF Rising
<1>10. Delimiters(D) = s
  <2>1. \A a \in T : \E i \in DOMAIN s : s[i] = a
    BY <1>6, <1>7
  <2>2. T \subseteq Nat
    BY <1>2 DEF T
  <2>3. Ascending(T) = s
    BY <1>8, <1>9, <2>1, <2>2, AscendingIs
  <2> QED BY <2>3 DEF Delimiters, T
<1>11. Pieces(D, s) = p
  BY <1>1, <1>4, <1>8, PiecesOfFlatten DEF D
<1>12. ASSUME p # <<>>
       PROVE  s # <<>> /\ Head(s) = 1
  <2>1. 1 \in 1 .. Len(p)
    BY <1>1, <1>12
  <2>2. s[1] = Upto(p, 0) + 1
    BY <1>4, <2>1
  <2>3. Upto(p, 0) = 0
    BY <1>1, UptoFacts
  <2> QED BY <1>8, <2>1, <2>2, <2>3
<1> QED BY <1>1, <1>2, <1>8, <1>10, <1>11, <1>12 DEF D

\* A picture as it is under another lock.
Relocked(x, lock) == Picture(x[1].of, x[1].size, x[1].gop, lock)

(* A whole picture under another lock: whole, and the same picture.          *)
LEMMA RelockedFacts ==
  ASSUME NEW x \in Data, NEW lock \in Locks
  PROVE  LET y == Relocked(x, lock)
         IN  /\ y \in Data /\ PictureWhole(y)
             /\ y[1].of = x[1].of /\ y[1].size = x[1].size /\ y[1].gop = x[1].gop /\ y[1].lock = lock
             /\ \A k \in 1 .. Len(y) : y[k].of = x[1].of
             /\ (\E k \in DOMAIN y : y[k].gop) <=> x[1].gop
             /\ \A other : Relocked(y, other) = Relocked(x, other)
<1> DEFINE of == x[1].of
           size == x[1].size
           gop == x[1].gop
           y == Relocked(x, lock)
<1>1. of \in STRING \cup {None} /\ size \in {1, 2} /\ gop \in BOOLEAN
  <2> DEFINE a == x[1]
  <2>1. a \in AnyCell
    <3>1. x \in Seq(AnyCell) /\ x # <<>>
      BY DEF Data
    <3> QED BY <3>1
  <2> HIDE DEF a
  <2>2. a.of \in STRING \cup {None} /\ a.size \in {1, 2} /\ a.gop \in BOOLEAN
    BY <2>1 DEF AnyCell
  <2> QED BY <2>2 DEF a
<1>2. y = Picture(of, size, gop, lock)
  BY DEF Relocked
<1> HIDE DEF of, size, gop
<1>3. LET p == Picture(of, size, gop, lock)
      IN  /\ p \in Data /\ Len(p) \in Nat \ {0} /\ DOMAIN p = 1 .. Len(p) /\ PictureWhole(p)
          /\ p[1].of = of /\ p[1].size = size /\ p[1].gop = gop /\ p[1].lock = lock
          /\ \A k \in 1 .. Len(p) : p[k] = [of |-> of, part |-> k, size |-> size, gop |-> gop /\ k = 1, lock |-> lock]
  BY ONLY lock \in Locks, <1>1, PictureFacts
<1> HIDE DEF y
<1>4. /\ y \in Data /\ Len(y) \in Nat \ {0} /\ DOMAIN y = 1 .. Len(y) /\ PictureWhole(y)
      /\ y[1].of = of /\ y[1].size = size /\ y[1].gop = gop /\ y[1].lock = lock
      /\ \A k \in 1 .. Len(y) : y[k] = [of |-> of, part |-> k, size |-> size, gop |-> gop /\ k = 1, lock |-> lock]
  BY ONLY <1>2, <1>3
<1>5. \A k \in 1 .. Len(y) : y[k].of = of /\ (y[k].gop <=> gop /\ k = 1)
  <2> TAKE k \in 1 .. Len(y)
  <2> DEFINE g == gop /\ k = 1
  <2>1. y[k] = [of |-> of, part |-> k, size |-> size, gop |-> g, lock |-> lock]
    BY <1>4
  <2> HIDE DEF g
  <2>2. y[k].of = of /\ y[k].gop = g
    BY ONLY <2>1
  <2> QED BY <2>2 DEF g
<1>6. (\E k \in DOMAIN y : y[k].gop) <=> gop
  <2>1. 1 \in 1 .. Len(y) /\ DOMAIN y = 1 .. Len(y)
    BY <1>4
  <2> QED BY <1>5, <2>1
<1>7. \A other : Relocked(y, other) = Relocked(x, other)
  BY <1>4 DEF Relocked, of, size, gop
<1> QED BY <1>4, <1>5, <1>6, <1>7 DEF y, of, gop, size

\* Every unit is one whole picture.
AllWhole(us) == \A k \in 1 .. Len(us) : PictureWhole(us[k].data)

(* A segment of whole pictures falls into the same pictures again, each under *)
(* its new lock.                                                              *)
LEMMA SegmentWhole ==
  ASSUME NEW group \in Seq(AnyUnit), group # <<>>, AllWhole(group), NEW number \in Nat, NEW forward
  PROVE  /\ Fits(group, number, forward)
         /\ \A j \in 1 .. Len(group) : Split(Transformed(group, number, forward), group)[j] =
                Relocked(group[j].data, Relabelled(group[j].data[1].lock, <<number, j>>, forward))
<1> DEFINE m == Members(group)
           L == LockedPictures(m, number, forward)
           D == FlattenSeq(m)
           out == FlattenSeq(L)
           lock(j) == Relabelled(m[j][1].lock, <<number, j>>, forward)
<1>1. /\ m \in Seq(Data) /\ m \in Seq(Seq(AnyCell)) /\ Len(m) = Len(group) /\ Len(m) \in Nat /\ Concat(group) = D
      /\ \A i \in 1 .. Len(m) : m[i] = group[i].data /\ m[i] \in Data
  BY MembersFacts
<1>2. m # <<>>
  <2>1. Len(group) # 0
    OBVIOUS
  <2> HIDE DEF m
  <2> QED BY <1>1, <2>1
<1>3. \A i \in 1 .. Len(m) : PictureWhole(m[i])
  BY <1>1 DEF AllWhole
<1> HIDE DEF m
<1>4. /\ D \in Seq(AnyCell) /\ Pieces(D, Delimiters(D)) = m
  BY <1>1, <1>3, WholeDelimiters
<1>5. /\ L \in Seq(Data) /\ L \in Seq(Seq(AnyCell)) /\ Len(L) = Len(m)
      /\ \A k \in 1 .. Len(m) : L[k] = LockPicture(m[k], <<number, k>>, forward)
  BY <1>1, LockedPicturesTyped
<1> HIDE DEF L, D
<1>6. ASSUME NEW k \in 1 .. Len(m)
      PROVE  L[k] = Relocked(m[k], lock(k)) /\ PictureWhole(L[k]) /\ lock(k) \in Locks
  <2> DEFINE x == m[k]
             lk == lock(k)
  <2>1. x \in Data /\ PictureWhole(x) /\ <<number, k>> \in Label
    BY <1>1, <1>3 DEF Label
  <2>2. L[k] = Picture(x[1].of, x[1].size, x[1].gop, lk)
    BY <1>5, <2>1 DEF LockPicture
  <2>3. lk \in Locks
    <3> DEFINE old == x[1].lock
    <3>1. old \in Locks
      <4> HIDE DEF x, lk
      <4> QED BY <2>1, WholeFacts
    <3> HIDE DEF old
    <3>2. Relabelled(old, <<number, k>>, forward) \in Locks
      BY <2>1, <3>1, RelabelledTyped
    <3> QED BY <3>2 DEF old
  <2> HIDE DEF x, lk
  <2>4. L[k] = Relocked(x, lk)
    BY <2>2 DEF Relocked
  <2>5. PictureWhole(Relocked(x, lk))
    BY <2>1, <2>3, RelockedFacts
  <2> QED BY <2>3, <2>4, <2>5 DEF x, lk
<1> HIDE DEF lock
<1>7. /\ out \in Seq(AnyCell) /\ Pieces(out, Delimiters(out)) = L
      /\ Len(Delimiters(out)) = Len(L)
      /\ Delimiters(out) # <<>> /\ Head(Delimiters(out)) = 1
  <2>1. \A k \in 1 .. Len(L) : PictureWhole(L[k])
    BY <1>5, <1>6
  <2>2. L # <<>>
    BY <1>1, <1>2, <1>5
  <2> QED BY <1>5, <2>1, <2>2, WholeDelimiters
<1>8. Transformed(group, number, forward) = out
  <2>1. Len(D) \in Nat
    BY <1>4
  <2>2. SubSeq(D, 1, Len(D) - Len(D)) = <<>>
    <3>1. Len(D) - Len(D) = 0
      BY <2>1
    <3>2. SubSeq(D, 0 + 1, 0) = <<>>
      BY <1>4, SliceEmpty
    <3> QED BY <3>1, <3>2
  <2>3. FlattenSeq(Pieces(D, Delimiters(D))) = D
    BY <1>4 DEF D
  <2>4. LockSegment(D, number, forward) = <<>> \o out
    BY <1>4, <2>2, <2>3 DEF LockSegment, LockedPictures, L
  <2>5. <<>> \o out = out
    <3> HIDE DEF out
    <3> QED BY <1>7, WholeSlice
  <2> QED BY <1>1, <2>4, <2>5 DEF Transformed
<1> HIDE DEF out
<1>9. Fits(group, number, forward)
  BY <1>1, <1>5, <1>7, <1>8 DEF Fits, SplitFails
<1>10. Split(Transformed(group, number, forward), group) = L
  BY <1>7, <1>8 DEF Split
<1>11. \A j \in 1 .. Len(group) : L[j] = Relocked(group[j].data, Relabelled(group[j].data[1].lock, <<number, j>>, forward))
  BY <1>1, <1>6 DEF lock
<1> QED BY <1>9, <1>10, <1>11

(* So does the whole of the video, and its groups are the same.               *)
LEMMA WholeJoin ==
  ASSUME NEW us \in Seq(AnyUnit), NEW n \in Int, NEW forward, Groups(us, n) # None, AllWhole(us)
  PROVE  /\ AllFit(us, n, forward)
         /\ \A k, g, j : IsAt(us, n, k, g, j) => VideoJoin(us, n, forward)[k].data =
                Relocked(us[k].data, Relabelled(us[k].data[1].lock, <<Number(g), j>>, forward))
<1> DEFINE p == Groups(us, n)
           gs == GroupStarts(us, n)
           v == VideoJoin(us, n, forward)
<1>1. /\ Len(p) = Len(gs) /\ Len(gs) \in Nat /\ DOMAIN p = 1 .. Len(gs)
      /\ \A k \in 1 .. Len(gs) : p[k] \in Seq(AnyUnit) /\ Len(p[k]) \in Nat \ {0}
  BY GroupsFacts
<1>2. ASSUME NEW k, NEW g, NEW j, IsAt(us, n, k, g, j)
      PROVE  k \in 1 .. Len(us) /\ us[k] = p[g][j] /\ g \in 1 .. Len(gs) /\ j \in 1 .. Len(p[g])
  <2>1. /\ us \in Seq(AnyUnit) /\ n \in Int /\ Groups(us, n) # None
    OBVIOUS
  <2>2. \A kk, gg, jj : IsAt(us, n, kk, gg, jj) => kk \in 1 .. Len(us) /\ us[kk] = Groups(us, n)[gg][jj]
    BY ONLY <2>1, GroupOf
  <2>3. k \in 1 .. Len(us) /\ us[k] = p[g][j]
    BY ONLY <1>2, <2>2 DEF p
  <2>4. g \in 1 .. Len(gs) /\ j \in 1 .. Len(p[g])
    BY ONLY <1>2 DEF IsAt, p, gs
  <2> QED BY <2>3, <2>4
<1> HIDE DEF p
<1>3. ASSUME NEW g \in 1 .. Len(gs)
      PROVE  /\ Fits(p[g], Number(g), forward) /\ Number(g) \in Nat
             /\ \A j \in 1 .. Len(p[g]) : Split(Transformed(p[g], Number(g), forward), p[g])[j] =
                   Relocked(p[g][j].data, Relabelled(p[g][j].data[1].lock, <<Number(g), j>>, forward))
  <2> DEFINE x == p[g]
             m == Number(g)
  <2>1. x \in Seq(AnyUnit) /\ Len(x) \in Nat \ {0} /\ m \in Nat
    BY <1>1, NumberIs
  <2>2. AllWhole(x)
    <3> SUFFICES ASSUME NEW j \in 1 .. Len(x) PROVE PictureWhole(x[j].data)
      BY DEF AllWhole
    <3> DEFINE k == gs[g] + j - 1
    <3>1. IsAt(us, n, k, g, j)
      BY DEF IsAt, p
    <3> HIDE DEF k
    <3>2. k \in 1 .. Len(us) /\ us[k] = x[j]
      BY <1>2, <3>1
    <3>3. PictureWhole(us[k].data)
      BY <3>2 DEF AllWhole
    <3> QED BY <3>2, <3>3
  <2> HIDE DEF x, m
  <2>3. x # <<>>
    BY <2>1
  <2>4. /\ Fits(x, m, forward)
        /\ \A j \in 1 .. Len(x) : Split(Transformed(x, m, forward), x)[j] =
                Relocked(x[j].data, Relabelled(x[j].data[1].lock, <<m, j>>, forward))
    BY <2>1, <2>2, <2>3, SegmentWhole
  <2> QED BY <2>1, <2>4 DEF x, m
<1>4. AllFit(us, n, forward)
  BY <1>1, <1>3 DEF AllFit, p
<1>5. ASSUME NEW k, NEW g, NEW j, IsAt(us, n, k, g, j)
      PROVE  v[k].data = Relocked(us[k].data, Relabelled(us[k].data[1].lock, <<Number(g), j>>, forward))
  <2> DEFINE d == Split(Transformed(p[g], Number(g), forward), p[g])[j]
  <2>1. v[k] = [pts |-> us[k].pts, dts |-> us[k].dts, data |-> d]
    BY <1>4, <1>5, VideoJoinFacts DEF p
  <2>2. us[k] = p[g][j] /\ g \in 1 .. Len(gs) /\ j \in 1 .. Len(p[g])
    BY <1>2, <1>5
  <2>3. d = Relocked(p[g][j].data, Relabelled(p[g][j].data[1].lock, <<Number(g), j>>, forward))
    BY <1>3, <2>2
  <2> HIDE DEF d, v
  <2> QED BY <2>1, <2>2, <2>3
<1> QED BY <1>4, <1>5

(* Tracks with their GOP markers at the same units fall into the same groups.*)
LEMMA SameGroups ==
  ASSUME NEW us \in Seq(AnyUnit), NEW vs \in Seq(AnyUnit), NEW n \in Int, Len(us) = Len(vs),
         Groups(us, n) # None,
         \A k \in 1 .. Len(us) : (\E i \in DOMAIN us[k].data : us[k].data[i].gop) <=>
                                 (\E i \in DOMAIN vs[k].data : vs[k].data[i].gop)
  PROVE  /\ Groups(vs, n) # None
         /\ \A k, g, j : IsAt(us, n, k, g, j) <=> IsAt(vs, n, k, g, j)
<1> DEFINE gs == GroupStarts(us, n)
<1>1. GopStarts(us) = GopStarts(vs)
  <2>1. DOMAIN us = 1 .. Len(us) /\ DOMAIN vs = 1 .. Len(us)
    OBVIOUS
  <2>2. {i \in DOMAIN us : \E k \in DOMAIN us[i].data : us[i].data[k].gop} =
        {i \in DOMAIN vs : \E k \in DOMAIN vs[i].data : vs[i].data[k].gop}
    BY <2>1
  <2> QED BY <2>2 DEF GopStarts
<1>2. Groups(vs, n) # None
  BY <1>1, GroupsFacts
<1>3. GroupStarts(vs, n) = gs
  BY <1>1 DEF GroupStarts
<1>4. Groups(us, n) = Pieces(us, gs) /\ Groups(vs, n) = Pieces(vs, gs) /\ Within(gs, us) /\ Within(gs, vs)
  <2>1. Groups(us, n) = Pieces(us, gs) /\ Within(gs, us)
    BY GroupsFacts
  <2>2. Groups(vs, n) = Pieces(vs, gs) /\ Within(gs, vs)
    BY <1>2, <1>3, GroupsFacts
  <2> QED BY <2>1, <2>2
<1> HIDE DEF gs
<1>5. ASSUME NEW g \in 1 .. Len(gs)
      PROVE  Len(Groups(us, n)[g]) = Len(Groups(vs, n)[g])
  <2>1. Len(Pieces(us, gs)[g]) = PieceEnd(gs, g, Len(us)) - gs[g] + 1
    BY <1>4, PiecesTyped
  <2>2. Len(Pieces(vs, gs)[g]) = PieceEnd(gs, g, Len(vs)) - gs[g] + 1
    BY <1>4, PiecesTyped
  <2> QED BY <1>4, <2>1, <2>2
<1>6. \A k, g, j : IsAt(us, n, k, g, j) <=> IsAt(vs, n, k, g, j)
  BY <1>3, <1>5 DEF IsAt, gs
<1> QED BY <1>2, <1>6

(* Unlocking the locked video gives the data back, whatever became of its     *)
(* times.                                                                     *)
LEMMA VideoBack ==
  ASSUME NEW us \in Seq(AnyUnit), NEW vs \in Seq(AnyUnit), NEW n \in Int, Groups(us, n) # None, AllWhole(us),
         \A k \in 1 .. Len(us) : us[k].data[1].lock = Plain,
         Len(vs) = Len(us),
         \A k \in 1 .. Len(us) : vs[k].data = VideoJoin(us, n, TRUE)[k].data
  PROVE  /\ Groups(vs, n) # None /\ AllFit(vs, n, FALSE)
         /\ VideoJoin(vs, n, FALSE) \in Seq(AnyUnit) /\ Len(VideoJoin(vs, n, FALSE)) = Len(us)
         /\ \A k \in 1 .. Len(us) : VideoJoin(vs, n, FALSE)[k] =
                [pts |-> vs[k].pts, dts |-> vs[k].dts, data |-> us[k].data]
<1> DEFINE label(g, j) == <<Number(g), j>>
           w == VideoJoin(vs, n, FALSE)
<1>1. ASSUME NEW k \in 1 .. Len(us)
      PROVE  /\ us[k].data \in Data /\ PictureWhole(us[k].data) /\ us[k].data[1].lock = Plain
             /\ us[k].data = Relocked(us[k].data, Plain) /\ Plain \in Locks
  <2>1. us[k].data \in Data /\ PictureWhole(us[k].data) /\ us[k].data[1].lock = Plain
    BY MembersFacts DEF AllWhole
  <2>2. us[k].data = Relocked(us[k].data, us[k].data[1].lock)
    BY <2>1 DEF PictureWhole, Relocked
  <2>3. Plain \in Locks
    BY DEF Locks
  <2> QED BY <2>1, <2>2, <2>3
<1>2. ASSUME NEW k, NEW g, NEW j, IsAt(us, n, k, g, j)
      PROVE  /\ k \in 1 .. Len(us) /\ label(g, j) \in Locks
             /\ vs[k].data = Relocked(us[k].data, label(g, j))
  <2>1. k \in 1 .. Len(us)
    BY <1>2, GroupOf
  <2>2. VideoJoin(us, n, TRUE)[k].data = Relocked(us[k].data, Relabelled(us[k].data[1].lock, <<Number(g), j>>, TRUE))
    <3>1. us \in Seq(AnyUnit) /\ n \in Int /\ Groups(us, n) # None /\ AllWhole(us)
      OBVIOUS
    <3>2. \A kk, gg, jj : IsAt(us, n, kk, gg, jj) => VideoJoin(us, n, TRUE)[kk].data =
                Relocked(us[kk].data, Relabelled(us[kk].data[1].lock, <<Number(gg), jj>>, TRUE))
      BY ONLY <3>1, WholeJoin
    <3> QED BY ONLY <1>2, <3>2
  <2>3. Relabelled(us[k].data[1].lock, <<Number(g), j>>, TRUE) = label(g, j)
    BY DEF Relabelled
  <2>4. label(g, j) \in Locks
    <3>1. g \in 1 .. Len(GroupStarts(us, n)) /\ j \in 1 .. Len(Groups(us, n)[g])
      BY <1>2 DEF IsAt
    <3>2. Len(GroupStarts(us, n)) \in Nat /\ Len(Groups(us, n)[g]) \in Nat
      BY <3>1, GroupsFacts
    <3>3. g \in Nat \ {0} /\ j \in Nat
      BY <3>1, <3>2
    <3>4. Number(g) \in Nat
      BY <3>3, NumberIs
    <3> QED BY <3>3, <3>4 DEF Locks, Label
  <2> QED BY <2>1, <2>2, <2>3, <2>4
<1>3. \A k \in 1 .. Len(us) : \E g, j : IsAt(us, n, k, g, j)
  BY GroupOf
<1> HIDE DEF label
<1>4. ASSUME NEW k, NEW g, NEW j, IsAt(us, n, k, g, j)
      PROVE  /\ PictureWhole(vs[k].data) /\ vs[k].data[1].lock = label(g, j)
             /\ Relocked(vs[k].data, Plain) = us[k].data
             /\ (\E i \in DOMAIN us[k].data : us[k].data[i].gop) <=> us[k].data[1].gop
             /\ (\E i \in DOMAIN vs[k].data : vs[k].data[i].gop) <=> us[k].data[1].gop
  <2> DEFINE x == us[k].data
             y == vs[k].data
             l == label(g, j)
  <2>1. x \in Data /\ PictureWhole(x) /\ x = Relocked(x, Plain) /\ l \in Locks /\ y = Relocked(x, l) /\ Plain \in Locks
    BY <1>1, <1>2, <1>4
  <2> HIDE DEF x, y, l
  <2>2. /\ PictureWhole(y) /\ y[1].lock = l /\ ((\E i \in DOMAIN y : y[i].gop) <=> x[1].gop)
        /\ Relocked(y, Plain) = Relocked(x, Plain)
    BY <2>1, RelockedFacts
  <2>3. (\E i \in DOMAIN x : x[i].gop) <=> x[1].gop
    <3>1. LET z == Relocked(x, Plain) IN (\E i \in DOMAIN z : z[i].gop) <=> x[1].gop
      BY <2>1, RelockedFacts
    <3> QED BY <2>1, <3>1
  <2> QED BY <2>1, <2>2, <2>3 DEF x, y, l
<1>5. AllWhole(vs)
  BY <1>3, <1>4 DEF AllWhole
<1>6. /\ Groups(vs, n) # None
      /\ \A k, g, j : IsAt(us, n, k, g, j) <=> IsAt(vs, n, k, g, j)
  <2>1. \A k \in 1 .. Len(us) : (\E i \in DOMAIN us[k].data : us[k].data[i].gop) <=>
                                 (\E i \in DOMAIN vs[k].data : vs[k].data[i].gop)
    BY <1>3, <1>4
  <2> QED BY <2>1, SameGroups
<1>7. /\ AllFit(vs, n, FALSE)
      /\ \A k, g, j : IsAt(vs, n, k, g, j) => w[k].data =
                Relocked(vs[k].data, Relabelled(vs[k].data[1].lock, <<Number(g), j>>, FALSE))
  BY <1>5, <1>6, WholeJoin
<1>8. /\ w \in Seq(AnyUnit) /\ Len(w) = Len(vs)
      /\ \A k, g, j : IsAt(vs, n, k, g, j) => w[k] = [pts |-> vs[k].pts, dts |-> vs[k].dts, data |->
                          Split(Transformed(Groups(vs, n)[g], Number(g), FALSE), Groups(vs, n)[g])[j]]
  <2> DEFINE fwd == FALSE
  <2>1. vs \in Seq(AnyUnit) /\ n \in Int /\ Groups(vs, n) # None /\ AllFit(vs, n, fwd) /\ w = VideoJoin(vs, n, fwd)
    BY <1>6, <1>7
  <2> HIDE DEF fwd, w
  <2>2. /\ w \in Seq(AnyUnit) /\ Len(w) = Len(vs)
        /\ \A k, g, j : IsAt(vs, n, k, g, j) => w[k] = [pts |-> vs[k].pts, dts |-> vs[k].dts, data |->
                          Split(Transformed(Groups(vs, n)[g], Number(g), fwd), Groups(vs, n)[g])[j]]
    BY ONLY <2>1, VideoJoinFacts
  <2> QED BY ONLY <2>2 DEF fwd
<1> HIDE DEF w
<1>9. ASSUME NEW k \in 1 .. Len(us)
      PROVE  w[k] = [pts |-> vs[k].pts, dts |-> vs[k].dts, data |-> us[k].data]
  <2>1. PICK g, j : IsAt(us, n, k, g, j)
    BY <1>3
  <2>2. IsAt(vs, n, k, g, j)
    BY <1>6, <2>1
  <2> DEFINE d == Split(Transformed(Groups(vs, n)[g], Number(g), FALSE), Groups(vs, n)[g])[j]
  <2>3. w[k] = [pts |-> vs[k].pts, dts |-> vs[k].dts, data |-> d]
    BY <1>8, <2>2
  <2>4. w[k].data = Relocked(vs[k].data, Relabelled(vs[k].data[1].lock, <<Number(g), j>>, FALSE))
    BY <1>7, <2>2
  <2>5. Relabelled(vs[k].data[1].lock, <<Number(g), j>>, FALSE) = Plain
    BY <1>4, <2>1 DEF Relabelled, label
  <2>6. w[k].data = us[k].data
    BY <1>4, <2>1, <2>4, <2>5
  <2> HIDE DEF d
  <2> QED BY <2>3, <2>6
<1> QED BY <1>6, <1>7, <1>8, <1>9 DEF w

-----------------------------------------------------------------------------
(* The audio, in one piece.                                                  *)

\* The framing of the audio, cell by cell.
Frames == [n : Nat, open : BOOLEAN]
FrameStep(x, part, k, n) == IF ~ x.open /\ part = 1 /\ k < n THEN [n |-> x.n + 1, open |-> TRUE]
                            ELSE [n |-> x.n, open |-> FALSE]
FramesBy(f, data) ==
    /\ f \in [0 .. Len(data) -> Frames] /\ f[0] = [n |-> 0, open |-> FALSE]
    /\ \A k \in 1 .. Len(data) : f[k] = FrameStep(f[k - 1], data[k].part, k, Len(data))

LEMMA FrameStepTyped ==
  ASSUME NEW x \in Frames, NEW part, NEW k, NEW n
  PROVE  FrameStep(x, part, k, n) \in Frames
<1>1. x.n \in Nat /\ x.n + 1 \in Nat
  BY DEF Frames
<1> QED BY <1>1 DEF FrameStep, Frames

(* So Framing goes.                                                          *)
LEMMA FramingFacts ==
  ASSUME NEW data \in Seq(AnyCell)
  PROVE  FramesBy(Framing(data), data)
<1> DEFINE n == Len(data)
           step == [p \in Frames \X (1 .. n) |-> FrameStep(p[1], data[p[2]].part, p[2], n)]
           zero == [n |-> 0, open |-> FALSE]
           body(g, i) == IF i = 0 THEN [n |-> 0, open |-> FALSE]
                         ELSE IF ~g[i - 1].open /\ data[i].part = 1 /\ i < Len(data)
                         THEN [n |-> g[i - 1].n + 1, open |-> TRUE]
                         ELSE [n |-> g[i - 1].n, open |-> FALSE]
           f == CHOOSE g : g = [i \in 0 .. n |-> body(g, i)]
<1>1. n \in Nat /\ zero \in Frames
  BY DEF Frames
<1>2. \A g : \A i \in 1 .. n : body(g, i) = FrameStep(g[i - 1], data[i].part, i, n)
  <2> TAKE g
  <2> TAKE i \in 1 .. n
  <2>1. i # 0 /\ (i < Len(data) <=> i < n)
    BY <1>1
  <2> QED BY <2>1 DEF FrameStep
<1>3. \A g : body(g, 0) = zero
  OBVIOUS
<1>4. step \in [Frames \X (1 .. n) -> Frames] /\ \A x \in Frames, k \in 1 .. n : step[<<x, k>>] = FrameStep(x, data[k].part, k, n)
  BY FrameStepTyped
<1>5. Framing(data) = f
  BY DEF Framing
<1> HIDE DEF step, body, zero
<1>6. PICK g : Steps(g, n, Frames, zero, step)
  BY ONLY <1>1, <1>4, StepRecursion
<1>7. g = [i \in 0 .. n |-> body(g, i)]
  <2>1. g \in [0 .. n -> Frames] /\ g[0] = zero /\ \A k \in 1 .. n : g[k] = step[<<g[k - 1], k>>]
    BY <1>6 DEF Steps
  <2>2. ASSUME NEW k \in 1 .. n PROVE g[k] = body(g, k)
    <3>1. k - 1 \in 0 .. n
      BY <1>1
    <3>2. g[k - 1] \in Frames
      BY <2>1, <3>1
    <3>3. g[k] = step[<<g[k - 1], k>>]
      BY <2>1
    <3>4. step[<<g[k - 1], k>>] = FrameStep(g[k - 1], data[k].part, k, n)
      BY <1>4, <3>2
    <3>5. body(g, k) = FrameStep(g[k - 1], data[k].part, k, n)
      BY <1>2
    <3> QED BY ONLY <3>3, <3>4, <3>5
  <2>3. ASSUME NEW k \in 0 .. n PROVE g[k] = body(g, k)
    <3>1. k = 0 \/ k \in 1 .. n
      BY <1>1
    <3> QED BY <1>3, <2>1, <2>2, <3>1
  <2> QED BY <2>1, <2>3
<1>8. f = [i \in 0 .. n |-> body(f, i)]
  BY <1>7
<1> HIDE DEF f
<1>9. DOMAIN f = 0 .. n /\ f[0] = zero
  <2>1. 0 \in 0 .. n
    BY <1>1
  <2> QED BY <1>3, <1>8, <2>1
<1>10. \A k \in 1 .. n : f[k] = FrameStep(f[k - 1], data[k].part, k, n)
  <2> TAKE k \in 1 .. n
  <2>1. k \in 0 .. n
    BY <1>1
  <2>2. f[k] = body(f, k)
    BY <1>8, <2>1
  <2> QED BY <1>2, <2>2
<1>11. \A k \in 0 .. n : f[k] \in Frames
  <2> DEFINE S == {k \in Nat : k <= n => f[k] \in Frames}
  <2>1. 0 \in S
    BY <1>1, <1>9
  <2>2. ASSUME NEW k \in Nat, k \in S PROVE k + 1 \in S
    <3>1. SUFFICES ASSUME k + 1 <= n PROVE f[k + 1] \in Frames
      OBVIOUS
    <3>2. k + 1 \in 1 .. n /\ (k + 1) - 1 = k /\ k <= n
      BY <1>1, <3>1
    <3>3. f[k] \in Frames
      BY <2>2, <3>2
    <3>4. f[k + 1] = FrameStep(f[k], data[k + 1].part, k + 1, n)
      BY <1>10, <3>2
    <3> QED BY <3>3, <3>4, FrameStepTyped
  <2> HIDE DEF S
  <2>3. \A k \in Nat : k \in S
    BY <2>1, <2>2, Inductively
  <2> QED BY <1>1, <2>3 DEF S
<1>12. f \in [0 .. n -> Frames]
  <2>1. f = [i \in 0 .. n |-> f[i]]
    BY <1>8, <1>9
  <2> QED BY <1>11, <2>1
<1> QED BY <1>5, <1>9, <1>10, <1>12 DEF FramesBy, zero

(* The frames of two pieces that have the same parts are the same.            *)
LEMMA FramingSame ==
  ASSUME NEW x \in Seq(AnyCell), NEW y \in Seq(AnyCell), Len(x) = Len(y),
         \A i \in 1 .. Len(x) : x[i].part = y[i].part
  PROVE  Framing(x) = Framing(y)
<1> DEFINE f == Framing(x)
           g == Framing(y)
           n == Len(x)
           S == {k \in Nat : k <= n => f[k] = g[k]}
<1>1. FramesBy(f, x) /\ FramesBy(g, y)
  BY FramingFacts
<1>2. n \in Nat /\ Len(y) = n
  OBVIOUS
<1> HIDE DEF f, g, n
<1>3. 0 \in S
  BY <1>1 DEF FramesBy
<1>4. ASSUME NEW k \in Nat, k \in S PROVE k + 1 \in S
  <2>1. SUFFICES ASSUME k + 1 <= n PROVE f[k + 1] = g[k + 1]
    OBVIOUS
  <2>2. k + 1 \in 1 .. n /\ (k + 1) - 1 = k /\ k <= n
    BY <1>2, <2>1
  <2>3. f[k + 1] = FrameStep(f[k], x[k + 1].part, k + 1, n)
    BY <1>1, <2>2 DEF FramesBy, n
  <2>4. g[k + 1] = FrameStep(g[k], y[k + 1].part, k + 1, n)
    BY <1>1, <1>2, <2>2 DEF FramesBy
  <2>5. f[k] = g[k] /\ x[k + 1].part = y[k + 1].part
    BY <1>4, <2>2 DEF n
  <2> QED BY <2>3, <2>4, <2>5
<1> HIDE DEF S
<1>5. \A k \in Nat : k \in S
  BY <1>3, <1>4, Inductively
<1>6. \A k \in 0 .. n : f[k] = g[k]
  BY <1>2, <1>5 DEF S
<1>7. f = g
  BY <1>1, <1>2, <1>6 DEF FramesBy, n
<1> QED BY <1>7 DEF f, g

\* The label of the frame a cell begins, and the lock that LockAudio gives a cell.
AudioLabel(f, i) == <<AudioSegment, f[i].n>>
FrameLock(data, f, i, k, forward) ==
    IF FrameWhole(data, k) THEN Relabelled(data[i].lock, AudioLabel(f, i), forward) ELSE Noise
AudioLock(data, f, i, forward) ==
    IF f[i].open THEN FrameLock(data, f, i, i, forward)
    ELSE IF f[i - 1].open THEN FrameLock(data, f, i, i - 1, forward)
    ELSE data[i].lock
Under(cell, lock) == [of |-> cell.of, part |-> cell.part, size |-> cell.size, gop |-> cell.gop, lock |-> lock]

LEMMA UnderFacts ==
  ASSUME NEW cell, NEW lock
  PROVE  LET u == Under(cell, lock)
         IN  /\ u.of = cell.of /\ u.part = cell.part /\ u.size = cell.size /\ u.gop = cell.gop /\ u.lock = lock
             /\ \A other : Under(u, other) = Under(cell, other)
             /\ cell \in AnyCell => cell = Under(cell, cell.lock) /\ cell.lock \in Locks
<1> DEFINE u == Under(cell, lock)
<1>1. u.of = cell.of /\ u.part = cell.part /\ u.size = cell.size /\ u.lock = lock
  BY DEF Under
<1>2. u.gop = cell.gop
  BY DEF Under
<1> HIDE DEF u
<1>3. \A other : Under(u, other) = Under(cell, other)
  BY <1>1, <1>2 DEF Under
<1>4. cell \in AnyCell => cell = Under(cell, cell.lock) /\ cell.lock \in Locks
  <2>1. Noise \in Locks
    BY DEF Locks
  <2>2. \A c \in AnyCell : c.lock \in Locks /\ c = [of |-> c.of, part |-> c.part, size |-> c.size, gop |-> c.gop, lock |-> c.lock]
    BY <2>1, CellTyped
  <2> QED BY ONLY <2>2 DEF Under
<1> QED BY <1>1, <1>2, <1>3, <1>4 DEF u

(* LockAudio writes those locks and nothing else.                            *)
LEMMA LockAudioFacts ==
  ASSUME NEW data \in Seq(AnyCell), NEW forward
  PROVE  LET out == LockAudio(data, forward)
             f == Framing(data)
         IN  /\ out \in Seq(AnyCell) /\ Len(out) = Len(data) /\ Len(data) \in Nat
             /\ \A i \in 1 .. Len(data) : /\ AudioLock(data, f, i, forward) \in Locks
                                          /\ AudioLabel(f, i) \in Label
                                          /\ out[i] = Under(data[i], AudioLock(data, f, i, forward))
<1> DEFINE out == LockAudio(data, forward)
           f == Framing(data)
           n == Len(data)
           L(i) == AudioLock(data, f, i, forward)
<1>1. n \in Nat /\ DOMAIN data = 1 .. n /\ \A i \in 1 .. n : data[i] \in AnyCell
  OBVIOUS
<1>2. FramesBy(f, data)
  BY FramingFacts
<1>3. out = [i \in DOMAIN data |-> [data[i] EXCEPT !.lock = L(i)]]
  BY DEF LockAudio, AudioLock, FrameLock, AudioLabel
<1> HIDE DEF out, f
<1>4. ASSUME NEW i \in 1 .. n
      PROVE  AudioLabel(f, i) \in Label /\ L(i) \in Locks
  <2>1. f[i] \in Frames
    BY <1>2 DEF FramesBy
  <2>2. AudioLabel(f, i) \in Label
    BY <2>1 DEF AudioLabel, AudioSegment, Label, Frames
  <2>3. data[i].lock \in Locks
    <3> DEFINE cell == data[i]
    <3>1. cell \in AnyCell
      BY <1>1
    <3> HIDE DEF cell
    <3>2. cell.lock \in Locks
      BY ONLY <3>1, UnderFacts
    <3> QED BY <3>2 DEF cell
  <2>4. Noise \in Locks
    BY DEF Locks
  <2>5. Relabelled(data[i].lock, AudioLabel(f, i), forward) \in Locks
    BY <2>2, <2>3, RelabelledTyped
  <2>6. L(i) \in {Relabelled(data[i].lock, AudioLabel(f, i), forward), Noise, data[i].lock}
    BY DEF AudioLock, FrameLock
  <2> QED BY <2>2, <2>3, <2>4, <2>5, <2>6
<1> HIDE DEF L
<1>5. ASSUME NEW i \in 1 .. n
      PROVE  [data[i] EXCEPT !.lock = L(i)] \in AnyCell /\ [data[i] EXCEPT !.lock = L(i)] = Under(data[i], L(i))
  <2> DEFINE cell == data[i]
             lock == L(i)
  <2>1. cell \in AnyCell /\ lock \in Locks
    BY <1>1, <1>4
  <2> HIDE DEF cell, lock
  <2>2. [cell EXCEPT !.lock = lock] \in AnyCell /\ [cell EXCEPT !.lock = lock] = Under(cell, lock)
    BY <2>1, CellTyped DEF Under
  <2> QED BY <2>2 DEF cell, lock
<1>6. out \in [1 .. n -> AnyCell] /\ \A i \in 1 .. n : out[i] = Under(data[i], L(i))
  BY <1>1, <1>3, <1>5
<1>7. out \in Seq(AnyCell) /\ Len(out) = n
  BY <1>1, <1>6, SeqFromFunction
<1> QED BY <1>1, <1>4, <1>6, <1>7 DEF out, f, L

\* Every frame is whole.
AudioWhole(data) == \A i \in DOMAIN data : Framing(data)[i].open => FrameWhole(data, i)

(* Audio of whole frames, locked and unlocked, is what it was.               *)
LEMMA AudioDataBack ==
  ASSUME NEW data \in Seq(AnyCell), AudioWhole(data), \A i \in 1 .. Len(data) : data[i].lock = Plain
  PROVE  LockAudio(LockAudio(data, TRUE), FALSE) = data
<1> DEFINE mid == LockAudio(data, TRUE)
           back == LockAudio(mid, FALSE)
           f == Framing(data)
           n == Len(data)
<1>1. /\ mid \in Seq(AnyCell) /\ Len(mid) = n /\ n \in Nat
      /\ \A i \in 1 .. n : mid[i] = Under(data[i], AudioLock(data, f, i, TRUE))
  BY LockAudioFacts
<1> HIDE DEF mid
<1>2. \A i \in 1 .. n : mid[i].part = data[i].part /\ mid[i].of = data[i].of /\ mid[i].size = data[i].size
                        /\ mid[i].gop = data[i].gop /\ mid[i].lock = AudioLock(data, f, i, TRUE)
                        /\ \A other : Under(mid[i], other) = Under(data[i], other)
  <2> DEFINE L(i) == AudioLock(data, f, i, TRUE)
  <2> SUFFICES ASSUME NEW i \in 1 .. n
               PROVE  /\ mid[i].part = data[i].part /\ mid[i].of = data[i].of /\ mid[i].size = data[i].size
                      /\ mid[i].gop = data[i].gop /\ mid[i].lock = L(i)
                      /\ \A other : Under(mid[i], other) = Under(data[i], other)
    OBVIOUS
  <2>1. mid[i] = Under(data[i], L(i))
    BY <1>1
  <2> HIDE DEF L
  <2> QED BY ONLY <2>1, UnderFacts
<1>3. Framing(mid) = f
  BY <1>1, <1>2, FramingSame
<1>4. /\ back \in Seq(AnyCell) /\ Len(back) = n
      /\ \A i \in 1 .. n : back[i] = Under(mid[i], AudioLock(mid, f, i, FALSE))
  BY <1>1, <1>3, LockAudioFacts
<1> HIDE DEF back
<1>5. FramesBy(f, data)
  BY FramingFacts
<1>6. ASSUME NEW k \in 1 .. n, f[k].open
      PROVE  k + 1 \in 1 .. n /\ FrameWhole(data, k) /\ FrameWhole(mid, k)
  <2>1. f[k] = FrameStep(f[k - 1], data[k].part, k, n)
    BY <1>5 DEF FramesBy
  <2>2. k < n
    BY <1>6, <2>1 DEF FrameStep
  <2>3. k + 1 \in 1 .. n
    BY <1>1, <2>2
  <2>4. FrameWhole(data, k)
    BY <1>6 DEF AudioWhole
  <2>5. FrameWhole(mid, k)
    BY <1>2, <2>3, <2>4 DEF FrameWhole
  <2> QED BY <2>3, <2>4, <2>5
<1> HIDE DEF f
<1>7. ASSUME NEW i \in 1 .. n
      PROVE  AudioLock(mid, f, i, FALSE) = Plain
  <2>1. \A k \in {i, i - 1} : f[k].open => FrameWhole(data, k) /\ FrameWhole(mid, k)
    <3> SUFFICES ASSUME NEW k \in {i, i - 1}, f[k].open
                 PROVE  FrameWhole(data, k) /\ FrameWhole(mid, k)
      OBVIOUS
    <3>1. k # 0
      BY <1>5 DEF FramesBy
    <3>2. k \in 1 .. n
      BY <1>1, <3>1
    <3> QED BY <1>6, <3>2
  <2>2. mid[i].lock = AudioLock(data, f, i, TRUE)
    BY <1>2
  <2>3. CASE f[i].open \/ f[i - 1].open
    <3>1. AudioLock(data, f, i, TRUE) = AudioLabel(f, i)
      BY <2>1, <2>3 DEF AudioLock, FrameLock, Relabelled
    <3>2. AudioLock(mid, f, i, FALSE) = Relabelled(mid[i].lock, AudioLabel(f, i), FALSE)
      BY <2>1, <2>3 DEF AudioLock, FrameLock
    <3> QED BY <2>2, <3>1, <3>2 DEF Relabelled
  <2>4. CASE ~ (f[i].open \/ f[i - 1].open)
    BY <2>2, <2>4 DEF AudioLock
  <2> QED BY <2>3, <2>4
<1>8. \A i \in 1 .. n : back[i] = data[i]
  <2> TAKE i \in 1 .. n
  <2>1. back[i] = Under(mid[i], Plain)
    BY <1>4, <1>7
  <2>2. back[i] = Under(data[i], Plain)
    BY <1>2, <2>1
  <2>3. data[i] = Under(data[i], data[i].lock)
    <3>1. data[i] \in AnyCell
      OBVIOUS
    <3> QED BY ONLY <3>1, UnderFacts
  <2> QED BY <2>2, <2>3
<1>9. back = data
  BY <1>4, <1>8, SeqSame
<1> QED BY <1>9 DEF back, mid

(* Where Recut cuts: at the lengths of the units before.                      *)
LEMMA RecutAt ==
  ASSUME NEW us \in Seq(AnyUnit), NEW out \in Seq(AnyCell), NEW k \in 1 .. Len(us)
  PROVE  Recut(out, us)[k] = [us[k] EXCEPT !.data =
             SubSeq(out, Upto(Members(us), k - 1) + 1, Upto(Members(us), k))]
<1> DEFINE offset(i) == Len(Concat(SubSeq(us, 1, i)))
           m == Members(us)
<1>1. Len(us) \in Nat /\ DOMAIN us = 1 .. Len(us) /\ m \in Seq(Seq(AnyCell)) /\ Len(m) = Len(us)
  BY MembersFacts
<1>2. ASSUME NEW i \in 0 .. Len(us)
      PROVE  offset(i) = Upto(m, i)
  <2>1. SubSeq(us, 1, i) \in Seq(AnyUnit) /\ Len(SubSeq(us, 1, i)) = i
        /\ \A j \in 1 .. i : SubSeq(us, 1, i)[j] = us[j]
    OBVIOUS
  <2>2. Members(SubSeq(us, 1, i)) = SubSeq(m, 1, i)
    <3> DEFINE x == Members(SubSeq(us, 1, i))
               y == SubSeq(m, 1, i)
    <3>1. x \in Seq(Seq(AnyCell)) /\ Len(x) = i /\ \A j \in 1 .. i : x[j] = us[j].data
      <4> DEFINE z == SubSeq(us, 1, i)
      <4>1. z \in Seq(AnyUnit) /\ Len(z) = i /\ \A j \in 1 .. i : z[j] = us[j]
        BY <2>1
      <4> HIDE DEF z
      <4>2. /\ Members(z) \in Seq(Seq(AnyCell)) /\ Len(Members(z)) = Len(z)
            /\ \A j \in 1 .. Len(z) : Members(z)[j] = z[j].data
        BY ONLY <4>1, MembersFacts
      <4>3. \A j \in 1 .. i : Members(z)[j] = us[j].data
        BY <4>1, <4>2
      <4> QED BY <4>1, <4>2, <4>3 DEF z
    <3>2. y \in Seq(Seq(AnyCell)) /\ Len(y) = i /\ \A j \in 1 .. i : y[j] = m[j]
      <4> HIDE DEF m
      <4> QED BY <1>1
    <3>3. \A j \in 1 .. i : m[j] = us[j].data
      BY MembersFacts
    <3> HIDE DEF x, y
    <3>4. Len(x) = Len(y) /\ \A j \in 1 .. Len(x) : x[j] = y[j]
      BY <3>1, <3>2, <3>3
    <3>5. x = y
      BY <3>1, <3>2, <3>4, SeqSame
    <3> QED BY <3>5 DEF x, y
  <2>3. Concat(SubSeq(us, 1, i)) = FlattenSeq(Members(SubSeq(us, 1, i)))
    BY <2>1, MembersFacts
  <2> QED BY <2>2, <2>3 DEF Upto
<1>3. k \in DOMAIN us /\ k - 1 \in 0 .. Len(us) /\ k \in 0 .. Len(us)
  BY <1>1
<1>4. Recut(out, us)[k] = [us[k] EXCEPT !.data = SubSeq(out, offset(k - 1) + 1, offset(k))]
  BY <1>3 DEF Recut
<1> QED BY <1>2, <1>3, <1>4

(* Cut where the units were cut, the audio keeps their times and lengths.    *)
LEMMA RecutFacts ==
  ASSUME NEW us \in Seq(AnyUnit), NEW out \in Seq(AnyCell), Len(out) = Len(Concat(us))
  PROVE  LET r == Recut(out, us)
         IN  /\ r \in Seq(AnyUnit) /\ Len(r) = Len(us) /\ Len(us) \in Nat
             /\ \A k \in 1 .. Len(us) :
                   /\ r[k] = [pts |-> us[k].pts, dts |-> us[k].dts, data |-> r[k].data]
                   /\ r[k].data = SubSeq(out, Upto(Members(us), k - 1) + 1, Upto(Members(us), k))
                   /\ Len(r[k].data) = Len(us[k].data)
             /\ Concat(r) = out
<1> DEFINE r == Recut(out, us)
           m == Members(us)
           x(k) == SubSeq(out, Upto(m, k - 1) + 1, Upto(m, k))
<1>1. /\ Len(us) \in Nat /\ DOMAIN us = 1 .. Len(us) /\ m \in Seq(Seq(AnyCell)) /\ Len(m) = Len(us)
      /\ \A i \in 1 .. Len(us) : m[i] = us[i].data /\ us[i].data \in Data /\ Len(us[i].data) \in Nat \ {0}
      /\ Concat(us) = FlattenSeq(m)
  BY MembersFacts
<1> HIDE DEF m
<1>2. ASSUME NEW k \in 1 .. Len(us)
      PROVE  /\ Upto(m, k - 1) \in Nat /\ Upto(m, k) = Upto(m, k - 1) + Len(m[k]) /\ Upto(m, k) <= Len(out)
             /\ Len(m[k]) \in Nat \ {0} /\ x(k) \in Data /\ Len(x(k)) = Len(m[k])
             /\ \A j \in 1 .. Len(m[k]) : x(k)[j] = out[Upto(m, k - 1) + j]
  <2>1. k \in 1 .. Len(m)
    BY <1>1
  <2>2. /\ Upto(m, k - 1) \in Nat /\ Upto(m, k) = Upto(m, k - 1) + Len(m[k]) /\ Upto(m, k) <= Len(FlattenSeq(m))
    BY <1>1, <2>1, FlattenAt
  <2>3. Len(m[k]) \in Nat \ {0} /\ Len(out) = Len(FlattenSeq(m)) /\ Len(out) \in Nat
    <3>1. Len(m[k]) \in Nat \ {0}
      BY <1>1
    <3>2. Len(out) = Len(FlattenSeq(m))
      BY <1>1
    <3> QED BY <3>1, <3>2
  <2> DEFINE a == Upto(m, k - 1) + 1
             b == Upto(m, k)
  <2>4. a \in Nat /\ b \in Nat /\ 1 <= a /\ a <= b + 1 /\ b <= Len(out) /\ b - a + 1 = Len(m[k])
    BY <2>2, <2>3
  <2> HIDE DEF a, b
  <2>5. SubSeq(out, a, b) \in Seq(AnyCell) /\ Len(SubSeq(out, a, b)) = Len(m[k])
        /\ \A j \in 1 .. Len(m[k]) : SubSeq(out, a, b)[j] = out[a + j - 1]
    BY <2>4, SeqSlice
  <2>6. SubSeq(out, a, b) # <<>>
    <3> DEFINE z == SubSeq(out, a, b)
    <3> HIDE DEF z
    <3>1. Len(z) # 0
      BY <2>3, <2>5 DEF z
    <3>2. z # <<>>
      BY <3>1
    <3> QED BY <3>2 DEF z
  <2>7. \A j \in 1 .. Len(m[k]) : a + j - 1 = Upto(m, k - 1) + j
    BY <2>2, <2>3 DEF a
  <2> QED BY <2>2, <2>3, <2>5, <2>6, <2>7 DEF a, b, Data
<1>3. ASSUME NEW k \in 1 .. Len(us)
      PROVE  /\ r[k] = [pts |-> us[k].pts, dts |-> us[k].dts, data |-> x(k)] /\ r[k] \in AnyUnit
             /\ r[k].data = x(k)
  <2> DEFINE u == us[k]
             z == x(k)
  <2>1. u \in AnyUnit /\ z \in Data
    BY <1>2
  <2>2. r[k] = [u EXCEPT !.data = z]
    BY RecutAt DEF m
  <2> HIDE DEF u, z, r
  <2>3. r[k] = [pts |-> u.pts, dts |-> u.dts, data |-> z] /\ r[k] \in AnyUnit
    BY <2>1, <2>2, UnitWith
  <2>4. r[k].data = z
    BY <2>3
  <2> QED BY <2>3, <2>4 DEF u, z
<1>4. r \in Seq(AnyUnit) /\ Len(r) = Len(us)
  <2>1. r = [k \in 1 .. Len(us) |-> r[k]]
    BY <1>1 DEF Recut
  <2> HIDE DEF r
  <2>2. r \in [1 .. Len(us) -> AnyUnit]
    BY <1>3, <2>1
  <2> QED BY <1>1, <2>2, SeqFromFunction
<1> HIDE DEF r
<1>5. Concat(r) = out
  <2> DEFINE q == Members(r)
  <2>1. /\ q \in Seq(Seq(AnyCell)) /\ Len(q) = Len(m) /\ Concat(r) = FlattenSeq(q)
        /\ \A i \in 1 .. Len(m) : q[i] = r[i].data
    BY <1>1, <1>4, MembersFacts
  <2> HIDE DEF q
  <2>2. \A k \in 1 .. Len(m) : q[k] = x(k) /\ Len(q[k]) = Len(m[k])
    BY <1>1, <1>2, <1>3, <2>1
  <2>3. \A k \in 0 .. Len(m) : Upto(q, k) = Upto(m, k)
    BY <1>1, <2>1, <2>2, UptoSame
  <2>4. FlattenSeq(q) \in Seq(AnyCell) /\ Len(FlattenSeq(q)) = Len(out)
    <3>1. Upto(q, Len(q)) = Len(FlattenSeq(q)) /\ Upto(m, Len(m)) = Len(FlattenSeq(m))
      BY <1>1, <2>1, UptoFacts
    <3>2. Upto(q, Len(m)) = Upto(m, Len(m))
      BY <1>1, <2>3
    <3> QED BY <1>1, <2>1, <3>1, <3>2, FlattenTyped
  <2>5. ASSUME NEW i \in 1 .. Len(out)
        PROVE  FlattenSeq(q)[i] = out[i]
    <3>1. i \in 1 .. Len(FlattenSeq(q))
      BY <2>4
    <3>2. PICK k \in 1 .. Len(q) : \E j \in 1 .. Len(q[k]) : i = Upto(q, k - 1) + j
      BY <2>1, <3>1, FlattenFind
    <3>3. PICK j \in 1 .. Len(q[k]) : i = Upto(q, k - 1) + j
      BY <3>2
    <3>4. FlattenSeq(q)[Upto(q, k - 1) + j] = q[k][j]
      BY <2>1, FlattenAt
    <3>5. k \in 1 .. Len(m) /\ k \in 1 .. Len(us) /\ k - 1 \in 0 .. Len(m)
      BY <1>1, <2>1
    <3>6. Upto(q, k - 1) = Upto(m, k - 1) /\ q[k] = x(k) /\ Len(q[k]) = Len(m[k])
      BY <2>2, <2>3, <3>5
    <3>7. x(k)[j] = out[Upto(m, k - 1) + j]
      BY <1>2, <3>5, <3>6
    <3> QED BY <3>3, <3>4, <3>6, <3>7
  <2> QED BY <2>1, <2>4, <2>5, SeqSame
<1>6. \A k \in 1 .. Len(us) :
        /\ r[k] = [pts |-> us[k].pts, dts |-> us[k].dts, data |-> r[k].data]
        /\ r[k].data = x(k) /\ Len(r[k].data) = Len(us[k].data)
  BY <1>1, <1>2, <1>3
<1> QED BY <1>1, <1>4, <1>5, <1>6 DEF r, m

(* Cut again where it was cut before, the data of the units comes back.       *)
LEMMA RecutBack ==
  ASSUME NEW us \in Seq(AnyUnit), NEW vs \in Seq(AnyUnit), Len(vs) = Len(us),
         \A k \in 1 .. Len(us) : Len(vs[k].data) = Len(us[k].data)
  PROVE  LET r == Recut(Concat(us), vs)
         IN  /\ r \in Seq(AnyUnit) /\ Len(r) = Len(us)
             /\ \A k \in 1 .. Len(us) : r[k] = [pts |-> vs[k].pts, dts |-> vs[k].dts, data |-> us[k].data]
<1> DEFINE m == Members(us)
           q == Members(vs)
           out == Concat(us)
           r == Recut(out, vs)
<1>1. /\ Len(us) \in Nat /\ m \in Seq(Seq(AnyCell)) /\ Len(m) = Len(us)
      /\ \A i \in 1 .. Len(us) : m[i] = us[i].data
      /\ out = FlattenSeq(m) /\ out \in Seq(AnyCell)
  BY MembersFacts
<1>2. /\ q \in Seq(Seq(AnyCell)) /\ Len(q) = Len(us) /\ \A i \in 1 .. Len(us) : q[i] = vs[i].data
      /\ Concat(vs) = FlattenSeq(q)
  BY MembersFacts
<1> HIDE DEF m, q, out
<1>3. \A k \in 1 .. Len(q) : Len(q[k]) = Len(m[k])
  BY <1>1, <1>2
<1>4. \A k \in 0 .. Len(q) : Upto(q, k) = Upto(m, k)
  BY <1>1, <1>2, <1>3, UptoSame
<1>5. Len(out) = Len(Concat(vs))
  <2>1. Upto(q, Len(q)) = Len(FlattenSeq(q)) /\ Upto(m, Len(m)) = Len(FlattenSeq(m))
    BY <1>1, <1>2, UptoFacts
  <2>2. Len(q) \in 0 .. Len(q) /\ Len(q) = Len(m)
    BY <1>1, <1>2
  <2> QED BY <1>1, <1>2, <1>4, <2>1, <2>2
<1>6. /\ r \in Seq(AnyUnit) /\ Len(r) = Len(vs)
      /\ \A k \in 1 .. Len(vs) : /\ r[k] = [pts |-> vs[k].pts, dts |-> vs[k].dts, data |-> r[k].data]
                                 /\ r[k].data = SubSeq(out, Upto(q, k - 1) + 1, Upto(q, k))
  BY <1>1, <1>5, RecutFacts DEF q
<1> HIDE DEF r
<1>7. ASSUME NEW k \in 1 .. Len(us)
      PROVE  r[k] = [pts |-> vs[k].pts, dts |-> vs[k].dts, data |-> us[k].data]
  <2>1. k \in 1 .. Len(m) /\ k \in 0 .. Len(q) /\ k - 1 \in 0 .. Len(q) /\ k \in 1 .. Len(vs)
    BY <1>1, <1>2
  <2>2. SubSeq(FlattenSeq(m), Upto(m, k - 1) + 1, Upto(m, k)) = m[k]
    BY <1>1, <2>1, FlattenAt
  <2>3. r[k].data = us[k].data
    BY <1>1, <1>4, <1>6, <2>1, <2>2
  <2> QED BY <1>6, <2>1, <2>3
<1> QED BY <1>6, <1>7 DEF r, out

\* What ts-lock and ts-unlock make of the audio track.
AudioJoin(us, forward) == Recut(LockAudio(Concat(us), forward), us)

(* It keeps the times and lengths of its units.                              *)
LEMMA AudioJoinFacts ==
  ASSUME NEW us \in Seq(AnyUnit), NEW forward
  PROVE  LET r == AudioJoin(us, forward)
         IN  /\ r \in Seq(AnyUnit) /\ Len(r) = Len(us) /\ Len(us) \in Nat
             /\ \A k \in 1 .. Len(us) : /\ r[k] = [pts |-> us[k].pts, dts |-> us[k].dts, data |-> r[k].data]
                                        /\ Len(r[k].data) = Len(us[k].data)
             /\ Concat(r) = LockAudio(Concat(us), forward)
<1> DEFINE data == Concat(us)
           out == LockAudio(data, forward)
<1>1. data \in Seq(AnyCell)
  BY MembersFacts
<1> HIDE DEF data
<1>2. out \in Seq(AnyCell) /\ Len(out) = Len(data)
  BY <1>1, LockAudioFacts
<1> HIDE DEF out
<1>3. Len(out) = Len(Concat(us))
  BY <1>2 DEF data
<1>4. LET r == Recut(out, us)
      IN  /\ r \in Seq(AnyUnit) /\ Len(r) = Len(us) /\ Len(us) \in Nat
          /\ \A k \in 1 .. Len(us) : /\ r[k] = [pts |-> us[k].pts, dts |-> us[k].dts, data |-> r[k].data]
                                     /\ Len(r[k].data) = Len(us[k].data)
          /\ Concat(r) = out
  BY <1>2, <1>3, RecutFacts
<1>5. AudioJoin(us, forward) = Recut(out, us) /\ out = LockAudio(Concat(us), forward)
  BY DEF AudioJoin, out, data
<1> QED BY ONLY <1>4, <1>5

(* Unlocking the locked audio gives the data back, whatever became of its     *)
(* times.                                                                     *)
LEMMA AudioBack ==
  ASSUME NEW us \in Seq(AnyUnit), NEW vs \in Seq(AnyUnit), AudioWhole(Concat(us)),
         \A i \in 1 .. Len(Concat(us)) : Concat(us)[i].lock = Plain,
         Len(vs) = Len(us), \A k \in 1 .. Len(us) : vs[k].data = AudioJoin(us, TRUE)[k].data
  PROVE  LET w == AudioJoin(vs, FALSE)
         IN  /\ w \in Seq(AnyUnit) /\ Len(w) = Len(us)
             /\ \A k \in 1 .. Len(us) : w[k] = [pts |-> vs[k].pts, dts |-> vs[k].dts, data |-> us[k].data]
<1> DEFINE r == AudioJoin(us, TRUE)
           data == Concat(us)
<1>1. /\ r \in Seq(AnyUnit) /\ Len(r) = Len(us) /\ Len(us) \in Nat
      /\ \A k \in 1 .. Len(us) : Len(r[k].data) = Len(us[k].data)
      /\ Concat(r) = LockAudio(data, TRUE)
  BY AudioJoinFacts
<1>2. data \in Seq(AnyCell)
  BY MembersFacts
<1>3. LockAudio(LockAudio(data, TRUE), FALSE) = data
  <2> HIDE DEF data
  <2>1. AudioWhole(data) /\ \A i \in 1 .. Len(data) : data[i].lock = Plain
    BY DEF data
  <2> QED BY <1>2, <2>1, AudioDataBack
<1> HIDE DEF r
<1>4. Concat(vs) = Concat(r)
  <2>1. \A k \in 1 .. Len(us) : vs[k].data = r[k].data
    BY DEF r
  <2>2. DOMAIN vs = 1 .. Len(us) /\ DOMAIN r = 1 .. Len(us)
    BY <1>1
  <2>3. [i \in DOMAIN vs |-> vs[i].data] = [i \in DOMAIN r |-> r[i].data]
    BY <2>1, <2>2
  <2> QED BY <2>3 DEF Concat
<1>5. AudioJoin(vs, FALSE) = Recut(data, vs)
  BY <1>1, <1>3, <1>4 DEF AudioJoin
<1>6. \A k \in 1 .. Len(us) : Len(vs[k].data) = Len(us[k].data)
  BY <1>1 DEF r
<1>7. LET w == Recut(data, vs)
      IN  /\ w \in Seq(AnyUnit) /\ Len(w) = Len(us)
          /\ \A k \in 1 .. Len(us) : w[k] = [pts |-> vs[k].pts, dts |-> vs[k].dts, data |-> us[k].data]
  BY <1>6, RecutBack
<1> QED BY ONLY <1>5, <1>7

-----------------------------------------------------------------------------
(* What the two commands make of the units, video and audio.                 *)

\* The units of a carrier.
CUnits(c) == [t \in DOMAIN c |-> c[t].units]

(* A unit of a carrier is a unit.                                            *)
LEMMA UnitsTyped == Unit \subseteq AnyUnit
<1>1. \A x \in Cell : x \in AnyCell /\ x.lock = Plain
  BY DEF Cell, AnyCell
<1>2. \A s \in Seq(Cell) : s \in Seq(AnyCell)
  BY <1>1
<1> QED BY <1>2 DEF Unit, AnyUnit

(* Nothing in a carrier is locked.                                           *)
LEMMA CUnitsFacts ==
  ASSUME NEW c \in Carriers
  PROVE  /\ CUnits(c) \in Programs(c) /\ DOMAIN CUnits(c) = DOMAIN c
         /\ \A t \in DOMAIN c : /\ CUnits(c)[t] = c[t].units /\ CUnits(c)[t] \in Seq(AnyUnit)
                                /\ \A k \in 1 .. Len(CUnits(c)[t]) :
                                     /\ CUnits(c)[t][k].data \in Data
                                     /\ \A i \in 1 .. Len(CUnits(c)[t][k].data) : CUnits(c)[t][k].data[i].lock = Plain
<1>1. \A t \in DOMAIN c : c[t].units \in Seq(Unit)
  BY CarrierTyped
<1>2. \A s \in Seq(Unit) : s \in Seq(AnyUnit)
  BY UnitsTyped
<1>3. \A x \in Cell : x.lock = Plain
  BY DEF Cell
<1>4. \A u \in Unit : u.data \in Seq(Cell)
  BY DEF Unit
<1>5. \A u \in AnyUnit : u.data \in Data
  BY DEF AnyUnit, Data
<1>6. ASSUME NEW t \in DOMAIN c
      PROVE  /\ CUnits(c)[t] = c[t].units /\ CUnits(c)[t] \in Seq(AnyUnit)
             /\ \A k \in 1 .. Len(CUnits(c)[t]) :
                  /\ CUnits(c)[t][k].data \in Data
                  /\ \A i \in 1 .. Len(CUnits(c)[t][k].data) : CUnits(c)[t][k].data[i].lock = Plain
  <2> DEFINE us == CUnits(c)[t]
  <2>1. us = c[t].units
    BY DEF CUnits
  <2>2. us \in Seq(Unit) /\ us \in Seq(AnyUnit)
    BY <1>1, <1>2, <2>1
  <2> HIDE DEF us
  <2>3. ASSUME NEW k \in 1 .. Len(us)
        PROVE  us[k].data \in Data /\ \A i \in 1 .. Len(us[k].data) : us[k].data[i].lock = Plain
    <3>1. us[k] \in Unit /\ us[k] \in AnyUnit
      BY <2>2
    <3> DEFINE x == us[k].data
    <3>2. x \in Seq(Cell) /\ x \in Data
      BY <1>4, <1>5, <3>1
    <3> HIDE DEF x
    <3>3. \A i \in 1 .. Len(x) : x[i] \in Cell
      BY <3>2
    <3> QED BY <1>3, <3>2, <3>3 DEF x
  <2> QED BY <2>1, <2>2, <2>3 DEF us
<1>7. CUnits(c) \in Programs(c)
  BY <1>6 DEF Programs, CUnits
<1> QED BY <1>6, <1>7 DEF CUnits

(* In a carrier every picture and every audio frame is whole.                *)
LEMMA EncodedFacts ==
  ASSUME NEW c \in Carriers, NEW t \in DOMAIN c
  PROVE  /\ IsAudio(c, t) => /\ AudioWhole(Concat(CUnits(c)[t]))
                             /\ \A i \in 1 .. Len(Concat(CUnits(c)[t])) : Concat(CUnits(c)[t])[i].lock = Plain
         /\ ~ IsAudio(c, t) => /\ AllWhole(CUnits(c)[t])
                               /\ \A k \in 1 .. Len(CUnits(c)[t]) : CUnits(c)[t][k].data[1].lock = Plain
<1> DEFINE us == CUnits(c)[t]
           m == Members(us)
           data == FlattenSeq(m)
<1>1. /\ us = c[t].units /\ us \in Seq(AnyUnit)
      /\ \A k \in 1 .. Len(us) : /\ us[k].data \in Data
                                 /\ \A i \in 1 .. Len(us[k].data) : us[k].data[i].lock = Plain
  BY CUnitsFacts
<1>2. Encoded(c, t)
  BY CarriersEncoded
<1> HIDE DEF us
<1>3. /\ m \in Seq(Seq(AnyCell)) /\ Len(m) = Len(us) /\ Concat(us) = data /\ data \in Seq(AnyCell)
      /\ DOMAIN us = 1 .. Len(us)
      /\ \A k \in 1 .. Len(us) : m[k] = us[k].data /\ Len(m[k]) \in Nat \ {0}
  BY <1>1, MembersFacts
<1> HIDE DEF m
<1>4. CASE IsAudio(c, t)
  <2>1. \A i \in DOMAIN Concat(us) : Framing(Concat(us))[i].open => FrameWhole(Concat(us), i)
    BY <1>1, <1>2, <1>4 DEF Encoded
  <2>2. ASSUME NEW i \in 1 .. Len(data)
        PROVE  data[i].lock = Plain
    <3>1. PICK k \in 1 .. Len(m) : \E j \in 1 .. Len(m[k]) : i = Upto(m, k - 1) + j
      BY <1>3, FlattenFind
    <3>2. PICK j \in 1 .. Len(m[k]) : i = Upto(m, k - 1) + j
      BY <3>1
    <3>3. FlattenSeq(m)[Upto(m, k - 1) + j] = m[k][j]
      <4>1. m \in Seq(Seq(AnyCell)) /\ k \in 1 .. Len(m) /\ j \in 1 .. Len(m[k])
        BY <1>3
      <4> QED BY ONLY <4>1, FlattenAt
    <3>4. m[k][j].lock = Plain
      <4>1. k \in 1 .. Len(us) /\ m[k] = us[k].data
        BY <1>3
      <4>2. \A x \in 1 .. Len(us[k].data) : us[k].data[x].lock = Plain
        BY <1>1, <4>1
      <4> QED BY <4>1, <4>2
    <3> QED BY <3>2, <3>3, <3>4
  <2> QED BY <1>3, <1>4, <2>1, <2>2 DEF AudioWhole, us
<1>5. CASE ~ IsAudio(c, t)
  <2>1. AllWhole(us)
    BY <1>1, <1>2, <1>3, <1>5 DEF Encoded, AllWhole
  <2>2. \A k \in 1 .. Len(us) : us[k].data[1].lock = Plain
    <3> TAKE k \in 1 .. Len(us)
    <3>1. 1 \in 1 .. Len(us[k].data)
      BY <1>3
    <3> QED BY <1>1, <3>1
  <2> QED BY <1>5, <2>1, <2>2 DEF us
<1> QED BY <1>4, <1>5

(* What the two commands make of the units, video and audio.                  *)
Joint(c, us, n, forward) ==
    [t \in DOMAIN c |-> IF t \in First(c, FALSE) THEN VideoJoin(us[t], n, forward) ELSE us[t]]
Done(c, us, o, forward) ==
    [t \in DOMAIN c |-> IF o.audio /\ t \in First(c, TRUE) THEN AudioJoin(us[t], forward) ELSE us[t]]
Fitting(c, us, n, forward) ==
    /\ First(c, FALSE) # {}
    /\ \A v \in First(c, FALSE) : /\ c[v].codec = "h264" /\ Groups(us[v], n) # None
                                  /\ AllFit(us[v], n, forward)
Worked(c, us, o, forward) == Done(c, Joint(c, us, o.gops, forward), o, forward)
SameStamps(us, vs) ==
    \A t \in DOMAIN us : /\ Len(us[t]) = Len(vs[t])
                         /\ \A k \in 1 .. Len(us[t]) : us[t][k].pts = vs[t][k].pts /\ us[t][k].dts = vs[t][k].dts

(* A track is the first of video or of audio, not of both.                   *)
LEMMA FirstFacts ==
  ASSUME NEW c
  PROVE  /\ \A t \in First(c, FALSE) : t \in DOMAIN c /\ ~ IsAudio(c, t) /\ t \notin First(c, TRUE)
         /\ \A t \in First(c, TRUE) : t \in DOMAIN c /\ IsAudio(c, t) /\ t \notin First(c, FALSE)
  BY DEF First

(* The video done: units with the times they had.                            *)
LEMMA JointTyped ==
  ASSUME NEW c \in Carriers, NEW us \in Programs(c), NEW n \in Int, NEW forward, Fitting(c, us, n, forward)
  PROVE  /\ Joint(c, us, n, forward) \in Programs(c)
         /\ SameStamps(us, Joint(c, us, n, forward))
<1> DEFINE w == Joint(c, us, n, forward)
<1>1. \A t \in DOMAIN c : us[t] \in Seq(AnyUnit) /\ Len(us[t]) \in Nat
  BY DEF Programs
<1>2. ASSUME NEW t \in DOMAIN c
      PROVE  /\ w[t] \in Seq(AnyUnit) /\ Len(us[t]) = Len(w[t])
             /\ \A k \in 1 .. Len(us[t]) : us[t][k].pts = w[t][k].pts /\ us[t][k].dts = w[t][k].dts
  <2>1. CASE t \in First(c, FALSE)
    <3> DEFINE x == us[t]
               v == VideoJoin(x, n, forward)
    <3>1. x \in Seq(AnyUnit) /\ n \in Int /\ Groups(x, n) # None /\ AllFit(x, n, forward)
      BY <1>1, <2>1 DEF Fitting
    <3>2. w[t] = v
      BY <2>1 DEF Joint
    <3> HIDE DEF x
    <3>3. /\ v \in Seq(AnyUnit) /\ Len(v) = Len(x)
          /\ \A k, g, j : IsAt(x, n, k, g, j) => v[k] = [pts |-> x[k].pts, dts |-> x[k].dts, data |->
                          Split(Transformed(Groups(x, n)[g], Number(g), forward), Groups(x, n)[g])[j]]
      BY ONLY <3>1, VideoJoinFacts
    <3>4. \A k \in 1 .. Len(x) : \E g, j : IsAt(x, n, k, g, j)
      BY ONLY <3>1, GroupOf
    <3> HIDE DEF v, w
    <3>5. \A k \in 1 .. Len(x) : x[k].pts = v[k].pts /\ x[k].dts = v[k].dts
      <4> TAKE k \in 1 .. Len(x)
      <4>1. PICK g, j : IsAt(x, n, k, g, j)
        BY <3>4
      <4> DEFINE d == Split(Transformed(Groups(x, n)[g], Number(g), forward), Groups(x, n)[g])[j]
      <4>2. v[k] = [pts |-> x[k].pts, dts |-> x[k].dts, data |-> d]
        BY <3>3, <4>1
      <4> HIDE DEF d
      <4> QED BY <4>2
    <3> QED BY <3>2, <3>3, <3>5 DEF x
  <2>2. CASE t \notin First(c, FALSE)
    BY <1>1, <2>2 DEF Joint
  <2> QED BY <2>1, <2>2
<1> QED BY <1>2 DEF Programs, SameStamps, Joint

(* The audio done: units with the times and lengths they had.                *)
LEMMA DoneTyped ==
  ASSUME NEW c \in Carriers, NEW us \in Programs(c), NEW o, NEW forward
  PROVE  /\ Done(c, us, o, forward) \in Programs(c)
         /\ SameStamps(us, Done(c, us, o, forward))
         /\ \A t \in DOMAIN c : \A k \in 1 .. Len(us[t]) : Len(Done(c, us, o, forward)[t][k].data) = Len(us[t][k].data)
<1> DEFINE w == Done(c, us, o, forward)
<1>1. \A t \in DOMAIN c : us[t] \in Seq(AnyUnit) /\ Len(us[t]) \in Nat
  BY DEF Programs
<1>2. ASSUME NEW t \in DOMAIN c
      PROVE  /\ w[t] \in Seq(AnyUnit) /\ Len(us[t]) = Len(w[t])
             /\ \A k \in 1 .. Len(us[t]) : /\ us[t][k].pts = w[t][k].pts /\ us[t][k].dts = w[t][k].dts
                                           /\ Len(w[t][k].data) = Len(us[t][k].data)
  <2>1. CASE o.audio /\ t \in First(c, TRUE)
    <3> DEFINE x == us[t]
               v == AudioJoin(x, forward)
    <3>1. x \in Seq(AnyUnit)
      BY <1>1
    <3>2. w[t] = v
      BY <2>1 DEF Done
    <3> HIDE DEF x
    <3>3. /\ v \in Seq(AnyUnit) /\ Len(v) = Len(x)
          /\ \A k \in 1 .. Len(x) : /\ v[k] = [pts |-> x[k].pts, dts |-> x[k].dts, data |-> v[k].data]
                                    /\ Len(v[k].data) = Len(x[k].data)
      BY ONLY <3>1, AudioJoinFacts
    <3> HIDE DEF v, w
    <3>4. \A k \in 1 .. Len(x) : x[k].pts = v[k].pts /\ x[k].dts = v[k].dts
      <4> TAKE k \in 1 .. Len(x)
      <4> DEFINE d == v[k].data
      <4>1. v[k] = [pts |-> x[k].pts, dts |-> x[k].dts, data |-> d]
        BY <3>3
      <4> HIDE DEF d
      <4> QED BY <4>1
    <3> QED BY <3>2, <3>3, <3>4 DEF x
  <2>2. CASE ~ (o.audio /\ t \in First(c, TRUE))
    BY <1>1, <2>2 DEF Done
  <2> QED BY <2>1, <2>2
<1> QED BY <1>2 DEF Programs, SameStamps, Done

(* Units with the same stamps have the same times.                           *)
LEMMA StampsTimes ==
  ASSUME NEW c, NEW us \in Programs(c), NEW vs \in Programs(c), SameStamps(us, vs)
  PROVE  SameTimes(us, vs)
  BY DEF SameStamps, SameTimes, Time

\* What ts-lock makes of a carrier.
Sealed(c, o) == Worked(c, CUnits(c), o, TRUE)

\* The track whose video is locked; whose audio is.
Seen(c, t) == t \in First(c, FALSE)
Heard(c, o, t) == o.audio /\ t \in First(c, TRUE)

(* What a command makes of one track.                                        *)
LEMMA WorkedIs ==
  ASSUME NEW c, NEW us, NEW o, NEW forward, NEW t \in DOMAIN c
  PROVE  /\ Seen(c, t) => Worked(c, us, o, forward)[t] = VideoJoin(us[t], o.gops, forward)
         /\ Heard(c, o, t) => Worked(c, us, o, forward)[t] = AudioJoin(us[t], forward)
         /\ ~ Seen(c, t) /\ ~ Heard(c, o, t) => Worked(c, us, o, forward)[t] = us[t]
<1> DEFINE w == Joint(c, us, o.gops, forward)
<1>1. w[t] = IF t \in First(c, FALSE) THEN VideoJoin(us[t], o.gops, forward) ELSE us[t]
  BY DEF Joint
<1>2. Done(c, w, o, forward)[t] = IF o.audio /\ t \in First(c, TRUE) THEN AudioJoin(w[t], forward) ELSE w[t]
  BY DEF Done
<1> HIDE DEF w
<1>3. Worked(c, us, o, forward) = Done(c, w, o, forward)
  BY DEF Worked, w
<1> QED BY <1>1, <1>2, <1>3, FirstFacts DEF Seen, Heard

LEMMA StampsTransitive ==
  ASSUME NEW c, NEW us \in Programs(c), NEW vs \in Programs(c), NEW ws \in Programs(c),
         SameStamps(us, vs), SameStamps(vs, ws)
  PROVE  SameStamps(us, ws)
  BY DEF SameStamps, Programs

(* What a command makes of a program: units with the times they had.         *)
LEMMA WorkedTyped ==
  ASSUME NEW c \in Carriers, NEW us \in Programs(c), NEW o \in Options, NEW forward, Fitting(c, us, o.gops, forward)
  PROVE  /\ Worked(c, us, o, forward) \in Programs(c)
         /\ SameStamps(us, Worked(c, us, o, forward)) /\ SameTimes(us, Worked(c, us, o, forward))
<1> DEFINE n == o.gops
           w == Joint(c, us, n, forward)
           x == Done(c, w, o, forward)
<1>1. n \in Int
  BY TransportAssumption
<1> HIDE DEF n
<1>2. w \in Programs(c) /\ SameStamps(us, w)
  BY <1>1, JointTyped DEF n
<1> HIDE DEF w
<1>3. x \in Programs(c) /\ SameStamps(w, x)
  BY <1>2, DoneTyped
<1> HIDE DEF x
<1>4. SameStamps(us, x)
  BY <1>2, <1>3, StampsTransitive
<1>5. SameTimes(us, x)
  BY <1>3, <1>4, StampsTimes
<1> QED BY <1>3, <1>4, <1>5 DEF x, w, n, Worked

(* So does ts-lock.                                                          *)
LEMMA SealedFacts ==
  ASSUME NEW c \in Carriers, NEW o \in Options, Fitting(c, CUnits(c), o.gops, TRUE)
  PROVE  /\ Sealed(c, o) \in Programs(c)
         /\ SameStamps(CUnits(c), Sealed(c, o)) /\ SameTimes(CUnits(c), Sealed(c, o))
<1> DEFINE fwd == TRUE
           us == CUnits(c)
<1>1. us \in Programs(c) /\ Fitting(c, us, o.gops, fwd)
  BY CUnitsFacts
<1> HIDE DEF fwd, us
<1>2. /\ Worked(c, us, o, fwd) \in Programs(c)
      /\ SameStamps(us, Worked(c, us, o, fwd)) /\ SameTimes(us, Worked(c, us, o, fwd))
  BY <1>1, WorkedTyped
<1> QED BY ONLY <1>2 DEF Sealed, us, fwd

(* A stream whose groups were found once has whole pictures, which fit.       *)
LEMMA CarrierFits ==
  ASSUME NEW c \in Carriers, NEW n \in Int, NEW v \in First(c, FALSE), Groups(CUnits(c)[v], n) # None
  PROVE  AllFit(CUnits(c)[v], n, TRUE) /\ AllWhole(CUnits(c)[v])
<1>1. v \in DOMAIN c /\ ~ IsAudio(c, v)
  BY FirstFacts
<1>2. CUnits(c)[v] \in Seq(AnyUnit) /\ AllWhole(CUnits(c)[v])
  BY <1>1, CUnitsFacts, EncodedFacts
<1> DEFINE fwd == TRUE
<1> HIDE DEF fwd
<1>3. AllFit(CUnits(c)[v], n, fwd)
  BY <1>2, WholeJoin
<1> QED BY <1>2, <1>3 DEF fwd

\* The same times; normal units; the times of one and the data of the other.
Stamped(us, s) == Len(s) = Len(us) /\ \A k \in 1 .. Len(us) : us[k].pts = s[k].pts /\ us[k].dts = s[k].dts
Normals(us, s) == Len(s) = Len(us) /\ \A k \in 1 .. Len(us) : s[k] = Normal(us[k])
Refitted(us, vs, w) ==
    Len(w) = Len(us) /\ \A k \in 1 .. Len(us) : w[k] = [pts |-> vs[k].pts, dts |-> vs[k].dts, data |-> us[k].data]

(* A track locked, muxed, demuxed and unlocked is the normal units of the    *)
(* carrier.                                                                  *)
LEMMA NormalBack ==
  ASSUME NEW us \in Seq(AnyUnit), NEW s \in Seq(AnyUnit), NEW vs \in Seq(AnyUnit), NEW w \in Seq(AnyUnit),
         NEW z \in Seq(AnyUnit), Stamped(us, s), Normals(s, vs), Refitted(us, vs, w), Normals(us, z)
  PROVE  w = z
<1>0. /\ Len(us) \in Nat /\ Len(s) = Len(us) /\ Len(vs) = Len(us) /\ Len(w) = Len(us) /\ Len(z) = Len(us)
      /\ \A k \in 1 .. Len(us) : /\ us[k].pts = s[k].pts /\ us[k].dts = s[k].dts /\ vs[k] = Normal(s[k])
                                 /\ w[k] = [pts |-> vs[k].pts, dts |-> vs[k].dts, data |-> us[k].data]
                                 /\ z[k] = Normal(us[k])
  <2>1. Len(us) \in Nat
    OBVIOUS
  <2>2. Len(s) = Len(us) /\ \A k \in 1 .. Len(us) : us[k].pts = s[k].pts /\ us[k].dts = s[k].dts
    BY DEF Stamped
  <2>3. Len(vs) = Len(s) /\ \A k \in 1 .. Len(s) : vs[k] = Normal(s[k])
    BY DEF Normals
  <2>4. Len(w) = Len(us) /\ \A k \in 1 .. Len(us) : w[k] = [pts |-> vs[k].pts, dts |-> vs[k].dts, data |-> us[k].data]
    BY DEF Refitted
  <2>5. Len(z) = Len(us) /\ \A k \in 1 .. Len(us) : z[k] = Normal(us[k])
    BY DEF Normals
  <2> QED BY ONLY <2>1, <2>2, <2>3, <2>4, <2>5
<1>1. ASSUME NEW k \in 1 .. Len(us)
      PROVE  w[k] = Normal(us[k])
  <2> DEFINE u == us[k]
             x == s[k]
             y == vs[k]
  <2>1. u \in AnyUnit /\ x \in AnyUnit /\ u.pts = x.pts /\ u.dts = x.dts /\ y = Normal(x)
        /\ w[k] = [pts |-> y.pts, dts |-> y.dts, data |-> u.data]
    BY <1>0
  <2> HIDE DEF u, x, y
  <2>2. /\ y.pts = u.pts /\ y.dts = IF u.dts = u.pts THEN None ELSE u.dts
    BY <2>1, NormalFacts
  <2>3. Normal(u) = [pts |-> u.pts, dts |-> IF u.dts = u.pts THEN None ELSE u.dts, data |-> u.data]
    BY <2>1, NormalFacts
  <2> QED BY <2>1, <2>2, <2>3 DEF u
<1>2. Len(w) = Len(z) /\ \A k \in 1 .. Len(w) : w[k] = z[k]
  BY <1>0, <1>1
<1> QED BY <1>2, SeqSame

(* A track that arrived as it was sent is the carrier's again after the      *)
(* unlock, whatever became of the others, and its groups are never refused   *)
(* (_video, _split_aus, _audio).                                             *)
THEOREM TrackBack ==
  ASSUME NEW c \in Carriers, NEW o \in Options, Fitting(c, CUnits(c), o.gops, TRUE),
         NEW R \in Programs(c), NEW t \in DOMAIN c, R[t] = NormalUnits(Sealed(c, o))[t]
  PROVE  /\ Worked(c, R, o, FALSE)[t] = NormalUnits(CUnits(c))[t]
         /\ t \in First(c, FALSE) => Groups(R[t], o.gops) # None /\ AllFit(R[t], o.gops, FALSE)
<1> DEFINE n == o.gops
           us == CUnits(c)[t]
           s == Sealed(c, o)[t]
           vs == R[t]
           z == NormalUnits(CUnits(c))[t]
           w == Worked(c, R, o, FALSE)[t]
<1>1. n \in Int
  BY TransportAssumption
<1>2. CUnits(c) \in Programs(c) /\ Sealed(c, o) \in Programs(c) /\ SameStamps(CUnits(c), Sealed(c, o)) /\ DOMAIN CUnits(c) = DOMAIN c
  BY CUnitsFacts, SealedFacts
<1>3. /\ us \in Seq(AnyUnit) /\ s \in Seq(AnyUnit) /\ vs \in Seq(AnyUnit) /\ z \in Seq(AnyUnit)
      /\ Len(us) \in Nat /\ Len(s) = Len(us) /\ Len(z) = Len(us)
      /\ \A k \in 1 .. Len(us) : us[k].pts = s[k].pts /\ us[k].dts = s[k].dts
      /\ \A k \in 1 .. Len(us) : z[k] = Normal(us[k])
  <2>1. us \in Seq(AnyUnit) /\ s \in Seq(AnyUnit) /\ vs \in Seq(AnyUnit) /\ Len(us) \in Nat
    BY <1>2 DEF Programs
  <2>2. z \in Seq(AnyUnit) /\ Len(z) = Len(us) /\ \A k \in 1 .. Len(us) : z[k] = Normal(us[k])
    BY <1>2, NormalUnitsFacts
  <2>3. Len(us) = Len(s) /\ \A k \in 1 .. Len(us) : us[k].pts = s[k].pts /\ us[k].dts = s[k].dts
    BY <1>2 DEF SameStamps
  <2> QED BY <2>1, <2>2, <2>3
<1>4. Len(vs) = Len(us) /\ \A k \in 1 .. Len(us) : vs[k] = Normal(s[k]) /\ vs[k].data = s[k].data
  <2>1. Len(vs) = Len(s) /\ \A k \in 1 .. Len(s) : vs[k] = Normal(s[k]) /\ s[k] \in AnyUnit
    BY <1>2, NormalUnitsFacts
  <2> HIDE DEF vs, s, us
  <2>2. \A k \in 1 .. Len(s) : vs[k].data = s[k].data
    BY <2>1, NormalFacts
  <2> QED BY <1>3, <2>1, <2>2
<1>5. /\ Seen(c, t) => s = VideoJoin(us, n, TRUE) /\ w = VideoJoin(vs, n, FALSE)
                                  /\ Groups(us, n) # None /\ ~ IsAudio(c, t)
      /\ Heard(c, o, t) => s = AudioJoin(us, TRUE) /\ w = AudioJoin(vs, FALSE) /\ IsAudio(c, t)
      /\ ~ Seen(c, t) /\ ~ Heard(c, o, t) => s = us /\ w = vs
  <2>1. /\ Seen(c, t) => w = VideoJoin(vs, n, FALSE)
        /\ Heard(c, o, t) => w = AudioJoin(vs, FALSE)
        /\ ~ Seen(c, t) /\ ~ Heard(c, o, t) => w = vs
    <3> DEFINE fwd == FALSE
               x == Worked(c, R, o, fwd)[t]
    <3> HIDE DEF fwd
    <3>1. /\ Seen(c, t) => x = VideoJoin(R[t], o.gops, fwd)
          /\ Heard(c, o, t) => x = AudioJoin(R[t], fwd)
          /\ ~ Seen(c, t) /\ ~ Heard(c, o, t) => x = R[t]
      BY WorkedIs
    <3> QED BY ONLY <3>1 DEF fwd, w, vs, n
  <2>2. /\ Seen(c, t) => s = VideoJoin(us, n, TRUE)
        /\ Heard(c, o, t) => s = AudioJoin(us, TRUE)
        /\ ~ Seen(c, t) /\ ~ Heard(c, o, t) => s = us
    <3> DEFINE fwd == TRUE
               x == Worked(c, CUnits(c), o, fwd)[t]
    <3> HIDE DEF fwd
    <3>1. /\ Seen(c, t) => x = VideoJoin(CUnits(c)[t], o.gops, fwd)
          /\ Heard(c, o, t) => x = AudioJoin(CUnits(c)[t], fwd)
          /\ ~ Seen(c, t) /\ ~ Heard(c, o, t) => x = CUnits(c)[t]
      BY WorkedIs
    <3> QED BY ONLY <3>1 DEF fwd, s, us, n, Sealed
  <2>3. Seen(c, t) => Groups(us, n) # None /\ ~ IsAudio(c, t)
    BY FirstFacts DEF Fitting, Seen
  <2>4. Heard(c, o, t) => IsAudio(c, t)
    BY FirstFacts DEF Heard
  <2> QED BY <2>1, <2>2, <2>3, <2>4
<1>6. /\ IsAudio(c, t) => /\ AudioWhole(Concat(us)) /\ \A i \in 1 .. Len(Concat(us)) : Concat(us)[i].lock = Plain
      /\ ~ IsAudio(c, t) => /\ AllWhole(us) /\ \A k \in 1 .. Len(us) : us[k].data[1].lock = Plain
  BY EncodedFacts
<1>7. R[t] = vs /\ o.gops = n /\ NormalUnits(CUnits(c))[t] = z /\ Worked(c, R, o, FALSE)[t] = w
  OBVIOUS
<1> HIDE DEF n, us, s, vs, z, w
<1>8. CASE Seen(c, t)
  <2>1. /\ us \in Seq(AnyUnit) /\ vs \in Seq(AnyUnit) /\ n \in Int /\ Groups(us, n) # None /\ AllWhole(us)
        /\ \A k \in 1 .. Len(us) : us[k].data[1].lock = Plain
        /\ Len(vs) = Len(us)
        /\ \A k \in 1 .. Len(us) : vs[k].data = VideoJoin(us, n, TRUE)[k].data
    BY <1>1, <1>3, <1>4, <1>5, <1>6, <1>8
  <2>2. /\ Groups(vs, n) # None /\ AllFit(vs, n, FALSE)
        /\ VideoJoin(vs, n, FALSE) \in Seq(AnyUnit) /\ Len(VideoJoin(vs, n, FALSE)) = Len(us)
        /\ \A k \in 1 .. Len(us) : VideoJoin(vs, n, FALSE)[k] =
                [pts |-> vs[k].pts, dts |-> vs[k].dts, data |-> us[k].data]
    BY ONLY <2>1, VideoBack
  <2>3. w = VideoJoin(vs, n, FALSE)
    BY <1>5, <1>8
  <2>5. /\ w \in Seq(AnyUnit) /\ Len(w) = Len(us)
        /\ \A k \in 1 .. Len(us) : w[k] = [pts |-> vs[k].pts, dts |-> vs[k].dts, data |-> us[k].data]
    BY <2>2, <2>3
  <2>6. Stamped(us, s) /\ Normals(s, vs) /\ Refitted(us, vs, w) /\ Normals(us, z)
    BY <1>3, <1>4, <2>5 DEF Stamped, Normals, Refitted
  <2>4. w = z
    BY ONLY <1>3, <2>5, <2>6, NormalBack
  <2> QED BY <1>7, <2>2, <2>4
<1>9. CASE Heard(c, o, t)
  <2>1. /\ us \in Seq(AnyUnit) /\ vs \in Seq(AnyUnit) /\ AudioWhole(Concat(us))
        /\ \A i \in 1 .. Len(Concat(us)) : Concat(us)[i].lock = Plain
        /\ Len(vs) = Len(us) /\ \A k \in 1 .. Len(us) : vs[k].data = AudioJoin(us, TRUE)[k].data
    BY <1>3, <1>4, <1>5, <1>6, <1>9
  <2>2. LET x == AudioJoin(vs, FALSE)
        IN  /\ x \in Seq(AnyUnit) /\ Len(x) = Len(us)
            /\ \A k \in 1 .. Len(us) : x[k] = [pts |-> vs[k].pts, dts |-> vs[k].dts, data |-> us[k].data]
    BY ONLY <2>1, AudioBack
  <2>3. w = AudioJoin(vs, FALSE) /\ ~ Seen(c, t)
    BY <1>5, <1>9, FirstFacts DEF Seen, Heard
  <2>5. /\ w \in Seq(AnyUnit) /\ Len(w) = Len(us)
        /\ \A k \in 1 .. Len(us) : w[k] = [pts |-> vs[k].pts, dts |-> vs[k].dts, data |-> us[k].data]
    BY <2>2, <2>3
  <2>6. Stamped(us, s) /\ Normals(s, vs) /\ Refitted(us, vs, w) /\ Normals(us, z)
    BY <1>3, <1>4, <2>5 DEF Stamped, Normals, Refitted
  <2>4. w = z
    BY ONLY <1>3, <2>5, <2>6, NormalBack
  <2> QED BY <1>7, <2>3, <2>4 DEF Seen
<1>10. CASE ~ Seen(c, t) /\ ~ Heard(c, o, t)
  <2>1. s = us /\ w = vs
    BY <1>5, <1>10
  <2>2. Len(w) = Len(z) /\ \A k \in 1 .. Len(w) : w[k] = z[k]
    BY <1>3, <1>4, <2>1
  <2>3. w \in Seq(AnyUnit)
    BY <1>3, <2>1
  <2>4. w = z
    BY <1>3, <2>2, <2>3, SeqSame
  <2> QED BY <1>7, <1>10, <2>4 DEF Seen
<1> QED BY <1>8, <1>9, <1>10

-----------------------------------------------------------------------------
(* A stream in order comes back exactly; another does not.                   *)

LEMMA TimesSymmetric ==
  ASSUME NEW c, NEW us \in Programs(c), NEW vs \in Programs(c), SameTimes(us, vs)
  PROVE  SameTimes(vs, us) /\ (Rises(us) <=> Rises(vs))
<1>1. \A t \in DOMAIN c : /\ us[t] \in Seq(AnyUnit) /\ vs[t] \in Seq(AnyUnit) /\ Len(us[t]) = Len(vs[t])
                          /\ DOMAIN us[t] = DOMAIN vs[t] /\ DOMAIN us[t] = 1 .. Len(us[t])
                          /\ \A k \in 1 .. Len(us[t]) : Time(us[t][k]) = Time(vs[t][k])
  BY DEF Programs, SameTimes
<1>2. DOMAIN us = DOMAIN c /\ DOMAIN vs = DOMAIN c
  BY DEF Programs
<1>3. SameTimes(vs, us)
  BY <1>1, <1>2 DEF SameTimes
<1>4. Rises(us) <=> Rises(vs)
  BY <1>1, <1>2 DEF Rises
<1> QED BY <1>3, <1>4

(* Programs with the same times are both in order or both not.               *)
LEMMA OrderedSame ==
  ASSUME NEW c \in Carriers, NEW us \in Programs(c), NEW vs \in Programs(c), SameTimes(us, vs)
  PROVE  Ordered(c, us) <=> Ordered(c, vs)
  BY OrderSame, TimesSymmetric DEF Ordered

(* A stream whose times are in order is exactly restored.                    *)
LEMMA ExactInOrder ==
  ASSUME NEW c \in Carriers, NEW o \in Options, Fitting(c, CUnits(c), o.gops, TRUE), Ordered(c, CUnits(c))
  PROVE  LET S == Sealed(c, o)
             R == Received(c, Mux(c, S))
             W == Worked(c, R, o, FALSE)
         IN  /\ R = NormalUnits(S) /\ Run(Demuxer(c), Mux(c, S)).pmt
             /\ Fitting(c, R, o.gops, FALSE)
             /\ W = NormalUnits(CUnits(c)) /\ Received(c, Mux(c, W)) = NormalUnits(CUnits(c))
<1> DEFINE us == CUnits(c)
           S == Sealed(c, o)
           R == Received(c, Mux(c, S))
           W == Worked(c, R, o, FALSE)
<1>1. us \in Programs(c) /\ S \in Programs(c) /\ SameTimes(us, S)
  BY CUnitsFacts, SealedFacts
<1>2. Ordered(c, S)
  BY <1>1, OrderedSame
<1>3. R = NormalUnits(S) /\ (Order(S) # <<>> => Run(Demuxer(c), Mux(c, S)).pmt)
  <2> HIDE DEF S
  <2> QED BY <1>1, <1>2, ReceivedInOrder
<1>4. Order(S) # <<>>
  <2>1. PICK v \in First(c, FALSE) : Groups(us[v], o.gops) # None
    BY DEF Fitting
  <2>2. v \in DOMAIN c /\ us[v] \in Seq(AnyUnit) /\ o.gops \in Int
    BY <1>1, <2>1, TransportAssumption, FirstFacts DEF Programs
  <2> DEFINE x == us[v]
             n == o.gops
  <2>3. x \in Seq(AnyUnit) /\ n \in Int /\ Groups(x, n) # None
    BY <2>1, <2>2
  <2> HIDE DEF x, n, us, S
  <2>4. x # <<>>
    BY <2>3, GroupsFacts
  <2>5. 1 \in 1 .. Len(x)
    BY <2>3, <2>4
  <2>6. Order(us) # <<>>
    <3>1. \E i \in 1 .. Len(Order(us)) : Order(us)[i] = <<v, 1>>
      <4>1. \A t \in DOMAIN c : \A k \in 1 .. Len(us[t]) : \E i \in 1 .. Len(Order(us)) : Order(us)[i] = <<t, k>>
        BY <1>1, OrderFacts
      <4> QED BY <2>2, <2>5, <4>1 DEF x
    <3>2. Len(Order(us)) \in Nat
      BY <1>1, OrderFacts
    <3>3. Len(<<>>) = 0
      OBVIOUS
    <3> QED BY <3>1, <3>2, <3>3
  <2> QED BY <1>1, <2>6, OrderSame
<1>5. R \in Programs(c)
  <2> HIDE DEF S
  <2> QED BY <1>1, <1>3, NormalUnitsFacts
<1> HIDE DEF R
<1>6. ASSUME NEW t \in DOMAIN c
      PROVE  /\ W[t] = NormalUnits(us)[t]
             /\ t \in First(c, FALSE) => Groups(R[t], o.gops) # None /\ AllFit(R[t], o.gops, FALSE)
  <2>1. R[t] = NormalUnits(Sealed(c, o))[t]
    BY <1>3
  <2> QED BY <1>5, <2>1, TrackBack
<1>7. Fitting(c, R, o.gops, FALSE)
  BY <1>6, FirstFacts DEF Fitting
<1>8. W = NormalUnits(us)
  <2>1. DOMAIN W = DOMAIN c /\ W = [t \in DOMAIN c |-> W[t]]
    BY DEF Worked, Done
  <2>2. NormalUnits(us) = [t \in DOMAIN c |-> NormalUnits(us)[t]]
    <3>1. DOMAIN us = DOMAIN c
      BY <1>1 DEF Programs
    <3> QED BY <3>1 DEF NormalUnits
  <2> HIDE DEF W, us
  <2> QED BY <1>6, <2>1, <2>2
<1> HIDE DEF W, us, S
<1>9. Received(c, Mux(c, W)) = NormalUnits(us)
  <2>1. W \in Programs(c) /\ SameTimes(us, W) /\ NormalUnits(W) = W
    BY <1>1, <1>8, NormalUnitsFacts
  <2>2. Ordered(c, W)
    <3>1. Ordered(c, us)
      BY DEF us
    <3> QED BY <1>1, <2>1, <3>1, OrderedSame
  <2> QED BY <1>8, <2>1, <2>2, ReceivedInOrder
<1> QED BY <1>3, <1>4, <1>7, <1>8, <1>9 DEF S, R, W, us

(* One whose times are not is restored as something else.                    *)
LEMMA InexactOtherwise ==
  ASSUME NEW c \in Carriers, NEW o \in Options, Fitting(c, CUnits(c), o.gops, TRUE), ~ Ordered(c, CUnits(c)),
         NEW R, R = Received(c, Mux(c, Sealed(c, o))), Fitting(c, R, o.gops, FALSE)
  PROVE  Received(c, Mux(c, Worked(c, R, o, FALSE))) # NormalUnits(CUnits(c))
<1> DEFINE us == CUnits(c)
           S == Sealed(c, o)
           W == Worked(c, R, o, FALSE)
           X == Received(c, Mux(c, W))
           Z == NormalUnits(us)
<1>1. us \in Programs(c) /\ S \in Programs(c) /\ SameTimes(us, S)
  BY CUnitsFacts, SealedFacts
<1>2. R \in Programs(c)
  <2> HIDE DEF S
  <2>1. Mux(c, S) \in Seq(Wire(c))
    BY <1>1, MuxFacts
  <2>2. R = Received(c, Mux(c, S))
    BY DEF S
  <2> QED BY <2>1, <2>2, ReceivedIs
<1>3. W \in Programs(c) /\ SameTimes(R, W)
  <2> DEFINE fwd == FALSE
  <2>1. Fitting(c, R, o.gops, fwd)
    OBVIOUS
  <2> HIDE DEF fwd
  <2>2. Worked(c, R, o, fwd) \in Programs(c) /\ SameTimes(R, Worked(c, R, o, fwd))
    BY <1>2, <2>1, WorkedTyped
  <2> QED BY ONLY <2>2 DEF fwd, W
<1>4. Z \in Programs(c) /\ SameTimes(us, Z)
  BY <1>1, NormalUnitsFacts
<1>0. ~ Ordered(c, us) /\ R = Received(c, Mux(c, S))
  OBVIOUS
<1> HIDE DEF us, S, W, Z
<1>5. CASE ~ Rises(us)
  <2>1. Rises(X)
    BY <1>3, ReceivedRises
  <2>2. ~ Rises(Z)
    BY <1>1, <1>4, <1>5, TimesSymmetric
  <2> QED BY <2>1, <2>2 DEF us, W, Z
<1>6. CASE Rises(us)
  <2>1. Rises(S) /\ ~ Ordered(c, S)
    BY <1>0, <1>1, <1>6, OrderedSame, TimesSymmetric
  <2>2. PICK t \in DOMAIN c : Len(R[t]) # Len(S[t])
    BY <1>0, <1>1, <2>1, ReceivedLate
  <2>3. Len(R[t]) <= Len(S[t])
    BY <1>0, <1>1, <2>1, ReceivedLate
  <2>4. Rises(R)
    BY <1>0, <1>1, ReceivedRises
  <2>5. Rises(W)
    BY <1>2, <1>3, <2>4, TimesSymmetric
  <2>6. Len(X[t]) <= Len(W[t])
    BY <1>3, <2>5, ReceivedLate
  <2>7. Len(W[t]) = Len(R[t]) /\ Len(S[t]) = Len(us[t]) /\ Len(Z[t]) = Len(us[t])
    <3>1. DOMAIN R = DOMAIN c /\ DOMAIN us = DOMAIN c
      BY <1>1, <1>2 DEF Programs
    <3> QED BY <1>1, <1>3, <1>4, <3>1 DEF SameTimes
  <2>8. Len(R[t]) \in Nat /\ Len(us[t]) \in Nat
    BY <1>1, <1>2 DEF Programs
  <2>9. X \in Programs(c)
    <3>1. Mux(c, W) \in Seq(Wire(c))
      BY <1>3, MuxFacts
    <3> QED BY <3>1, ReceivedIs
  <2>10. Len(X[t]) \in Nat
    BY <2>9 DEF Programs
  <2> HIDE DEF X
  <2>11. Len(X[t]) # Len(Z[t])
    BY <2>2, <2>3, <2>6, <2>7, <2>8, <2>10
  <2> QED BY <2>11 DEF X, W, Z, us
<1> QED BY <1>5, <1>6

\* A unit shows the picture that the other begins with.
SameView(u, v) == {u.data[k].of : k \in DOMAIN u.data} = {v.data[1].of}

(* What is sent has the carrier's times, its pictures and the lengths of     *)
(* its audio.                                                                *)
LEMMA SealedKeeps ==
  ASSUME NEW c \in Carriers, NEW o \in Options, Fitting(c, CUnits(c), o.gops, TRUE), NEW t \in DOMAIN c
  PROVE  LET s == NormalUnits(Sealed(c, o))[t]
             z == NormalUnits(CUnits(c))[t]
         IN  /\ Len(s) = Len(z) /\ z \in Seq(AnyUnit)
             /\ \A k \in 1 .. Len(z) :
                   /\ s[k].pts = z[k].pts /\ s[k].dts = z[k].dts
                   /\ IsAudio(c, t) => Len(s[k].data) = Len(z[k].data)
                   /\ ~ IsAudio(c, t) => SameView(s[k], z[k])
<1> DEFINE n == o.gops
           us == CUnits(c)[t]
           x == Sealed(c, o)[t]
           s == NormalUnits(Sealed(c, o))[t]
           z == NormalUnits(CUnits(c))[t]
<1>1. CUnits(c) \in Programs(c) /\ Sealed(c, o) \in Programs(c) /\ SameStamps(CUnits(c), Sealed(c, o)) /\ DOMAIN CUnits(c) = DOMAIN c
      /\ n \in Int
  BY CUnitsFacts, SealedFacts, TransportAssumption
<1>2. /\ us \in Seq(AnyUnit) /\ x \in Seq(AnyUnit) /\ Len(us) \in Nat /\ Len(x) = Len(us)
      /\ \A k \in 1 .. Len(us) : us[k].pts = x[k].pts /\ us[k].dts = x[k].dts
      /\ \A k \in 1 .. Len(us) : us[k] \in AnyUnit /\ x[k] \in AnyUnit
  <2>1. us \in Seq(AnyUnit) /\ x \in Seq(AnyUnit)
    BY <1>1 DEF Programs
  <2>2. Len(us) = Len(x) /\ \A k \in 1 .. Len(us) : us[k].pts = x[k].pts /\ us[k].dts = x[k].dts
    BY <1>1 DEF SameStamps
  <2> HIDE DEF us, x
  <2> QED BY <2>1, <2>2
<1>3. Len(s) = Len(us) /\ Len(z) = Len(us) /\ z \in Seq(AnyUnit) /\ \A k \in 1 .. Len(us) : s[k] = Normal(x[k]) /\ z[k] = Normal(us[k])
  <2>1. Len(s) = Len(x) /\ \A k \in 1 .. Len(x) : s[k] = Normal(x[k])
    BY <1>1, NormalUnitsFacts
  <2>2. z \in Seq(AnyUnit) /\ Len(z) = Len(us) /\ \A k \in 1 .. Len(us) : z[k] = Normal(us[k])
    BY <1>1, NormalUnitsFacts
  <2> QED BY <1>2, <2>1, <2>2
<1>4. /\ Seen(c, t) => x = VideoJoin(us, n, TRUE) /\ Groups(us, n) # None /\ ~ IsAudio(c, t)
      /\ Heard(c, o, t) => x = AudioJoin(us, TRUE) /\ IsAudio(c, t)
      /\ ~ Seen(c, t) /\ ~ Heard(c, o, t) => x = us
  <2> DEFINE fwd == TRUE
             y == Worked(c, CUnits(c), o, fwd)[t]
  <2> HIDE DEF fwd
  <2>1. /\ Seen(c, t) => y = VideoJoin(CUnits(c)[t], o.gops, fwd)
        /\ Heard(c, o, t) => y = AudioJoin(CUnits(c)[t], fwd)
        /\ ~ Seen(c, t) /\ ~ Heard(c, o, t) => y = CUnits(c)[t]
    BY WorkedIs
  <2>2. /\ Seen(c, t) => x = VideoJoin(us, n, TRUE)
        /\ Heard(c, o, t) => x = AudioJoin(us, TRUE)
        /\ ~ Seen(c, t) /\ ~ Heard(c, o, t) => x = us
    BY ONLY <2>1 DEF fwd, x, us, n, Sealed
  <2>3. Seen(c, t) => Groups(us, n) # None /\ ~ IsAudio(c, t)
    BY FirstFacts DEF Fitting, Seen
  <2>4. Heard(c, o, t) => IsAudio(c, t)
    BY FirstFacts DEF Heard
  <2> QED BY <2>2, <2>3, <2>4
<1>5. ~ IsAudio(c, t) => AllWhole(us)
  BY EncodedFacts
<1>0. NormalUnits(Sealed(c, o))[t] = s /\ NormalUnits(CUnits(c))[t] = z
  OBVIOUS
<1> HIDE DEF n, us, x, s, z
<1>6. ASSUME NEW k \in 1 .. Len(us)
      PROVE  /\ s[k].pts = z[k].pts /\ s[k].dts = z[k].dts /\ s[k].data = x[k].data /\ z[k].data = us[k].data
  BY <1>2, <1>3, NormalFacts
<1>7. ASSUME NEW k \in 1 .. Len(us), IsAudio(c, t)
      PROVE  Len(x[k].data) = Len(us[k].data)
  <2>1. CASE Heard(c, o, t)
    <3>1. LET r == AudioJoin(us, TRUE)
          IN  \A j \in 1 .. Len(us) : Len(r[j].data) = Len(us[j].data)
      BY <1>2, AudioJoinFacts
    <3>2. x = AudioJoin(us, TRUE)
      BY <1>4, <2>1
    <3> QED BY <3>1, <3>2
  <2>2. CASE ~ Heard(c, o, t)
    BY <1>4, <1>7, <2>2
  <2> QED BY <2>1, <2>2
<1>8. ASSUME NEW k \in 1 .. Len(us), ~ IsAudio(c, t)
      PROVE  {x[k].data[j].of : j \in DOMAIN x[k].data} = {us[k].data[1].of}
  <2> DEFINE d == us[k].data
             e == x[k].data
  <2>1. d \in Data /\ PictureWhole(d) /\ e \in Data
    <3>1. \A u \in AnyUnit : u.data \in Data
      BY DEF AnyUnit, Data
    <3> QED BY <1>2, <1>5, <1>8, <3>1 DEF AllWhole
  <2>2. \E lock \in Locks : e = Relocked(d, lock)
    <3>1. CASE Seen(c, t)
      <4>1. PICK g, j : IsAt(us, n, k, g, j)
        <5>1. us \in Seq(AnyUnit) /\ n \in Int /\ Groups(us, n) # None
          BY <1>1, <1>2, <1>4, <3>1
        <5>2. \A i \in 1 .. Len(us) : \E g, j : IsAt(us, n, i, g, j)
          BY ONLY <5>1, GroupOf
        <5> QED BY <5>2
      <4>2. us \in Seq(AnyUnit) /\ n \in Int /\ Groups(us, n) # None /\ AllWhole(us)
        BY <1>1, <1>2, <1>4, <1>5, <1>8, <3>1
      <4>3. \A i, g1, j1 : IsAt(us, n, i, g1, j1) => VideoJoin(us, n, TRUE)[i].data =
                Relocked(us[i].data, Relabelled(us[i].data[1].lock, <<Number(g1), j1>>, TRUE))
        BY ONLY <4>2, WholeJoin
      <4>4. e = Relocked(d, <<Number(g), j>>)
        BY <1>4, <3>1, <4>1, <4>3 DEF Relabelled
      <4>5. <<Number(g), j>> \in Locks
        <5>1. g \in 1 .. Len(GroupStarts(us, n)) /\ j \in 1 .. Len(Groups(us, n)[g])
          BY <4>1 DEF IsAt
        <5>2. Len(GroupStarts(us, n)) \in Nat /\ Len(Groups(us, n)[g]) \in Nat
          BY <4>2, <5>1, GroupsFacts
        <5>3. g \in Nat \ {0} /\ j \in Nat
          BY <5>1, <5>2
        <5>4. Number(g) \in Nat
          BY <5>3, NumberIs
        <5> QED BY <5>3, <5>4 DEF Locks, Label
      <4> QED BY <4>4, <4>5
    <3>2. CASE ~ Seen(c, t)
      <4>1. e = d
        BY <1>4, <1>8, <3>2
      <4>2. d = Relocked(d, d[1].lock) /\ d[1].lock \in Locks
        <5> HIDE DEF d, e
        <5> QED BY <2>1, WholeFacts DEF PictureWhole, Relocked
      <4> QED BY <4>1, <4>2
    <3> QED BY <3>1, <3>2
  <2> HIDE DEF d, e
  <2>3. PICK lock \in Locks : e = Relocked(d, lock)
    BY <2>2
  <2>4. \A j \in 1 .. Len(e) : e[j].of = d[1].of
    BY <2>1, <2>3, RelockedFacts
  <2>5. 1 \in DOMAIN e /\ DOMAIN e = 1 .. Len(e)
    BY <2>1 DEF Data
  <2> QED BY <2>4, <2>5 DEF d, e
<1>9. \A k \in 1 .. Len(us) : ~ IsAudio(c, t) => SameView(s[k], z[k])
  <2> SUFFICES ASSUME NEW k \in 1 .. Len(us), ~ IsAudio(c, t) PROVE SameView(s[k], z[k])
    OBVIOUS
  <2> DEFINE a == s[k].data
             b == z[k].data
  <2>1. a = x[k].data /\ b = us[k].data
    BY <1>6
  <2>2. {x[k].data[j].of : j \in DOMAIN x[k].data} = {us[k].data[1].of}
    BY <1>8
  <2>3. {a[j].of : j \in DOMAIN a} = {b[1].of}
    <3> HIDE DEF a, b
    <3> QED BY ONLY <2>1, <2>2
  <2> QED BY ONLY <2>3 DEF SameView, a, b
<1> QED BY <1>0, <1>3, <1>6, <1>7, <1>9

-----------------------------------------------------------------------------
(* Packets of the program and of its tables, and what their loss does.       *)

(* Packets of the program's tracks and of its tables.                        *)
Sent(c) == {p \in Wire(c) : p.pid \in DOMAIN c \cup Tables}

(* A stream that mux wrote has no other packets.                             *)
LEMMA MuxSent ==
  ASSUME NEW c \in Carriers, NEW us \in Programs(c)
  PROVE  Mux(c, us) \in Seq(Sent(c))
<1> DEFINE ps == MuxParts(c, us)
<1>1. /\ Mux(c, us) = FlattenSeq(ps) /\ ps \in Seq(Seq(Wire(c)))
      /\ Len(ps) \in Nat
      /\ \A i \in 1 .. Len(ps) :
            /\ ps[i] = MuxPart(c, us, i) /\ Lead(c, us, i) \in {<<>>, Psi}
            /\ UnitAt(us, i) \in AnyUnit /\ Order(us)[i][1] \in DOMAIN c
            /\ Block(c, Order(us)[i][1], UnitAt(us, i)) \in Seq(Wire(c))
  BY MuxFacts
<1> HIDE DEF ps
<1>2. <<>> \in Seq(Sent(c)) /\ Psi \in Seq(Sent(c))
  <2>1. Psi = <<Table(Pat), Table(Pmt)>> /\ Table(Pat) \in Sent(c) /\ Table(Pmt) \in Sent(c)
    BY PsiTyped DEF Psi, Sent
  <2> QED BY <2>1
<1>3. ASSUME NEW i \in 1 .. Len(ps)
      PROVE  ps[i] \in Seq(Sent(c))
  <2> DEFINE t == Order(us)[i][1]
             u == UnitAt(us, i)
             b == Block(c, t, u)
  <2>1. t \in DOMAIN c /\ u \in AnyUnit /\ b \in Seq(Wire(c))
    BY <1>1
  <2> HIDE DEF t, u
  <2>2. \A k \in 1 .. Len(b) : b[k].pid = t
    BY <2>1, BlockPids
  <2> HIDE DEF b
  <2>3. b \in Seq(Sent(c))
    <3>1. \A k \in 1 .. Len(b) : b[k] \in Sent(c)
      BY <2>1, <2>2 DEF Sent
    <3> QED BY <2>1, <3>1
  <2>4. Lead(c, us, i) \in Seq(Sent(c))
    BY <1>1, <1>2
  <2>5. ps[i] = Lead(c, us, i) \o b
    BY <1>1 DEF MuxPart, b, t, u
  <2> QED BY <2>3, <2>4, <2>5, SeqJoined
<1>4. ps \in Seq(Seq(Sent(c)))
  <2> DEFINE T == Seq(Sent(c))
             W == Seq(Wire(c))
  <2>1. \A i \in 1 .. Len(ps) : ps[i] \in T
    BY <1>3
  <2>2. ps \in Seq(W)
    BY <1>1
  <2> HIDE DEF T, W
  <2>3. ps \in Seq(T)
    BY <2>1, <2>2
  <2> QED BY <2>3 DEF T
<1> QED BY <1>1, <1>4, FlattenTyped

(* Nor has one in which a packet is lost or repeated.                        *)
LEMMA AlteredTyped ==
  ASSUME NEW S, NEW O \in Seq(S), NEW i \in 1 .. Len(O), NEW F, Altered(F, O, i)
  PROVE  F \in Seq(S)
<1>1. /\ SubSeq(O, 1, i - 1) \in Seq(S) /\ SubSeq(O, i + 1, Len(O)) \in Seq(S) /\ SubSeq(O, i, Len(O)) \in Seq(S)
      /\ <<O[i]>> \in Seq(S)
  OBVIOUS
<1>2. CASE F = RemoveAt(O, i)
  BY <1>1, <1>2, SeqJoined DEF RemoveAt
<1>3. CASE F = InsertAt(O, i, O[i])
  <2>1. SubSeq(O, 1, i - 1) \o <<O[i]>> \in Seq(S)
    BY <1>1, SeqJoined
  <2>2. (SubSeq(O, 1, i - 1) \o <<O[i]>>) \o SubSeq(O, i, Len(O)) \in Seq(S)
    BY <1>1, <2>1, SeqJoined
  <2> QED BY <1>3, <2>2 DEF InsertAt
<1> QED BY <1>2, <1>3 DEF Altered

(* F is what one fault made of the stream: the packet it hit had this pid.   *)
Changed(c, us, F, pid) ==
    \E i \in 1 .. Len(Mux(c, us)) : Altered(F, Mux(c, us), i) /\ pid = Mux(c, us)[i].pid

(* Nor has what arrives.                                                     *)
LEMMA ChangedTyped ==
  ASSUME NEW c \in Carriers, NEW us \in Programs(c), NEW F, NEW pid, Changed(c, us, F, pid)
  PROVE  F \in Seq(Sent(c)) /\ pid \in DOMAIN c \cup Tables
<1> DEFINE O == Mux(c, us)
<1>1. O \in Seq(Sent(c))
  BY MuxSent
<1>2. PICK i \in 1 .. Len(O) : Altered(F, O, i) /\ pid = O[i].pid
  BY DEF Changed
<1> HIDE DEF O
<1>3. O[i] \in Sent(c)
  BY <1>1, <1>2
<1> QED BY <1>1, <1>2, <1>3, AlteredTyped DEF Sent

(* A track has not the number of a table.                                    *)
LEMMA TracksAreNoTables == \A c \in Carriers : \A t \in DOMAIN c : t \notin Tables
  BY CarrierTyped

(* A packet of track p lost or repeated: every other track is received       *)
(* whole, and p misses two units at most.                                    *)
LEMMA TrackDamageHeard ==
  ASSUME NEW c \in Carriers, NEW us \in Programs(c), Ordered(c, us), NEW F, NEW p \in DOMAIN c, Changed(c, us, F, p)
  PROVE  /\ \A t \in DOMAIN c : t # p => Received(c, F)[t] = NormalUnits(us)[t]
         /\ Cardinality(Missing(NormalUnits(us)[p], Received(c, F)[p])) <= 2
<1> DEFINE O == Mux(c, us)
<1>1. PICK i \in 1 .. Len(O) : Altered(F, O, i) /\ p = O[i].pid
  BY DEF Changed
<1>2. PICK k \in 1 .. Len(Order(us)), w \in Seq(Wire(c)) :
            \/ O[i].pid \in Tables /\ TableDamaged(c, us, F, k, w)
            \/ O[i].pid = Order(us)[k][1] /\ BlockDamaged(c, us, F, k, w)
  BY <1>1, AlteredPart
<1>3. p = Order(us)[k][1] /\ BlockDamaged(c, us, F, k, w)
  BY <1>1, <1>2, TracksAreNoTables
<1>4. LET q == Order(us)[k][1]
          ns == NormalUnits(us)
      IN  /\ \A t \in DOMAIN c : t # q => Received(c, F)[t] = ns[t]
          /\ Cardinality(Missing(ns[q], Received(c, F)[q])) <= 2
  BY <1>3, BlockDamageHeard
<1> QED BY <1>3, <1>4

(* A table lost or repeated: of every track a suffix is received, and of     *)
(* the clock track all but PsiPeriod units at most.                          *)
LEMMA TableLossHeard ==
  ASSUME NEW c \in Carriers, NEW us \in Programs(c), Ordered(c, us), NEW F, NEW p \in Tables, Changed(c, us, F, p)
  PROVE  /\ \A t \in DOMAIN c : IsSuffix(Received(c, F)[t], NormalUnits(us)[t])
         /\ \A t \in ClockTrack(c) : Len(NormalUnits(us)[t]) - Len(Received(c, F)[t]) <= PsiPeriod
<1> DEFINE O == Mux(c, us)
<1>1. PICK i \in 1 .. Len(O) : Altered(F, O, i) /\ p = O[i].pid
  BY DEF Changed
<1>2. PICK k \in 1 .. Len(Order(us)), w \in Seq(Wire(c)) :
            \/ O[i].pid \in Tables /\ TableDamaged(c, us, F, k, w)
            \/ O[i].pid = Order(us)[k][1] /\ BlockDamaged(c, us, F, k, w)
  BY <1>1, AlteredPart
<1>3. Order(us)[k][1] \in DOMAIN c
  BY OrderFacts
<1>4. TableDamaged(c, us, F, k, w)
  BY <1>1, <1>2, <1>3, TracksAreNoTables
<1>5. LET ns == NormalUnits(us)
      IN  /\ \A t \in DOMAIN c : IsSuffix(Received(c, F)[t], ns[t])
          /\ \A t \in ClockTrack(c) : Len(ns[t]) - Len(Received(c, F)[t]) <= PsiPeriod
  BY <1>4, TableDamageHeard
<1> QED BY <1>5

-----------------------------------------------------------------------------
(* How demux stands in the carrier while ts-lock reads it.                   *)

\* The units of a track whose beginning has been read.
Begun(t) == IF fed[t][2] = 0 THEN fed[t][1] ELSE fed[t][1] + 1

\* The buffer of unit u of track t when n of its cells have come.
Buffered(t, u, n) ==
    LET unit == carrier[t].units[u]
    IN  Buffer([pts |-> unit.pts, dts |-> unit.dts,
                length |-> Length(carrier, t, unit.data)], SubSeq(unit.data, 1, n))

\* The cells read of the last of them.
Arrived(t) == IF fed[t][2] = 0 THEN Len(carrier[t].units[Begun(t)].data) ELSE fed[t][2]

\* A track is read up to a whole unit or into one.
FedType(t) ==
    /\ fed[t] \in Nat \X Nat
    /\ fed[t][1] <= Len(carrier[t].units)
    /\ fed[t][2] # 0 => /\ fed[t][1] < Len(carrier[t].units)
                        /\ fed[t][2] < Len(carrier[t].units[fed[t][1] + 1].data)

\* The last unit begun is in the buffer as far as it has come, the others are
\* whole.
Reassembled(t) ==
    IF Begun(t) = 0 THEN dem.units[t] = <<>> /\ dem.buffers[t] = NoBuffer
    ELSE /\ dem.units[t] = SubSeq(carrier[t].units, 1, Begun(t) - 1)
         /\ dem.buffers[t] = Buffered(t, Begun(t), Arrived(t))

\* The demultiplexer has the tracks of the carrier.
DemType ==
    /\ fed = [t \in Tracks |-> fed[t]]
    /\ dem = [pat |-> dem.pat, pmt |-> dem.pmt, buffers |-> dem.buffers, units |-> dem.units]
    /\ dem.buffers = [t \in Tracks |-> dem.buffers[t]]
    /\ dem.units = [t \in Tracks |-> dem.units[t]]

\* So each track stands while the carrier is read.
AtDemux == DemType /\ \A t \in Tracks : FedType(t) /\ Reassembled(t)

Inv == /\ carrier \in Carriers
       /\ Forward /\ pc = "demux" => AtDemux
       /\ Forward /\ pc = "video" => DemuxReassembles

(* A carrier is a sequence of tracks, none of which has a table's number.     *)
LEMMA CarrierFacts ==
  ASSUME carrier \in Carriers
  PROVE  /\ carrier \in Seq(Track) /\ Tracks = 1 .. Len(carrier) /\ Len(carrier) \in Nat
         /\ \A t \in Tracks : /\ carrier[t] \in Track /\ carrier[t].units \in Seq(Unit)
                              /\ t \in Nat \ {0} /\ t \notin Tables
                              /\ PidNull # t /\ Unlisted # t
<1>1. carrier \in Seq(Track)
  BY TransportAssumption
<1>2. Tracks = 1 .. Len(carrier) /\ Len(carrier) \in Nat
  BY <1>1 DEF Tracks
<1>3. ASSUME NEW t \in Tracks
      PROVE  /\ carrier[t] \in Track /\ carrier[t].units \in Seq(Unit)
             /\ t \in Nat \ {0} /\ t \notin Tables /\ PidNull # t /\ Unlisted # t
  <2>1. carrier[t] \in Track
    BY <1>1, <1>2
  <2>2. carrier[t].units \in Seq(Unit)
    BY <2>1 DEF Track
  <2>3. t \in Nat \ {0} /\ t \notin Tables /\ PidNull # t /\ Unlisted # t
    BY <1>2 DEF Tables, Pat, Pmt, PidNull, Unlisted
  <2> QED BY <2>1, <2>2, <2>3
<1> QED BY <1>1, <1>2, <1>3

(* A buffer that holds the whole of a unit parses to that unit.               *)
LEMMA ParseWhole ==
  ASSUME carrier \in Carriers, NEW t \in Tracks, NEW u \in 1 .. Len(carrier[t].units)
  PROVE  Parse(Buffered(t, u, Len(carrier[t].units[u].data))) = carrier[t].units[u]
<1> DEFINE unit == carrier[t].units[u]
<1>1. unit \in Unit
  BY CarrierFacts
<1>2. unit = [pts |-> unit.pts, dts |-> unit.dts, data |-> unit.data] /\ unit.data \in Seq(Cell)
  BY <1>1 DEF Unit
<1>3. SubSeq(unit.data, 1, Len(unit.data)) = unit.data /\ Len(unit.data) \in Nat
  BY <1>2, SubSeqWhole
<1>4. Length(carrier, t, unit.data) \in {None, Len(unit.data)}
  BY DEF Length
<1> HIDE DEF unit
<1>5. ~(Length(carrier, t, unit.data) # None /\ Length(carrier, t, unit.data) < Len(unit.data))
  BY <1>3, <1>4
<1> QED BY <1>2, <1>3, <1>5 DEF Parse, Buffered, Buffer, unit

(* Closing the buffer of a track whose last unit is whole adds that unit.    *)
LEMMA CloseWhole ==
  ASSUME carrier \in Carriers, DemType, NEW t \in Tracks, FedType(t), Reassembled(t),
         fed[t][2] = 0
  PROVE  /\ Close(dem, t).units = [dem.units EXCEPT ![t] = SubSeq(carrier[t].units, 1, fed[t][1])]
         /\ Close(dem, t).buffers = [dem.buffers EXCEPT ![t] = NoBuffer]
         /\ Close(dem, t).pat = dem.pat /\ Close(dem, t).pmt = dem.pmt
         /\ Close(dem, t) = [pat |-> dem.pat, pmt |-> dem.pmt,
                              buffers |-> Close(dem, t).buffers, units |-> Close(dem, t).units]
<1> DEFINE us == carrier[t].units
           u == fed[t][1]
<1>1. us \in Seq(Unit) /\ u \in Nat /\ u <= Len(us) /\ Begun(t) = u
  BY CarrierFacts DEF FedType, Begun
<1>2. CASE u = 0
  <2>1. dem.units[t] = <<>> /\ dem.buffers[t] = NoBuffer
    BY <1>1, <1>2 DEF Reassembled
  <2>2. Close(dem, t) = dem
    BY <2>1 DEF Close, NoBuffer
  <2>3. SubSeq(us, 1, u) = <<>>
    BY <1>1, <1>2, SubSeqWhole
  <2> QED BY <2>1, <2>2, <2>3 DEF DemType
<1>3. CASE u # 0
  <2>1. /\ dem.units[t] = SubSeq(us, 1, u - 1)
        /\ dem.buffers[t] = Buffered(t, u, Len(us[u].data))
    BY <1>1, <1>3 DEF Reassembled, Arrived
  <2>2. Parse(dem.buffers[t]) = us[u]
    <3>1. u \in 1 .. Len(us)
      BY <1>1, <1>3
    <3> QED BY <2>1, <3>1, ParseWhole
  <2>3. Append(SubSeq(us, 1, u - 1), us[u]) = SubSeq(us, 1, u)
    <3>1. u - 1 \in Nat /\ u - 1 < Len(us) /\ (u - 1) + 1 = u
      BY <1>1, <1>3
    <3> HIDE DEF us, u
    <3> QED BY <1>1, <3>1, SubSeqStep
  <2>4. dem.buffers[t].open
    <3>1. \A head, data : Buffer(head, data).open
      BY DEF Buffer
    <3> QED BY <2>1, <3>1 DEF Buffered
  <2>5. Close(dem, t) = [dem EXCEPT !.units[t] = Append(@, Parse(dem.buffers[t])),
                                    !.buffers[t] = NoBuffer]
    BY <2>4 DEF Close
  <2> HIDE DEF us, u
  <2>6. Append(dem.units[t], Parse(dem.buffers[t])) = SubSeq(us, 1, u)
    BY <2>1, <2>2, <2>3
  <2> QED BY <2>5, <2>6 DEF DemType, us, u
<1> QED BY <1>2, <1>3
(* A packet of no track changes no unit and no buffer.                        *)
LEMMA StrayFacts ==
  ASSUME carrier \in Carriers, AtDemux, NEW p \in Strays \cup {Table(Pat), Table(Pmt)}
  PROVE  /\ Take(dem, p).units = dem.units /\ Take(dem, p).buffers = dem.buffers
         /\ Take(dem, p) = [pat |-> Take(dem, p).pat, pmt |-> Take(dem, p).pmt,
                            buffers |-> dem.buffers, units |-> dem.units]
<1>1. DemType /\ DOMAIN dem.units = Tracks
  BY DEF AtDemux, DemType
<1>2. CASE p.pid \in Tables
  <2>1. Take(dem, p) = dem \/ Take(dem, p) = TakeTable(dem, p)
    BY <1>2 DEF Take
  <2> QED BY <1>1, <2>1 DEF DemType, TakeTable
<1>4. ASSUME NEW t \in Tracks, p = Packet(t, FALSE, None, <<>>)
      PROVE  Take(dem, p) = dem
  BY <1>4 DEF Take, Known, Packet
<1>5. ASSUME NEW t \in Tracks, fed[t] = <<0, 0>>, p = Packet(t, FALSE, None, <<Filler>>)
      PROVE  Take(dem, p) = dem
  <2>1. Begun(t) = 0 /\ ~dem.buffers[t].open
    BY <1>5 DEF AtDemux, Reassembled, Begun, NoBuffer
  <2>2. p.pid = t /\ ~p.start /\ t \notin Tables
    BY <1>5, CarrierFacts DEF Packet
  <2> QED BY <2>1, <2>2 DEF Take, TakePes
<1>6. p \in {Packet(t, FALSE, None, <<>>) : t \in Tracks}
        \cup {Packet(t, FALSE, None, <<Filler>>) : t \in {s \in Tracks : fed[s] = <<0, 0>>}}
      => Take(dem, p) = dem
  BY <1>4, <1>5
<1>7. Table(Pat).pid \in Tables /\ Table(Pmt).pid \in Tables
  BY DEF Table, Packet, Tables
<1>8. p.pid \in Tables \/ Take(dem, p) = dem
  <2>1. \A pid \in Tables : Table(pid).pid \in Tables
    BY DEF Table, Packet
  <2>2. p = Packet(PidNull, FALSE, None, <<Filler>>) \/ p = Packet(Unlisted, TRUE, None, <<Filler>>)
        => Take(dem, p) = dem
    <3>1. PidNull \notin Tables \cup Tracks /\ Unlisted \notin Tables \cup Tracks
      BY CarrierFacts DEF Tables, Pat, Pmt, PidNull, Unlisted
    <3> QED BY <1>1, <3>1 DEF Take, Known, Packet
  <2> QED BY <1>6, <1>7, <2>1, <2>2 DEF Strays
<1> QED BY <1>1, <1>2, <1>8 DEF DemType
(* The first packet of a unit closes the unit before it and opens a buffer.  *)
LEMMA StartStep ==
  ASSUME carrier \in Carriers, AtDemux, dem.pmt, NEW t \in Tracks, ~AllFed(t),
         fed[t][2] = 0, NEW d, d = Take(dem, CarrierPacket(t))
  PROVE  /\ d.units = [dem.units EXCEPT ![t] = SubSeq(carrier[t].units, 1, fed[t][1])]
         /\ d.buffers = [dem.buffers EXCEPT ![t] = Buffered(t, fed[t][1] + 1, 1)]
         /\ d = [pat |-> d.pat, pmt |-> d.pmt, buffers |-> d.buffers, units |-> d.units]
<1> DEFINE p == CarrierPacket(t)
           u == fed[t][1]
           unit == carrier[t].units[u + 1]
           head == [pts |-> unit.pts, dts |-> unit.dts, length |-> Length(carrier, t, unit.data)]
<1>1. p = Packet(t, TRUE, head, SubSeq(unit.data, 1, 1))
  BY DEF CarrierPacket
<1> HIDE DEF p, u, unit, head
<1>2. p.pid = t /\ p.start /\ p.head = head /\ p.data = SubSeq(unit.data, 1, 1)
  BY <1>1 DEF Packet
<1>3. DemType /\ FedType(t) /\ Reassembled(t)
  BY DEF AtDemux
<1>4. t \notin Tables /\ t \in DOMAIN dem.units
  BY <1>3, CarrierFacts DEF DemType
<1>5. d = TakePes(dem, p)
  BY <1>2, <1>4 DEF Take, Known, p
<1>6. d = [Close(dem, t) EXCEPT !.buffers[t] = Buffer(head, SubSeq(unit.data, 1, 1))]
  BY <1>2, <1>5 DEF TakePes
<1> DEFINE c == Close(dem, t)
<1>7. /\ c.units = [dem.units EXCEPT ![t] = SubSeq(carrier[t].units, 1, u)]
      /\ c.buffers = [dem.buffers EXCEPT ![t] = NoBuffer]
      /\ c = [pat |-> dem.pat, pmt |-> dem.pmt, buffers |-> c.buffers, units |-> c.units]
  BY <1>3, CloseWhole DEF u
<1>8. Buffer(head, SubSeq(unit.data, 1, 1)) = Buffered(t, u + 1, 1)
  BY DEF Buffered, head, unit
<1> HIDE DEF c
<1>9. /\ d.units = c.units
      /\ d.buffers = [c.buffers EXCEPT ![t] = Buffered(t, u + 1, 1)]
      /\ d = [pat |-> d.pat, pmt |-> d.pmt, buffers |-> d.buffers, units |-> d.units]
  BY <1>6, <1>7, <1>8 DEF c
<1>10. [[dem.buffers EXCEPT ![t] = NoBuffer] EXCEPT ![t] = Buffered(t, u + 1, 1)]
       = [dem.buffers EXCEPT ![t] = Buffered(t, u + 1, 1)]
  BY <1>3 DEF DemType
<1> QED BY <1>7, <1>9, <1>10 DEF u

(* A further packet of a unit is appended to its buffer.                      *)
LEMMA ContinueStep ==
  ASSUME carrier \in Carriers, AtDemux, dem.pmt, NEW t \in Tracks, ~AllFed(t),
         fed[t][2] # 0, NEW d, d = Take(dem, CarrierPacket(t))
  PROVE  /\ d.units = dem.units
         /\ d.buffers = [dem.buffers EXCEPT ![t] = Buffered(t, fed[t][1] + 1, fed[t][2] + 1)]
         /\ d = [pat |-> d.pat, pmt |-> d.pmt, buffers |-> d.buffers, units |-> d.units]
<1> DEFINE p == CarrierPacket(t)
           u == fed[t][1]
           n == fed[t][2]
           unit == carrier[t].units[u + 1]
           head == [pts |-> unit.pts, dts |-> unit.dts, length |-> Length(carrier, t, unit.data)]
<1>1. p.pid = t /\ ~p.start /\ p.data = <<unit.data[n + 1]>>
  BY DEF CarrierPacket, Packet
<1>2. DemType /\ FedType(t) /\ Reassembled(t) /\ t \notin Tables /\ t \in DOMAIN dem.units
  BY CarrierFacts DEF AtDemux, DemType
<1>3. u \in Nat /\ n \in Nat /\ u < Len(carrier[t].units) /\ n < Len(unit.data)
  BY <1>2 DEF FedType
<1>4. unit.data \in Seq(Cell)
  <2>1. unit \in Unit
    BY <1>3, CarrierFacts
  <2> QED BY <2>1 DEF Unit
<1>5. Begun(t) = u + 1 /\ Arrived(t) = n
  BY DEF Begun, Arrived
<1>6. dem.buffers[t] = Buffered(t, u + 1, n)
  BY <1>2, <1>3, <1>5 DEF Reassembled
<1>7. dem.buffers[t] = Buffer(head, SubSeq(unit.data, 1, n))
  BY <1>6 DEF Buffered
<1> HIDE DEF p, u, n, unit, head
<1>8. d = TakePes(dem, p)
  BY <1>1, <1>2 DEF Take, Known, p
<1> DEFINE cell == <<unit.data[n + 1]>>
           part == SubSeq(unit.data, 1, n)
<1>9. part \o cell = SubSeq(unit.data, 1, n + 1)
  BY <1>3, <1>4, SubSeqStep
<1>10. p.data = cell
  BY <1>1
<1> HIDE DEF cell, part
<1>11. dem.buffers[t] = Buffer(head, part)
  BY <1>7 DEF part
<1>12. dem.buffers[t].open /\ dem.buffers[t].head = head /\ dem.buffers[t].data = part
  BY <1>11 DEF Buffer
<1>13. d = [dem EXCEPT !.buffers[t] = Buffer(head, part \o cell)]
  <2>1. TakePes(dem, p) = [dem EXCEPT !.buffers[p.pid] =
                               Buffer(dem.buffers[p.pid].head, dem.buffers[p.pid].data \o p.data)]
    BY <1>1, <1>12, Zenon DEF TakePes
  <2> QED BY <1>1, <1>8, <1>10, <1>12, <2>1, Zenon
<1>14. Buffer(head, part \o cell) = Buffered(t, u + 1, n + 1)
  BY <1>9 DEF Buffered, head, unit
<1>15. d = [dem EXCEPT !.buffers = [dem.buffers EXCEPT ![t] = Buffered(t, u + 1, n + 1)]]
  BY <1>2, <1>13, <1>14, Zenon
<1> QED BY <1>2, <1>15 DEF DemType, u, n

(* How far the file is read after one packet more of a track.                 *)
LEMMA AdvanceFacts ==
  ASSUME carrier \in Carriers, NEW t \in Tracks, FedType(t), ~AllFed(t),
         fed \in [Tracks -> Nat \X Nat], carrier' = carrier,
         fed' = [fed EXCEPT ![t] = Advanced(t)]
  PROVE  /\ FedType(t)' /\ fed' \in [Tracks -> Nat \X Nat]
         /\ Begun(t)' = fed[t][1] + 1
         /\ Arrived(t)' = fed[t][2] + 1
<1> DEFINE us == carrier[t].units
           u == fed[t][1]
           n == fed[t][2]
           k == Len(us[u + 1].data)
<1>1. us \in Seq(Unit) /\ u \in Nat /\ n \in Nat /\ u <= Len(us) /\ u # Len(us)
  BY CarrierFacts DEF FedType, AllFed
<1>2. k \in Nat \ {0}
  <2>1. us[u + 1] \in Unit
    BY <1>1
  <2>2. us[u + 1].data \in Seq(Cell) /\ us[u + 1].data # <<>>
    BY <2>1 DEF Unit
  <2> QED BY <2>2, NotEmpty
<1>3. n # 0 => n < k
  BY <1>1 DEF FedType
<1>4. u + 1 <= Len(us) /\ u < Len(us)
  BY <1>1
<1>5. Advanced(t) = IF n + 1 >= k THEN <<u + 1, 0>> ELSE <<u, n + 1>>
  BY DEF Advanced
<1>6. fed'[t] = Advanced(t)
  OBVIOUS
<1>7. FedType(t)' = (/\ fed'[t] \in Nat \X Nat
                     /\ fed'[t][1] <= Len(us)
                     /\ fed'[t][2] # 0 => /\ fed'[t][1] < Len(us)
                                          /\ fed'[t][2] < Len(us[fed'[t][1] + 1].data))
  BY DEF FedType
<1>8. Begun(t)' = IF fed'[t][2] = 0 THEN fed'[t][1] ELSE fed'[t][1] + 1
  BY DEF Begun
<1>9. Arrived(t)' = IF fed'[t][2] = 0 THEN Len(us[Begun(t)'].data) ELSE fed'[t][2]
  BY DEF Arrived
<1>10. CASE n + 1 >= k
  <2>1. fed'[t] = <<u + 1, 0>> /\ n + 1 = k
    BY <1>1, <1>2, <1>3, <1>5, <1>6, <1>10
  <2>2. Begun(t)' = u + 1 /\ Arrived(t)' = n + 1
    BY <1>8, <1>9, <2>1
  <2>3. FedType(t)' /\ fed'[t] \in Nat \X Nat
    BY <1>1, <1>4, <1>7, <2>1
  <2> QED BY <1>6, <2>2, <2>3
<1>11. CASE ~(n + 1 >= k)
  <2>1. fed'[t] = <<u, n + 1>> /\ n + 1 # 0 /\ n + 1 < k
    BY <1>1, <1>2, <1>5, <1>6, <1>11
  <2>2. Begun(t)' = u + 1 /\ Arrived(t)' = n + 1
    BY <1>8, <1>9, <2>1
  <2>3. FedType(t)' /\ fed'[t] \in Nat \X Nat
    BY <1>1, <1>4, <1>7, <2>1
  <2> QED BY <1>6, <2>2, <2>3
<1> QED BY <1>10, <1>11

(* A packet of a track: its own buffer and units as above, the others' kept.  *)
LEMMA TrackPacketStep ==
  ASSUME Inv, NEW t \in Tracks, ReadTrackPacket(t)
  PROVE  Inv'
<1> DEFINE us == carrier[t].units
           u == fed[t][1]
           n == fed[t][2]
<1>1. /\ carrier' = carrier /\ end' = end /\ pc' = pc /\ pc = "demux" /\ Forward
      /\ dem.pmt /\ ~AllFed(t) /\ dem' = Take(dem, CarrierPacket(t))
      /\ fed' = [fed EXCEPT ![t] = Advanced(t)] /\ carrier \in Carriers
  BY DEF ReadTrackPacket, DemuxOnly, Inv
<1>2. AtDemux /\ DemType /\ \A s \in Tracks : FedType(s) /\ Reassembled(s)
  BY <1>1 DEF Inv, AtDemux
<1>3. fed \in [Tracks -> Nat \X Nat]
  BY <1>2 DEF DemType, FedType
<1>4. /\ FedType(t)' /\ fed' \in [Tracks -> Nat \X Nat]
      /\ Begun(t)' = u + 1 /\ Arrived(t)' = n + 1
  BY <1>1, <1>2, <1>3, AdvanceFacts
<1>5. us \in Seq(Unit) /\ u \in Nat /\ n \in Nat
  BY <1>1, <1>2, CarrierFacts DEF FedType
<1>6. /\ dem'.units = [dem.units EXCEPT ![t] = SubSeq(us, 1, u)]
      /\ dem'.buffers = [dem.buffers EXCEPT ![t] = Buffered(t, u + 1, n + 1)]
      /\ dem' = [pat |-> dem'.pat, pmt |-> dem'.pmt, buffers |-> dem'.buffers,
                 units |-> dem'.units]
  <2>1. CASE n = 0
    <3>1. n + 1 = 1
      BY <2>1
    <3> QED BY <1>1, <1>2, <2>1, <3>1, StartStep
  <2>2. CASE n # 0
    <3>1. /\ dem'.units = dem.units
          /\ dem'.buffers = [dem.buffers EXCEPT ![t] = Buffered(t, u + 1, n + 1)]
          /\ dem' = [pat |-> dem'.pat, pmt |-> dem'.pmt, buffers |-> dem'.buffers,
                     units |-> dem'.units]
      BY <1>1, <1>2, <2>2, ContinueStep
    <3>2. Begun(t) = u + 1 /\ u + 1 # 0 /\ (u + 1) - 1 = u
      BY <1>5, <2>2 DEF Begun
    <3>3. dem.units[t] = SubSeq(us, 1, u)
      BY <1>2, <3>2 DEF Reassembled
    <3>4. dem.units = [dem.units EXCEPT ![t] = SubSeq(us, 1, u)]
      BY <1>2, <3>3 DEF DemType
    <3> QED BY <3>1, <3>4
  <2> QED BY <2>1, <2>2
<1>7. Reassembled(t)'
  <2>1. dem'.units[t] = SubSeq(us, 1, u) /\ dem'.buffers[t] = Buffered(t, u + 1, n + 1)
    BY <1>2, <1>6 DEF DemType
  <2>2. u + 1 # 0 /\ (u + 1) - 1 = u
    BY <1>5
  <2> QED BY <1>1, <1>4, <2>1, <2>2 DEF Reassembled, Buffered
<1>8. ASSUME NEW s \in Tracks, s # t
      PROVE  FedType(s)' /\ Reassembled(s)'
  <2>1. fed'[s] = fed[s]
    BY <1>1, <1>3, <1>8
  <2>2. dem'.units[s] = dem.units[s] /\ dem'.buffers[s] = dem.buffers[s]
    BY <1>2, <1>6, <1>8 DEF DemType
  <2>3. FedType(s) /\ Reassembled(s)
    BY <1>2
  <2> QED BY <1>1, <2>1, <2>2, <2>3 DEF FedType, Reassembled, Begun, Arrived, Buffered
<1>9. Tracks' = Tracks
  BY <1>1 DEF Tracks
<1>10. DemType'
  BY <1>2, <1>4, <1>6, <1>9 DEF DemType
<1>11. AtDemux'
  BY <1>4, <1>7, <1>8, <1>9, <1>10 DEF AtDemux
<1> QED BY <1>1, <1>11 DEF Inv

(* The tables and packets that belong to no track touch no track.             *)
LEMMA OtherPacketStep ==
  ASSUME Inv, ReadFirstTables \/ ReadStray
  PROVE  Inv'
<1>1. /\ carrier' = carrier /\ end' = end /\ pc' = pc /\ pc = "demux" /\ Forward /\ fed' = fed
      /\ carrier \in Carriers /\ AtDemux
  BY DEF ReadFirstTables, ReadStray, DemuxOnly, Inv
<1>2. PICK p \in Strays \cup {Table(Pat), Table(Pmt)} : dem' = Take(dem, p)
  <2>1. CASE ReadFirstTables
    BY <2>1 DEF ReadFirstTables
  <2>2. CASE ReadStray
    BY <2>2 DEF ReadStray
  <2> QED BY <2>1, <2>2
<1>3. /\ dem'.units = dem.units /\ dem'.buffers = dem.buffers
      /\ dem' = [pat |-> dem'.pat, pmt |-> dem'.pmt, buffers |-> dem'.buffers,
                 units |-> dem'.units]
  BY <1>1, <1>2, StrayFacts
<1>4. Tracks' = Tracks
  BY <1>1 DEF Tracks
<1>5. DemType'
  BY <1>1, <1>3, <1>4 DEF AtDemux, DemType
<1>6. ASSUME NEW t \in Tracks
      PROVE  FedType(t)' /\ Reassembled(t)'
  BY <1>1, <1>3 DEF AtDemux, FedType, Reassembled, Begun, Arrived, Buffered
<1> QED BY <1>1, <1>4, <1>5, <1>6 DEF Inv, AtDemux

(* Until the file is read, what demux has is a prefix; at its end, all.       *)
LEMMA PrefixAtDemux ==
  ASSUME Inv, Forward, pc = "demux", NEW t \in Tracks
  PROVE  /\ IsPrefix(dem.units[t], carrier[t].units)
         /\ AllFed(t) => Close(dem, t).units[t] = carrier[t].units
<1> DEFINE us == carrier[t].units
<1>1. /\ carrier \in Carriers /\ DemType /\ FedType(t) /\ Reassembled(t)
      /\ t \in DOMAIN dem.units
  BY DEF Inv, AtDemux, DemType
<1>2. us \in Seq(Unit) /\ fed[t][1] \in Nat /\ fed[t][2] \in Nat /\ fed[t][1] <= Len(us)
  BY <1>1, CarrierFacts DEF FedType
<1>3. Len(us) \in Nat /\ SubSeq(us, 1, 0) = <<>> /\ SubSeq(us, 1, Len(us)) = us
  BY <1>2, SubSeqWhole
<1>4. PICK m \in 0 .. Len(us) : dem.units[t] = SubSeq(us, 1, m)
  <2>1. CASE Begun(t) = 0
    <3>1. dem.units[t] = <<>>
      BY <1>1, <2>1 DEF Reassembled
    <3>2. dem.units[t] = SubSeq(us, 1, 0) /\ 0 \in 0 .. Len(us)
      BY <1>3, <3>1
    <3> QED BY <3>2
  <2>2. CASE Begun(t) # 0
    <3>1. Begun(t) - 1 \in 0 .. Len(us)
      BY <1>1, <1>2, <1>3, <2>2 DEF Begun, FedType
    <3>2. dem.units[t] = SubSeq(us, 1, Begun(t) - 1)
      BY <1>1, <2>2 DEF Reassembled
    <3> QED BY <3>1, <3>2
  <2> QED BY <2>1, <2>2
<1>5. IsPrefix(dem.units[t], us)
  BY <1>2, <1>4, SubSeqIsPrefix
<1>6. ASSUME AllFed(t)
      PROVE  Close(dem, t).units[t] = us
  <2>1. fed[t][1] = Len(us) /\ fed[t][2] = 0
    BY <1>1, <1>2, <1>3, <1>6 DEF AllFed, FedType
  <2>2. Close(dem, t).units = [dem.units EXCEPT ![t] = SubSeq(us, 1, Len(us))]
    BY <1>1, <2>1, CloseWhole
  <2> QED BY <1>1, <1>3, <2>2
<1> QED BY <1>5, <1>6

(* The end of the carrier: units is what demux returns.                      *)
LEMMA DemuxEndStep ==
  ASSUME Inv, DemuxEnd
  PROVE  Inv'
<1>1. /\ carrier' = carrier /\ end' = end /\ dem' = dem /\ pc = "demux" /\ AtEndOfStream
      /\ units' = Finish(dem) /\ pc' \in {"failed", "video"} /\ carrier \in Carriers
  BY DEF DemuxEnd, Fail, Inv
<1>2. SUFFICES ASSUME Forward, pc' = "video" PROVE DemuxReassembles'
  BY <1>1 DEF Inv, Forward
<1>3. SUFFICES ASSUME NEW t \in Tracks
               PROVE  /\ IsPrefix(dem.units[t], carrier[t].units)
                      /\ units'[t] = carrier[t].units
  BY <1>1 DEF DemuxReassembles, Tracks
<1>4. AllFed(t) /\ DOMAIN dem.units = Tracks
  BY <1>1, <1>2, <1>3 DEF AtEndOfStream, Inv, AtDemux, DemType
<1>5. units'[t] = Close(dem, t).units[t]
  BY <1>1, <1>4 DEF Finish
<1> QED BY <1>1, <1>2, <1>4, <1>5, PrefixAtDemux

(* Initially nothing has been read.                                         *)
LEMMA InitInv == Init => Inv
<1> SUFFICES ASSUME Init PROVE Inv
  OBVIOUS
<1>1. /\ carrier \in Carriers /\ pc = "demux" /\ fed = [t \in Tracks |-> <<0, 0>>]
      /\ dem = Demuxer(carrier)
  BY DEF Init
<1>2. DemType
  BY <1>1 DEF DemType, Demuxer, Tracks
<1>3. ASSUME NEW t \in Tracks
      PROVE  FedType(t) /\ Reassembled(t)
  <2>1. carrier[t].units \in Seq(Unit)
    BY <1>1, CarrierFacts
  <2>2. FedType(t)
    BY <1>1, <2>1 DEF FedType
  <2>3. Begun(t) = 0
    BY <1>1 DEF Begun
  <2> QED BY <1>1, <2>2, <2>3 DEF Reassembled, Demuxer, Tracks
<1> QED BY <1>1, <1>2, <1>3 DEF Inv, AtDemux

(* Every other step leaves demux, or the program it read, alone.             *)
LEMMA StepInv == Inv /\ [Next]_vars => Inv'
<1> SUFFICES ASSUME Inv, [Next]_vars PROVE Inv'
  OBVIOUS
<1>1. CASE \E t \in Tracks : ReadTrackPacket(t)
  BY <1>1, TrackPacketStep
<1>2. CASE ReadFirstTables \/ ReadStray
  BY <1>2, OtherPacketStep
<1>3. CASE DemuxEnd
  BY <1>3, DemuxEndStep
<1>4. CASE ReadReceived
  BY <1>4 DEF ReadReceived, DemuxOnly, Inv, Forward
<1>5. CASE \E g \in DOMAIN parts : EndGroup(g)
  <2>1. /\ pc = "video" /\ pc' = pc /\ carrier' = carrier /\ end' = end /\ dem' = dem
        /\ units' = units
    BY <1>5 DEF EndGroup
  <2> QED BY <2>1 DEF Inv, Forward, DemuxReassembles, Tracks
<1>6. CASE VideoEnd
  BY <1>6 DEF VideoEnd, Fail, Inv
<1>7. CASE Audio
  BY <1>7 DEF Audio, Fail, Inv
<1>8. CASE MuxAndWrite \/ Damage
  BY <1>8 DEF MuxAndWrite, Damage, Inv
<1>9. CASE Receive
  BY <1>9 DEF Receive, Inv, Forward
<1>10. CASE UNCHANGED vars
  BY <1>10 DEF vars, Inv, AtDemux, DemType, FedType, Reassembled, Begun, Arrived, Buffered,
     DemuxReassembles, Forward, Tracks
<1> QED BY <1>1, <1>2, <1>3, <1>4, <1>5, <1>6, <1>7, <1>8, <1>9, <1>10 DEF Next, Stopped

(* Whatever the carrier and however its packets are interleaved among each    *)
(* other and with packets that belong to nothing, demux returns every unit of *)
(* every track whole and in order (transport.py, demux).                     *)
THEOREM DemuxReassemblesAlways == Spec => []DemuxReassembles
<1>1. Inv => DemuxReassembles
  <2> SUFFICES ASSUME Inv, Forward, pc \in {"demux", "video"}
               PROVE  DemuxReassembles
    BY DEF DemuxReassembles
  <2>1. CASE pc = "demux"
    BY <2>1, PrefixAtDemux DEF DemuxReassembles
  <2>2. CASE pc = "video"
    BY <2>2 DEF Inv
  <2> QED BY <2>1, <2>2
<1> QED BY <1>1, InitInv, StepInv, PTL DEF Spec

-----------------------------------------------------------------------------
(* The pool of threads.                                                      *)

\* The place of a group in the pool: empty, failed, or its units rewritten.
Outcomes(group, m, forward) ==
    {None, Result("ffedit", <<>>)}
    \cup {r \in {Result("count", <<>>)} : ~ Fits(group, m, forward)}
    \cup {r \in {Result("none", Rebuilt(group, m, forward))} : Fits(group, m, forward)}

\* The pool has a place for each group of the video.
Pooled ==
    /\ VideoTrack # {}
    /\ \A v \in VideoTrack :
          LET groups == Groups(units[v], options.gops)
          IN  /\ carrier[v].codec = "h264" /\ groups # None /\ DOMAIN parts = DOMAIN groups
              /\ \A g \in DOMAIN parts : parts[g] \in Outcomes(groups[g], Number(g), Forward)

\* Why a command may have failed.
Reasons == {"none", "no PMT", "no video", "codec", "no GOP", "range", "ffedit", "count"}

\* What the variables hold, in more detail than TypeOK: the pool has a place
\* for each group of the video, and the file has packets of the program only.
TypeInv ==
    /\ carrier \in Carriers /\ options \in Options /\ end \in {"lock", "unlock"}
    /\ pc \in {"demux", "video", "audio", "mux", "written", "failed"}
    /\ why \in Reasons /\ (pc = "failed" <=> why # "none")
    /\ strays \in 0 .. MaxStray
    /\ \A t \in Tracks : FedType(t)
    /\ dem \in Demuxers(carrier) /\ units \in Programs(carrier) /\ sent \in Programs(carrier)
    /\ file \in Seq(Sent(carrier))
    /\ pc = "video" => Pooled
    /\ pc # "video" => parts = <<>>

(* A track has no video before it: the first one is the only first one.       *)
LEMMA FirstUnique ==
  ASSUME NEW c \in Carriers
  PROVE  /\ \A v, w \in First(c, FALSE) : v = w
         /\ \A v, w \in First(c, TRUE) : v = w
<1>1. DOMAIN c = 1 .. Len(c) /\ Len(c) \in Nat
  BY CarrierTyped
<1>2. ASSUME NEW v \in First(c, FALSE), NEW w \in First(c, FALSE)
      PROVE  v = w
  <2>1. v \in Nat /\ w \in Nat /\ v >= 1 /\ w >= 1 /\ ~ IsAudio(c, v) /\ ~ IsAudio(c, w)
    BY <1>1 DEF First
  <2>2. (\A s \in 1 .. v - 1 : IsAudio(c, s)) /\ (\A s \in 1 .. w - 1 : IsAudio(c, s))
    BY DEF First, IsAudio
  <2>3. ~ (v \in 1 .. w - 1) /\ ~ (w \in 1 .. v - 1)
    BY <2>1, <2>2
  <2> QED BY <2>1, <2>3
<1>3. ASSUME NEW v \in First(c, TRUE), NEW w \in First(c, TRUE)
      PROVE  v = w
  <2>1. v \in Nat /\ w \in Nat /\ v >= 1 /\ w >= 1 /\ IsAudio(c, v) /\ IsAudio(c, w)
    BY <1>1 DEF First
  <2>2. (\A s \in 1 .. v - 1 : ~ IsAudio(c, s)) /\ (\A s \in 1 .. w - 1 : ~ IsAudio(c, s))
    BY DEF First
  <2>3. ~ (v \in 1 .. w - 1) /\ ~ (w \in 1 .. v - 1)
    BY <2>1, <2>2
  <2> QED BY <2>1, <2>3
<1> QED BY <1>2, <1>3

(* A result is of one of these kinds.                                        *)
LEMMA ResultFacts ==
  /\ \A reason, us : Result(reason, us).why = reason /\ Result(reason, us).units = us
  /\ \A group, m, forward : \A r \in Outcomes(group, m, forward) :
        r # None => \/ r.why = "ffedit"
                    \/ r.why = "count" /\ ~ Fits(group, m, forward)
                    \/ r.why = "none" /\ Fits(group, m, forward) /\ r.units = Rebuilt(group, m, forward)
<1>1. \A reason, us : Result(reason, us).why = reason /\ Result(reason, us).units = us
  BY DEF Result
<1> QED BY <1>1 DEF Outcomes

(* What a task of the pool leaves is one of them.                            *)
LEMMA GroupOutcome ==
  ASSUME NEW group, NEW m, NEW result \in GroupResults(group, m)
  PROVE  result \in Outcomes(group, m, Forward)
<1>1. GroupResults(group, m) = {Result("ffedit", <<>>),
         IF ~ Fits(group, m, Forward) THEN Result("count", <<>>) ELSE Result("none", Rebuilt(group, m, Forward))}
  BY DEF GroupResults, Fits, Rebuilt, Transformed
<1> QED BY <1>1 DEF Outcomes

(* When every group has its result, the parts joined are the video.           *)
LEMMA PoolJoins ==
  ASSUME TypeInv, pc = "video", \A g \in DOMAIN parts : Succeeded(g)
  PROVE  /\ Fitting(carrier, units, options.gops, Forward)
         /\ [t \in Tracks |-> IF t \in VideoTrack THEN Joined ELSE units[t]] =
                Joint(carrier, units, options.gops, Forward)
<1> DEFINE fwd == Forward
           n == options.gops
<1>1. Pooled /\ VideoTrack = First(carrier, FALSE) /\ Tracks = DOMAIN carrier
  BY DEF TypeInv, VideoTrack, Tracks
<1>0. \A v \in VideoTrack :
          LET groups == Groups(units[v], n)
          IN  /\ carrier[v].codec = "h264" /\ groups # None /\ DOMAIN parts = DOMAIN groups
              /\ \A g \in DOMAIN parts : parts[g] \in Outcomes(groups[g], Number(g), fwd)
  BY <1>1 DEF Pooled
<1> HIDE DEF fwd, n
<1>2. ASSUME NEW v \in VideoTrack
      PROVE  /\ carrier[v].codec = "h264" /\ Groups(units[v], n) # None
             /\ AllFit(units[v], n, fwd) /\ Joined = VideoJoin(units[v], n, fwd)
  <2> DEFINE groups == Groups(units[v], n)
  <2>1. /\ carrier[v].codec = "h264" /\ groups # None /\ DOMAIN parts = DOMAIN groups
        /\ \A g \in DOMAIN parts : parts[g] \in Outcomes(groups[g], Number(g), fwd)
    BY <1>0
  <2>2. ASSUME NEW g \in DOMAIN parts
        PROVE  Fits(groups[g], Number(g), fwd) /\ parts[g].units = Rebuilt(groups[g], Number(g), fwd)
    <3> DEFINE r == parts[g]
               group == groups[g]
               m == Number(g)
    <3>1. r # None /\ r.why = "none" /\ r \in Outcomes(group, m, fwd)
      BY <2>1 DEF Succeeded
    <3> HIDE DEF r, group, m
    <3>2. Fits(group, m, fwd) /\ r.units = Rebuilt(group, m, fwd)
      BY <3>1, ResultFacts
    <3> QED BY <3>2 DEF r, group, m
  <2>3. AllFit(units[v], n, fwd)
    BY <2>1, <2>2 DEF AllFit
  <2>4. Joined = VideoJoin(units[v], n, fwd)
    <3>1. [g \in DOMAIN parts |-> parts[g].units] = RebuiltGroups(units[v], n, fwd)
      BY <2>1, <2>2 DEF RebuiltGroups
    <3> QED BY <3>1 DEF Joined, VideoJoin
  <2> QED BY <2>1, <2>3, <2>4
<1>3. Fitting(carrier, units, n, fwd)
  BY <1>1, <1>2 DEF Fitting, Pooled
<1>4. [t \in Tracks |-> IF t \in VideoTrack THEN Joined ELSE units[t]] = Joint(carrier, units, n, fwd)
  BY <1>1, <1>2 DEF Joint
<1> QED BY ONLY <1>3, <1>4 DEF fwd, n

(* A group that failed for its number of pictures does not fit.               *)
LEMMA PoolFails ==
  ASSUME TypeInv, pc = "video", NEW g \in DOMAIN parts, parts[g] # None, parts[g].why # "none"
  PROVE  /\ parts[g].why \in {"ffedit", "count"}
         /\ parts[g].why = "count" => ~ Fitting(carrier, units, options.gops, Forward)
<1> DEFINE fwd == Forward
           n == options.gops
<1>1. Pooled /\ VideoTrack = First(carrier, FALSE)
  BY DEF TypeInv, VideoTrack
<1>2. PICK v \in VideoTrack : TRUE
  BY <1>1 DEF Pooled
<1> DEFINE groups == Groups(units[v], n)
           r == parts[g]
<1>3. DOMAIN parts = DOMAIN groups /\ r \in Outcomes(groups[g], Number(g), fwd) /\ r # None /\ r.why # "none"
  BY <1>1, <1>2 DEF Pooled
<1> HIDE DEF fwd, n, r
<1>4. r.why = "ffedit" \/ (r.why = "count" /\ ~ Fits(groups[g], Number(g), fwd))
  BY <1>3, ResultFacts
<1>5. r.why = "count" => ~ AllFit(units[v], n, fwd)
  BY <1>3, <1>4 DEF AllFit
<1>6. r.why = "count" => ~ Fitting(carrier, units, n, fwd)
  BY <1>1, <1>5 DEF Fitting
<1> QED BY ONLY <1>4, <1>6 DEF fwd, n, r

-----------------------------------------------------------------------------
(* What the variables hold.                                                  *)

(* What comes to the demultiplexer is a packet.                              *)
LEMMA FillerTyped == Filler \in AnyCell /\ <<Filler>> \in Seq(AnyCell) /\ <<Filler>> # <<>>
<1>1. Filler \in AnyCell
  BY DEF Filler, AnyCell
<1> HIDE DEF Filler
<1>2. <<Filler>> \in Seq(AnyCell) /\ <<Filler>> # <<>>
  BY <1>1
<1> QED BY <1>1, <1>2

(* A packet of the program is one that demux can read.                       *)
LEMMA PacketTyped ==
  ASSUME NEW c \in Carriers, NEW pid \in Int, NEW start \in BOOLEAN, NEW head \in Heads \cup {None},
         NEW data \in Seq(AnyCell), start /\ pid \in DOMAIN c => head \in Heads /\ data # <<>>
  PROVE  Packet(pid, start, head, data) \in Wire(c)
  BY DEF Packet, Wire

(* So are those that belong to no unit.                                      *)
LEMMA StraysTyped ==
  ASSUME carrier \in Carriers, NEW p \in Strays
  PROVE  p \in Wire(carrier)
<1>1. /\ \A t \in Tracks : t \in Int /\ PidNull # t /\ Unlisted # t
      /\ Tracks = DOMAIN carrier /\ PidNull \in Int /\ Unlisted \in Int /\ <<>> \in Seq(AnyCell)
  BY CarrierFacts DEF Tracks, PidNull, Unlisted
<1>2. Packet(PidNull, FALSE, None, <<Filler>>) \in Wire(carrier)
  BY <1>1, FillerTyped, PacketTyped
<1>3. Packet(Unlisted, TRUE, None, <<Filler>>) \in Wire(carrier)
  BY <1>1, FillerTyped, PacketTyped
<1>4. \A t \in Tracks : Packet(t, FALSE, None, <<>>) \in Wire(carrier) /\ Packet(t, FALSE, None, <<Filler>>) \in Wire(carrier)
  BY <1>1, FillerTyped, PacketTyped
<1>5. \A pid \in Tables : Table(pid) \in Wire(carrier)
  BY PsiTyped
<1> QED BY <1>2, <1>3, <1>4, <1>5 DEF Strays

(* So is the next packet of a track.                                         *)
LEMMA CarrierPacketTyped ==
  ASSUME carrier \in Carriers, NEW t \in Tracks, FedType(t), ~ AllFed(t)
  PROVE  CarrierPacket(t) \in Wire(carrier)
<1> DEFINE us == carrier[t].units
           u == us[fed[t][1] + 1]
           m == fed[t][2]
           head == [pts |-> u.pts, dts |-> u.dts, length |-> Length(carrier, t, u.data)]
<1>1. /\ us \in Seq(Unit) /\ t \in Int /\ Tracks = DOMAIN carrier
      /\ fed[t][1] \in Nat /\ m \in Nat /\ fed[t][1] <= Len(us) /\ fed[t][1] # Len(us)
      /\ (m # 0 => m < Len(u.data))
  BY CarrierFacts DEF FedType, AllFed, Tracks
<1>2. u \in Unit /\ u \in AnyUnit
  <2>1. fed[t][1] + 1 \in 1 .. Len(us)
    BY <1>1
  <2> QED BY <1>1, <2>1, UnitsTyped
<1>3. CarrierPacket(t) = IF m = 0 THEN Packet(t, TRUE, head, SubSeq(u.data, 1, 1))
                         ELSE Packet(t, FALSE, None, <<u.data[m + 1]>>)
  BY DEF CarrierPacket
<1> HIDE DEF u, us
<1>4. u.data \in Seq(AnyCell) /\ u.data # <<>> /\ u.pts \in Times \cup {None} /\ u.dts \in Times \cup {None}
  BY <1>2 DEF AnyUnit
<1> DEFINE d == u.data
<1>5. Len(d) \in Nat \ {0}
  <2> HIDE DEF d
  <2>1. d \in Seq(AnyCell) /\ d # <<>>
    BY <1>4 DEF d
  <2> QED BY <2>1, NotEmpty
<1>6. CASE m = 0
  <2>1. head \in Heads
    <3>1. Length(carrier, t, u.data) \in (Nat \ {0}) \cup {None}
      BY <1>5 DEF Length
    <3> QED BY <1>4, <3>1 DEF Heads
  <2>2. SubSeq(d, 1, 1) \in Seq(AnyCell) /\ SubSeq(d, 1, 1) # <<>>
    <3> HIDE DEF d
    <3>1. d \in Seq(AnyCell)
      BY <1>4 DEF d
    <3> DEFINE z == SubSeq(d, 1, 1)
    <3>2. z \in Seq(AnyCell) /\ Len(z) = 1
      BY <1>5, <3>1
    <3> HIDE DEF z
    <3>3. z # <<>>
      BY <3>2
    <3> QED BY <3>2, <3>3 DEF z
  <2> HIDE DEF head
  <2>3. Packet(t, TRUE, head, SubSeq(u.data, 1, 1)) \in Wire(carrier)
    BY <1>1, <2>1, <2>2, PacketTyped
  <2> QED BY <1>3, <1>6, <2>3
<1>7. CASE m # 0
  <2>1. m + 1 \in 1 .. Len(d)
    BY <1>1, <1>5, <1>7
  <2>2. d[m + 1] \in AnyCell
    <3> HIDE DEF d
    <3>1. d \in Seq(AnyCell)
      BY <1>4 DEF d
    <3> QED BY <2>1, <3>1
  <2> DEFINE cell == d[m + 1]
  <2> HIDE DEF cell
  <2>3. <<cell>> \in Seq(AnyCell)
    BY <2>2 DEF cell
  <2>4. Packet(t, FALSE, None, <<cell>>) \in Wire(carrier)
    BY <1>1, <2>3, PacketTyped
  <2> QED BY <1>3, <1>7, <2>4 DEF cell
<1> QED BY <1>6, <1>7

(* What a command does with the units, video and audio, in the other words.  *)
LEMMA AudioIsDone ==
  ASSUME TypeInv, Audio, pc' = "mux"
  PROVE  units' = Done(carrier, units, options, Forward)
<1>1. Tracks = DOMAIN carrier /\ AudioTrack = First(carrier, TRUE)
  BY DEF Tracks, AudioTrack
<1>2. CASE options.audio
  <2>1. units' = [t \in Tracks |-> IF t \in AudioTrack
                          THEN Recut(LockAudio(Concat(units[t]), Forward), units[t])
                          ELSE units[t]]
    BY <1>2 DEF Audio, Fail
  <2> QED BY <1>1, <1>2, <2>1 DEF Done, AudioJoin
<1>3. CASE ~ options.audio
  <2>1. units' = units
    BY <1>3 DEF Audio, Fail
  <2>2. units = [t \in DOMAIN carrier |-> units[t]]
    BY DEF TypeInv, Programs
  <2> QED BY <1>3, <2>1, <2>2 DEF Done
<1> QED BY <1>2, <1>3

(* Nothing but the demultiplexer's state, the place in the carrier and the   *)
(* rest of the file changes while a stream is read.                          *)
LEMMA ReadType ==
  ASSUME TypeInv, DemuxOnly, pc = "demux", strays' \in 0 .. MaxStray, dem' \in Demuxers(carrier),
         file' \in Seq(Sent(carrier)), \A t \in Tracks : FedType(t)'
  PROVE  TypeInv'
<1>1. /\ carrier' = carrier /\ options' = options /\ end' = end /\ pc' = pc /\ units' = units /\ parts' = parts
      /\ sent' = sent /\ why' = why
  BY DEF DemuxOnly
<1>2. Tracks' = Tracks
  BY <1>1 DEF Tracks
<1> QED BY <1>1, <1>2 DEF TypeInv

(* Each step keeps TypeInv.                                                  *)
LEMMA ReadTrackPacketType ==
  ASSUME Inv, Inv', TypeInv, NEW t \in Tracks, ReadTrackPacket(t)
  PROVE  TypeInv'
<1>1. DemuxOnly /\ pc = "demux" /\ Forward /\ strays' = strays /\ file' = file /\ ~ AllFed(t)
      /\ dem' = Take(dem, CarrierPacket(t))
  BY DEF ReadTrackPacket
<1>2. carrier' = carrier /\ pc' = "demux" /\ end' = end
  BY <1>1 DEF DemuxOnly
<1>3. AtDemux' /\ Tracks' = Tracks
  BY <1>1, <1>2 DEF Inv, Forward, Tracks
<1>4. \A s \in Tracks : FedType(s)'
  BY <1>3 DEF AtDemux
<1>5. CarrierPacket(t) \in Wire(carrier)
  BY <1>1, CarrierPacketTyped DEF TypeInv
<1>6. dem' \in Demuxers(carrier)
  BY <1>1, <1>5, TakeFacts DEF TypeInv
<1>7. strays' \in 0 .. MaxStray /\ file' \in Seq(Sent(carrier))
  BY <1>1 DEF TypeInv
<1> QED BY <1>1, <1>4, <1>6, <1>7, ReadType

LEMMA OtherReadsType ==
  ASSUME TypeInv, ReadFirstTables \/ ReadStray \/ ReadReceived
  PROVE  TypeInv'
<1>1. DemuxOnly /\ pc = "demux" /\ fed' = fed /\ carrier' = carrier
  BY DEF ReadFirstTables, ReadStray, ReadReceived, DemuxOnly
<1>2. \A t \in Tracks : FedType(t)'
  BY <1>1 DEF TypeInv, FedType
<1>3. CASE ReadFirstTables
  <2>1. PICK pid \in Tables : dem' = Take(dem, Table(pid))
    BY <1>3 DEF ReadFirstTables, Tables
  <2>2. Table(pid) \in Wire(carrier)
    BY PsiTyped DEF TypeInv
  <2>3. dem' \in Demuxers(carrier)
    BY <2>1, <2>2, TakeFacts DEF TypeInv
  <2>4. strays' \in 0 .. MaxStray /\ file' \in Seq(Sent(carrier))
    BY <1>3 DEF ReadFirstTables, TypeInv
  <2> QED BY <1>1, <1>2, <2>3, <2>4, ReadType
<1>4. CASE ReadStray
  <2>1. PICK p \in Strays : dem' = Take(dem, p)
    BY <1>4 DEF ReadStray
  <2>2. p \in Wire(carrier)
    BY StraysTyped DEF TypeInv
  <2>3. dem' \in Demuxers(carrier)
    BY <2>1, <2>2, TakeFacts DEF TypeInv
  <2>4. strays' \in 0 .. MaxStray
    <3>1. strays < MaxStray /\ strays' = strays + 1
      BY <1>4 DEF ReadStray
    <3> QED BY <3>1, TransportAssumption DEF TypeInv
  <2>5. file' \in Seq(Sent(carrier))
    BY <1>4 DEF ReadStray, TypeInv
  <2> QED BY <1>1, <1>2, <2>3, <2>4, <2>5, ReadType
<1>5. CASE ReadReceived
  <2>1. file # <<>> /\ dem' = Take(dem, Head(file)) /\ file' = Tail(file) /\ strays' = strays
    BY <1>5 DEF ReadReceived
  <2>2. file \in Seq(Sent(carrier))
    BY DEF TypeInv
  <2>3. Head(file) \in Sent(carrier) /\ Tail(file) \in Seq(Sent(carrier))
    BY <2>1, <2>2
  <2>4. dem' \in Demuxers(carrier)
    BY <2>1, <2>3, TakeFacts DEF TypeInv, Sent
  <2>5. strays' \in 0 .. MaxStray
    BY <2>1 DEF TypeInv
  <2> QED BY <1>1, <1>2, <2>1, <2>3, <2>4, <2>5, ReadType
<1> QED BY <1>3, <1>4, <1>5

LEMMA DemuxEndType ==
  ASSUME TypeInv, DemuxEnd
  PROVE  TypeInv'
<1>1. /\ carrier' = carrier /\ options' = options /\ end' = end /\ fed' = fed /\ strays' = strays /\ dem' = dem
      /\ file' = file /\ sent' = sent /\ units' = Finish(dem) /\ pc = "demux"
  BY DEF DemuxEnd
<1>2. Tracks' = Tracks /\ VideoTrack' = VideoTrack /\ (\A t \in Tracks : FedType(t)')
  BY <1>1 DEF Tracks, VideoTrack, TypeInv, FedType
<1>3. units' \in Programs(carrier)
  BY <1>1, FinishIs DEF TypeInv
<1>4. CASE pc' = "failed"
  <2>1. why' \in {"no PMT", "no video", "codec", "no GOP"} /\ parts' = parts
    BY <1>4 DEF DemuxEnd, Fail
  <2> QED BY <1>1, <1>2, <1>3, <1>4, <2>1 DEF TypeInv, Reasons
<1>5. CASE pc' # "failed"
  <2>1. PICK v \in VideoTrack :
          LET groups == Groups(Finish(dem)[v], options.gops)
          IN  /\ carrier[v].codec = "h264" /\ groups # None
              /\ parts' = [g \in DOMAIN groups |-> None] /\ pc' = "video" /\ why' = why
    BY <1>5 DEF DemuxEnd, Fail
  <2>2. \A w \in VideoTrack : w = v
    BY <2>1, FirstUnique DEF TypeInv, VideoTrack
  <2>3. Pooled'
    BY <1>1, <1>2, <2>1, <2>2 DEF Pooled, Outcomes
  <2>4. why' = "none"
    BY <1>1, <2>1 DEF TypeInv
  <2> QED BY <1>1, <1>2, <1>3, <2>1, <2>3, <2>4 DEF TypeInv
<1> QED BY <1>4, <1>5

LEMMA EndGroupType ==
  ASSUME TypeInv, NEW g \in DOMAIN parts, EndGroup(g)
  PROVE  TypeInv'
<1>1. /\ carrier' = carrier /\ options' = options /\ end' = end /\ fed' = fed /\ strays' = strays /\ dem' = dem
      /\ file' = file /\ sent' = sent /\ units' = units /\ pc' = pc /\ why' = why /\ pc = "video"
  BY DEF EndGroup
<1>2. Tracks' = Tracks /\ VideoTrack' = VideoTrack /\ (\A t \in Tracks : FedType(t)') /\ (Forward' <=> Forward)
  BY <1>1 DEF Tracks, VideoTrack, TypeInv, FedType, Forward
<1>3. PICK v \in VideoTrack : \E result \in GroupResults(Groups(units[v], options.gops)[g], Number(g)) :
                 parts' = [parts EXCEPT ![g] = result]
  BY DEF EndGroup
<1>4. PICK result \in GroupResults(Groups(units[v], options.gops)[g], Number(g)) :
                 parts' = [parts EXCEPT ![g] = result]
  BY <1>3
<1>5. \A w \in VideoTrack : w = v
  BY <1>3, FirstUnique DEF TypeInv, VideoTrack
<1>6. Pooled'
  <2> DEFINE groups == Groups(units[v], options.gops)
  <2>1. /\ carrier[v].codec = "h264" /\ groups # None /\ DOMAIN parts = DOMAIN groups
        /\ \A h \in DOMAIN parts : parts[h] \in Outcomes(groups[h], Number(h), Forward)
    BY <1>1, <1>3 DEF TypeInv, Pooled
  <2>2. result \in Outcomes(groups[g], Number(g), Forward)
    BY <1>4, GroupOutcome
  <2>3. DOMAIN parts' = DOMAIN parts
    BY <1>4
  <2>4. \A h \in DOMAIN parts : parts'[h] \in Outcomes(groups[h], Number(h), Forward)
    BY <1>4, <2>1, <2>2
  <2>5. /\ VideoTrack' # {} /\ \A h, x : Outcomes(x, Number(h), Forward)' = Outcomes(x, Number(h), Forward)
    BY <1>1, <1>2, <1>3 DEF Outcomes, Forward, Fits, Rebuilt, Transformed, Number
  <2> QED BY <1>1, <1>2, <1>5, <2>1, <2>3, <2>4, <2>5 DEF Pooled, Forward
<1> QED BY <1>1, <1>2, <1>6 DEF TypeInv

LEMMA VideoEndType ==
  ASSUME TypeInv, VideoEnd
  PROVE  TypeInv'
<1>1. /\ carrier' = carrier /\ options' = options /\ end' = end /\ fed' = fed /\ strays' = strays /\ dem' = dem
      /\ file' = file /\ sent' = sent /\ pc = "video" /\ parts' = <<>>
  BY DEF VideoEnd
<1>2. Tracks' = Tracks /\ (\A t \in Tracks : FedType(t)')
  BY <1>1 DEF Tracks, TypeInv, FedType
<1>3. CASE pc' = "failed"
  <2>1. PICK g \in DOMAIN parts : parts[g] # None /\ parts[g].why # "none" /\ why' = parts[g].why /\ units' = units
    BY <1>3 DEF VideoEnd, Fail
  <2>2. parts[g].why \in {"ffedit", "count"}
    BY <1>1, <2>1, PoolFails
  <2> QED BY <1>1, <1>2, <1>3, <2>1, <2>2 DEF TypeInv, Reasons
<1>4. CASE pc' # "failed"
  <2>1. /\ \A g \in DOMAIN parts : Succeeded(g)
        /\ units' = [t \in Tracks |-> IF t \in VideoTrack THEN Joined ELSE units[t]]
        /\ pc' = "audio" /\ why' = why
    BY <1>4 DEF VideoEnd, Fail
  <2> DEFINE fwd == Forward
             n == options.gops
  <2>2. Fitting(carrier, units, n, fwd) /\ units' = Joint(carrier, units, n, fwd)
    BY <1>1, <2>1, PoolJoins
  <2>3. n \in Int /\ carrier \in Carriers /\ units \in Programs(carrier)
    BY TransportAssumption DEF TypeInv
  <2> HIDE DEF fwd, n
  <2>4. units' \in Programs(carrier)
    BY <2>2, <2>3, JointTyped
  <2>5. why' = "none"
    BY <1>1, <2>1 DEF TypeInv
  <2> QED BY <1>1, <1>2, <2>1, <2>4, <2>5 DEF TypeInv
<1> QED BY <1>3, <1>4

LEMMA AudioType ==
  ASSUME TypeInv, Audio
  PROVE  TypeInv'
<1>1. /\ carrier' = carrier /\ options' = options /\ end' = end /\ fed' = fed /\ strays' = strays /\ dem' = dem
      /\ file' = file /\ sent' = sent /\ parts' = parts /\ pc = "audio" /\ pc' \in {"mux", "failed"}
  BY DEF Audio, Fail
<1>2. Tracks' = Tracks /\ (\A t \in Tracks : FedType(t)')
  BY <1>1 DEF Tracks, TypeInv, FedType
<1>3. CASE pc' = "failed"
  <2>1. why' = "range" /\ units' = units
    BY <1>3 DEF Audio, Fail
  <2> QED BY <1>1, <1>2, <1>3, <2>1 DEF TypeInv, Reasons
<1>4. CASE pc' = "mux"
  <2> DEFINE fwd == Forward
  <2>1. units' = Done(carrier, units, options, fwd)
    BY <1>4, AudioIsDone
  <2>2. carrier \in Carriers /\ units \in Programs(carrier)
    BY DEF TypeInv
  <2> HIDE DEF fwd
  <2>3. units' \in Programs(carrier)
    BY <2>1, <2>2, DoneTyped
  <2>4. why' = why /\ why = "none"
    BY <1>1, <1>4 DEF Audio, Fail, TypeInv
  <2> QED BY <1>1, <1>2, <1>4, <2>3, <2>4 DEF TypeInv
<1> QED BY <1>1, <1>3, <1>4

LEMMA WireStepsType ==
  ASSUME TypeInv, MuxAndWrite \/ Damage \/ Receive
  PROVE  TypeInv'
<1>1. /\ carrier' = carrier /\ options' = options /\ fed' = fed /\ strays' = strays
      /\ units' = units /\ parts' = parts /\ why' = why /\ end' \in {"lock", "unlock"}
      /\ pc # "video" /\ pc' \in {"demux", "written"} /\ pc # "failed"
  BY DEF MuxAndWrite, Damage, Receive, TypeInv
<1>2. Tracks' = Tracks /\ (\A t \in Tracks : FedType(t)')
  BY <1>1 DEF Tracks, TypeInv, FedType
<1>3. CASE MuxAndWrite
  <2>1. file' = Mux(carrier, units) /\ sent' = units /\ dem' = dem
    BY <1>3 DEF MuxAndWrite
  <2>2. file' \in Seq(Sent(carrier))
    BY <2>1, MuxSent DEF TypeInv
  <2> QED BY <1>1, <1>2, <2>1, <2>2 DEF TypeInv
<1>4. CASE Damage
  <2>1. sent' = sent /\ dem' = dem
    BY <1>4 DEF Damage
  <2>2. file \in Seq(Sent(carrier)) /\ DOMAIN file = 1 .. Len(file)
    BY DEF TypeInv
  <2>3. \E i \in 1 .. Len(file) : Altered(file', file, i)
    BY <1>4, <2>2 DEF Damage, Lose, Repeat, Altered
  <2>4. file' \in Seq(Sent(carrier))
    BY <2>2, <2>3, AlteredTyped
  <2> QED BY <1>1, <1>2, <2>1, <2>4 DEF TypeInv
<1>5. CASE Receive
  <2>1. sent' = sent /\ dem' = Demuxer(carrier) /\ file' = file
    BY <1>5 DEF Receive
  <2>2. dem' \in Demuxers(carrier)
    BY <2>1, DemuxerFacts DEF TypeInv
  <2> QED BY <1>1, <1>2, <2>1, <2>2 DEF TypeInv
<1> QED BY <1>3, <1>4, <1>5

LEMMA InitType == Init => TypeInv
<1> SUFFICES ASSUME Init PROVE TypeInv
  OBVIOUS
<1>1. Inv
  BY InitInv
<1>2. \A t \in Tracks : FedType(t)
  BY <1>1 DEF Init, Inv, AtDemux, Forward
<1>3. dem \in Demuxers(carrier) /\ units \in Programs(carrier) /\ sent \in Programs(carrier)
  BY DemuxerFacts DEF Init
<1>4. strays \in 0 .. MaxStray /\ file \in Seq(Sent(carrier))
  BY TransportAssumption DEF Init
<1> QED BY <1>2, <1>3, <1>4 DEF Init, TypeInv, Reasons

LEMMA StepType ==
  ASSUME Inv, Inv', TypeInv, [Next]_vars
  PROVE  TypeInv'
<1>1. CASE \E t \in Tracks : ReadTrackPacket(t)
  BY <1>1, ReadTrackPacketType
<1>2. CASE ReadFirstTables \/ ReadStray \/ ReadReceived
  BY <1>2, OtherReadsType
<1>3. CASE DemuxEnd
  BY <1>3, DemuxEndType
<1>4. CASE \E g \in DOMAIN parts : EndGroup(g)
  BY <1>4, EndGroupType
<1>5. CASE VideoEnd
  BY <1>5, VideoEndType
<1>6. CASE Audio
  BY <1>6, AudioType
<1>7. CASE MuxAndWrite \/ Damage \/ Receive
  BY <1>7, WireStepsType
<1>8. CASE UNCHANGED vars
  <2>1. /\ carrier' = carrier /\ options' = options /\ end' = end /\ fed' = fed /\ strays' = strays /\ dem' = dem
        /\ file' = file /\ sent' = sent /\ units' = units /\ pc' = pc /\ why' = why /\ parts' = parts
    BY <1>8 DEF vars
  <2>2. Tracks' = Tracks /\ VideoTrack' = VideoTrack /\ (\A t \in Tracks : FedType(t)') /\ (Forward' <=> Forward)
    BY <2>1 DEF Tracks, VideoTrack, TypeInv, FedType, Forward
  <2>3. \A h, x : Outcomes(x, Number(h), Forward)' = Outcomes(x, Number(h), Forward)
    BY <2>1, <2>2 DEF Outcomes, Forward, Fits, Rebuilt, Transformed, Number
  <2>4. pc = "video" => Pooled'
    BY <2>1, <2>2, <2>3 DEF TypeInv, Pooled, Forward
  <2> QED BY <2>1, <2>2, <2>4 DEF TypeInv
<1> QED BY <1>1, <1>2, <1>3, <1>4, <1>5, <1>6, <1>7, <1>8 DEF Next, Stopped

-----------------------------------------------------------------------------
(* What became of the units, from the carrier to the end of the unlock.      *)

(* What ts-lock needs of a carrier and makes of it, and what ts-unlock       *)
(* needs of the units it heard and makes of them.                            *)
Lockable(c, o) == Fitting(c, CUnits(c), o.gops, TRUE)
LockJoint(c, o) == Joint(c, CUnits(c), o.gops, TRUE)
Unlockable(c, us, o) == Fitting(c, us, o.gops, FALSE)
UnlockJoint(c, us, o) == Joint(c, us, o.gops, FALSE)
Opened(c, us, o) == Worked(c, us, o, FALSE)

\* The units in the program's memory while it locks.
Locking ==
    /\ pc = "video" => units = CUnits(carrier)
    /\ pc = "audio" => Lockable(carrier, options) /\ units = LockJoint(carrier, options)
    /\ pc \in {"mux", "written"} => Lockable(carrier, options) /\ units = Sealed(carrier, options)
    /\ pc = "written" => sent = units

\* What comes to the receiver: what was written, or that with one packet lost or
\* repeated.
Arrives(F) ==
    IF fault.kind = "none" THEN F = Mux(carrier, Sealed(carrier, options))
    ELSE Changed(carrier, Sealed(carrier, options), F, fault.pid)

\* While it unlocks the stream F that arrived.
Unlocking(F) ==
    LET R == Received(carrier, F)
    IN  /\ pc = "demux" => Run(dem, file) = Run(Demuxer(carrier), F)
        /\ pc = "video" => units = R
        /\ pc = "audio" => Unlockable(carrier, R, options) /\ units = UnlockJoint(carrier, R, options)
        /\ pc \in {"mux", "written"} => Unlockable(carrier, R, options) /\ units = Opened(carrier, R, options)
        /\ pc = "written" => file = Mux(carrier, units)
        /\ pc = "failed" => /\ units = R
                            /\ \/ why = "ffedit"
                               \/ why = "no PMT" /\ ~ Run(Demuxer(carrier), F).pmt
                               \/ ~ Unlockable(carrier, R, options)

\* ts-lock: nothing happens to a stream before it is written.
Outward == /\ Locking /\ (pc # "written" => fault.kind = "none")
           /\ pc = "written" => Arrives(file)

\* ts-unlock: the carrier could be locked, and some stream arrived.
Homeward == /\ Lockable(carrier, options) /\ (pc # "written" => sent = Sealed(carrier, options))
            /\ \E F \in Seq(Sent(carrier)) : Arrives(F) /\ Unlocking(F)

\* The part of the invariant that says what became of the units.
Story ==
    /\ fault.kind = "none" => fault.pid = None
    /\ Forward => Outward
    /\ ~ Forward => Homeward

(* The pool done, the video is what ts-lock makes of it; and ts-unlock.      *)
LEMMA PoolLocks ==
  ASSUME TypeInv, Forward, pc = "video", units = CUnits(carrier), \A g \in DOMAIN parts : Succeeded(g)
  PROVE  /\ Lockable(carrier, options)
         /\ [t \in Tracks |-> IF t \in VideoTrack THEN Joined ELSE units[t]] = LockJoint(carrier, options)
<1> DEFINE fwd == Forward
           x == [t \in Tracks |-> IF t \in VideoTrack THEN Joined ELSE units[t]]
<1>1. Fitting(carrier, units, options.gops, fwd) /\ x = Joint(carrier, units, options.gops, fwd)
  BY PoolJoins
<1>2. fwd = TRUE
  BY DEF Forward
<1> HIDE DEF fwd, x
<1>3. Fitting(carrier, units, options.gops, TRUE) /\ x = Joint(carrier, units, options.gops, TRUE)
  BY ONLY <1>1, <1>2
<1>4. Lockable(carrier, options) /\ x = LockJoint(carrier, options)
  BY ONLY <1>3, units = CUnits(carrier) DEF Lockable, LockJoint
<1> QED BY ONLY <1>4 DEF x

LEMMA PoolUnlocks ==
  ASSUME TypeInv, ~ Forward, pc = "video", \A g \in DOMAIN parts : Succeeded(g)
  PROVE  /\ Unlockable(carrier, units, options)
         /\ [t \in Tracks |-> IF t \in VideoTrack THEN Joined ELSE units[t]] = UnlockJoint(carrier, units, options)
<1> DEFINE fwd == Forward
           x == [t \in Tracks |-> IF t \in VideoTrack THEN Joined ELSE units[t]]
<1>1. Fitting(carrier, units, options.gops, fwd) /\ x = Joint(carrier, units, options.gops, fwd)
  BY PoolJoins
<1>2. fwd = FALSE
  BY DEF Forward
<1> HIDE DEF fwd, x
<1>3. Fitting(carrier, units, options.gops, FALSE) /\ x = Joint(carrier, units, options.gops, FALSE)
  BY ONLY <1>1, <1>2
<1>4. Unlockable(carrier, units, options) /\ x = UnlockJoint(carrier, units, options)
  BY ONLY <1>3 DEF Unlockable, UnlockJoint
<1> QED BY ONLY <1>4 DEF x

(* A pool that failed for another reason than FFedit could not unlock what   *)
(* it had.                                                                   *)
LEMMA PoolRefuses ==
  ASSUME TypeInv, ~ Forward, pc = "video", NEW g \in DOMAIN parts, parts[g] # None, parts[g].why # "none"
  PROVE  parts[g].why = "ffedit" \/ ~ Unlockable(carrier, units, options)
<1> DEFINE fwd == Forward
           w == parts[g].why
<1>1. w \in {"ffedit", "count"} /\ (w = "count" => ~ Fitting(carrier, units, options.gops, fwd))
  BY PoolFails
<1>2. fwd = FALSE
  BY DEF Forward
<1> HIDE DEF fwd, w
<1>3. w = "count" => ~ Fitting(carrier, units, options.gops, FALSE)
  BY ONLY <1>1, <1>2
<1>4. w = "ffedit" \/ ~ Unlockable(carrier, units, options)
  BY ONLY <1>1, <1>3 DEF Unlockable
<1> QED BY ONLY <1>4 DEF w

(* The audio done, the program is what ts-lock makes of it; and ts-unlock.   *)
LEMMA AudioSeals ==
  ASSUME TypeInv, Audio, pc' = "mux", Forward, units = LockJoint(carrier, options)
  PROVE  units' = Sealed(carrier, options)
<1> DEFINE fwd == Forward
           v == units'
<1>1. v = Done(carrier, units, options, fwd)
  BY AudioIsDone
<1>2. fwd = TRUE
  BY DEF Forward
<1> HIDE DEF fwd, v
<1>3. v = Done(carrier, units, options, TRUE)
  BY ONLY <1>1, <1>2
<1>4. v = Sealed(carrier, options)
  BY ONLY <1>3, units = LockJoint(carrier, options) DEF Sealed, Worked, LockJoint
<1> QED BY ONLY <1>4 DEF v

LEMMA AudioOpens ==
  ASSUME TypeInv, Audio, pc' = "mux", ~ Forward, NEW R, units = UnlockJoint(carrier, R, options)
  PROVE  units' = Opened(carrier, R, options)
<1> DEFINE fwd == Forward
           v == units'
<1>1. v = Done(carrier, units, options, fwd)
  BY AudioIsDone
<1>2. fwd = FALSE
  BY DEF Forward
<1> HIDE DEF fwd, v
<1>3. v = Done(carrier, units, options, FALSE)
  BY ONLY <1>1, <1>2
<1>4. v = Opened(carrier, R, options)
  BY ONLY <1>3, units = UnlockJoint(carrier, R, options) DEF Opened, Worked, UnlockJoint
<1> QED BY ONLY <1>4 DEF v

(* Each step continues the story.                                            *)
LEMMA InitStory == Init => Story
<1> SUFFICES ASSUME Init PROVE Story
  OBVIOUS
<1>1. Forward /\ pc = "demux" /\ fault.kind = "none" /\ fault.pid = None
  BY DEF Init, Forward
<1> QED BY <1>1 DEF Story, Outward, Locking

LEMMA ForwardReadsStory ==
  ASSUME Story, (\E t \in Tracks : ReadTrackPacket(t)) \/ ReadFirstTables \/ (ReadStray /\ Forward)
  PROVE  Story'
<1>1. Forward /\ pc = "demux" /\ DemuxOnly
  BY DEF ReadTrackPacket, ReadFirstTables, ReadStray
<1>2. Forward' /\ pc' = "demux" /\ fault' = fault
  BY <1>1 DEF DemuxOnly, Forward
<1>3. fault.kind = "none" /\ fault.pid = None
  BY <1>1 DEF Story, Outward
<1> QED BY <1>2, <1>3 DEF Story, Outward, Locking

(* A step that leaves the carrier, the options, the fault and the side alone  *)
(* while a stream is unlocked.                                                *)
LEMMA HomewardStep ==
  ASSUME Story, ~ Forward, carrier' = carrier, options' = options, end' = end, fault' = fault,
         pc' # "written" => sent' = sent /\ pc # "written",
         \A F \in Seq(Sent(carrier)) : Arrives(F) /\ Unlocking(F) => Unlocking(F)'
  PROVE  Story'
<1>1. ~ Forward'
  BY DEF Forward
<1>2. Homeward
  BY DEF Story
<1>3. PICK F \in Seq(Sent(carrier)) : Arrives(F) /\ Unlocking(F)
  BY <1>2 DEF Homeward
<1>4. Unlocking(F)'
  BY <1>3
<1>5. Arrives(F)'
  BY <1>3 DEF Arrives
<1>6. Homeward'
  BY <1>2, <1>3, <1>4, <1>5 DEF Homeward
<1>7. fault'.kind = "none" => fault'.pid = None
  BY DEF Story
<1> QED BY <1>1, <1>6, <1>7 DEF Story

LEMMA ReadReceivedStory ==
  ASSUME Story, TypeInv, ReadReceived
  PROVE  Story'
<1>1. /\ ~ Forward /\ pc = "demux" /\ file # <<>> /\ dem' = Take(dem, Head(file)) /\ file' = Tail(file)
      /\ carrier' = carrier /\ options' = options /\ end' = end /\ fault' = fault /\ sent' = sent /\ pc' = pc
  BY DEF ReadReceived, DemuxOnly
<1>2. ASSUME NEW F \in Seq(Sent(carrier)), Arrives(F), Unlocking(F)
      PROVE  Unlocking(F)'
  <2>1. file \in Seq(Wire(carrier)) /\ dem \in Demuxers(carrier) /\ carrier \in Carriers
    BY DEF TypeInv, Sent
  <2>2. Run(dem, file) = Run(dem', file')
    BY <1>1, <2>1, RunFirst
  <2>3. Run(dem, file) = Run(Demuxer(carrier), F)
    BY <1>1, <1>2 DEF Unlocking
  <2> QED BY <1>1, <2>2, <2>3 DEF Unlocking
<1> QED BY <1>1, <1>2, HomewardStep

LEMMA ForwardDemuxEndStory ==
  ASSUME Story, Inv', TypeInv, TypeInv', DemuxEnd, Forward
  PROVE  Story'
<1>1. Forward' /\ pc = "demux" /\ fault' = fault /\ pc' \in {"failed", "video"} /\ carrier' = carrier
  BY DEF DemuxEnd, Forward, Fail
<1>2. fault.kind = "none" /\ fault.pid = None
  BY <1>1 DEF Story, Outward
<1>3. pc' = "video" => units' = CUnits(carrier')
  <2> SUFFICES ASSUME pc' = "video" PROVE units' = CUnits(carrier')
    OBVIOUS
  <2>1. DemuxReassembles'
    BY <1>1 DEF Inv
  <2>2. \A t \in Tracks' : units'[t] = carrier'[t].units
    BY <1>1, <2>1 DEF DemuxReassembles
  <2>3. units' \in Programs(carrier')
    BY DEF TypeInv
  <2>4. units' = [t \in DOMAIN carrier' |-> units'[t]]
    BY <2>3 DEF Programs
  <2> QED BY <2>2, <2>4 DEF CUnits, Tracks
<1> QED BY <1>1, <1>2, <1>3 DEF Story, Outward, Locking

LEMMA HomewardDemuxEndStory ==
  ASSUME Story, TypeInv, DemuxEnd, ~ Forward
  PROVE  Story'
<1>1. /\ pc = "demux" /\ file = <<>> /\ units' = Finish(dem) /\ pc' \in {"failed", "video"}
      /\ carrier' = carrier /\ options' = options /\ end' = end /\ fault' = fault /\ sent' = sent
  BY DEF DemuxEnd, AtEndOfStream, Fail
<1>2. ASSUME NEW F \in Seq(Sent(carrier)), Arrives(F), Unlocking(F)
      PROVE  Unlocking(F)'
  <2> DEFINE R == Received(carrier, F)
  <2>1. Run(dem, file) = Run(Demuxer(carrier), F)
    BY <1>1, <1>2 DEF Unlocking
  <2>2. Run(dem, file) = dem
    BY <1>1, RunEmpty DEF TypeInv
  <2>3. units' = R
    BY <1>1, <2>1, <2>2 DEF Received
  <2>4. CASE pc' = "video"
    BY <1>1, <2>3, <2>4 DEF Unlocking
  <2>5. CASE pc' = "failed"
    <3>1. \/ ~ dem.pmt /\ why' = "no PMT"
          \/ VideoTrack = {}
          \/ \E v \in VideoTrack : carrier[v].codec # "h264" \/ Groups(units'[v], options.gops) = None
      BY <1>1, <2>5 DEF DemuxEnd, Fail
    <3>2. VideoTrack = First(carrier, FALSE)
      BY DEF VideoTrack
    <3>3. CASE ~ dem.pmt /\ why' = "no PMT"
      BY <1>1, <2>1, <2>2, <2>3, <2>5, <3>3 DEF Unlocking
    <3>4. CASE VideoTrack = {} \/ \E v \in VideoTrack : carrier[v].codec # "h264" \/ Groups(units'[v], options.gops) = None
      <4>1. ~ Unlockable(carrier, R, options)
        BY <2>3, <3>2, <3>4 DEF Unlockable, Fitting
      <4> QED BY <1>1, <2>3, <2>5, <4>1 DEF Unlocking
    <3> QED BY <3>1, <3>3, <3>4
  <2> QED BY <1>1, <2>4, <2>5
<1> QED BY <1>1, <1>2, HomewardStep

LEMMA EndGroupStory ==
  ASSUME Story, NEW g \in DOMAIN parts, EndGroup(g)
  PROVE  Story'
<1>1. /\ pc = "video" /\ pc' = pc /\ units' = units /\ carrier' = carrier /\ options' = options /\ end' = end
      /\ fault' = fault /\ sent' = sent
  BY DEF EndGroup
<1>2. CASE Forward
  <2>1. Forward' /\ fault.kind = "none" /\ fault.pid = None /\ units = CUnits(carrier)
    BY <1>1, <1>2 DEF Story, Outward, Locking, Forward
  <2> QED BY <1>1, <2>1 DEF Story, Outward, Locking
<1>3. CASE ~ Forward
  <2>1. \A F \in Seq(Sent(carrier)) : Arrives(F) /\ Unlocking(F) => Unlocking(F)'
    BY <1>1 DEF Unlocking
  <2> QED BY <1>1, <1>3, <2>1, HomewardStep
<1> QED BY <1>2, <1>3

LEMMA VideoEndStory ==
  ASSUME Story, TypeInv, VideoEnd
  PROVE  Story'
<1>1. /\ pc = "video" /\ pc' \in {"audio", "failed"} /\ carrier' = carrier /\ options' = options /\ end' = end
      /\ fault' = fault /\ sent' = sent
  BY DEF VideoEnd, Fail
<1>2. CASE Forward
  <2>1. Forward' /\ fault.kind = "none" /\ fault.pid = None /\ units = CUnits(carrier)
    BY <1>1, <1>2 DEF Story, Outward, Locking, Forward
  <2>2. pc' = "audio" => Lockable(carrier, options) /\ units' = LockJoint(carrier, options)
    BY <1>1, <1>2, <2>1, PoolLocks DEF VideoEnd, Fail
  <2> QED BY <1>1, <2>1, <2>2 DEF Story, Outward, Locking
<1>3. CASE ~ Forward
  <2>1. ASSUME NEW F \in Seq(Sent(carrier)), Arrives(F), Unlocking(F)
        PROVE  Unlocking(F)'
    <3>1. units = Received(carrier, F)
      BY <1>1, <2>1 DEF Unlocking
    <3>2. CASE pc' = "audio"
      <4>1. Unlockable(carrier, units, options) /\ units' = UnlockJoint(carrier, units, options)
        BY <1>1, <1>3, <3>2, PoolUnlocks DEF VideoEnd, Fail
      <4> QED BY <1>1, <3>1, <3>2, <4>1 DEF Unlocking
    <3>3. CASE pc' = "failed"
      <4>1. PICK g \in DOMAIN parts : parts[g] # None /\ parts[g].why # "none" /\ why' = parts[g].why /\ units' = units
        BY <3>3 DEF VideoEnd, Fail
      <4>2. why' = "ffedit" \/ ~ Unlockable(carrier, units, options)
        BY <1>1, <1>3, <4>1, PoolRefuses
      <4> QED BY <1>1, <3>1, <3>3, <4>1, <4>2 DEF Unlocking
    <3> QED BY <1>1, <3>2, <3>3
  <2> QED BY <1>1, <1>3, <2>1, HomewardStep
<1> QED BY <1>2, <1>3

LEMMA AudioStory ==
  ASSUME Story, TypeInv, Audio
  PROVE  Story'
<1>1. /\ pc = "audio" /\ pc' \in {"mux", "failed"} /\ carrier' = carrier /\ options' = options /\ end' = end
      /\ fault' = fault /\ sent' = sent /\ (pc' = "failed" => Forward)
  BY DEF Audio, Fail
<1>2. CASE Forward
  <2>1. Forward' /\ fault.kind = "none" /\ fault.pid = None /\ Lockable(carrier, options)
        /\ units = LockJoint(carrier, options)
    BY <1>1, <1>2 DEF Story, Outward, Locking, Forward
  <2>2. pc' = "mux" => units' = Sealed(carrier, options)
    BY <1>2, <2>1, AudioSeals
  <2> QED BY <1>1, <2>1, <2>2 DEF Story, Outward, Locking
<1>3. CASE ~ Forward
  <2>1. ASSUME NEW F \in Seq(Sent(carrier)), Arrives(F), Unlocking(F)
        PROVE  Unlocking(F)'
    <3>1. Unlockable(carrier, Received(carrier, F), options)
          /\ units = UnlockJoint(carrier, Received(carrier, F), options)
      BY <1>1, <2>1 DEF Unlocking
    <3>2. pc' = "mux"
      BY <1>1, <1>3
    <3>3. units' = Opened(carrier, Received(carrier, F), options)
      BY <1>3, <3>1, <3>2, AudioOpens
    <3> QED BY <1>1, <3>1, <3>2, <3>3 DEF Unlocking
  <2> QED BY <1>1, <1>3, <2>1, HomewardStep
<1> QED BY <1>2, <1>3

LEMMA MuxAndWriteStory ==
  ASSUME Story, MuxAndWrite
  PROVE  Story'
<1>1. /\ pc = "mux" /\ pc' = "written" /\ file' = Mux(carrier, units) /\ sent' = units /\ units' = units
      /\ carrier' = carrier /\ options' = options /\ end' = end /\ fault' = fault
  BY DEF MuxAndWrite
<1>2. CASE Forward
  <2>1. Forward' /\ fault.kind = "none" /\ fault.pid = None /\ Lockable(carrier, options)
        /\ units = Sealed(carrier, options)
    BY <1>1, <1>2 DEF Story, Outward, Locking, Forward
  <2> QED BY <1>1, <2>1 DEF Story, Outward, Locking, Arrives
<1>3. CASE ~ Forward
  <2>1. ASSUME NEW F \in Seq(Sent(carrier)), Arrives(F), Unlocking(F)
        PROVE  Unlocking(F)'
    BY <1>1, <2>1 DEF Unlocking
  <2> QED BY <1>1, <1>3, <2>1, HomewardStep
<1> QED BY <1>2, <1>3

LEMMA DamageStory ==
  ASSUME Story, TypeInv, Damage
  PROVE  Story'
<1>1. /\ Forward /\ pc = "written" /\ fault.kind = "none" /\ carrier' = carrier /\ options' = options /\ end' = end
      /\ pc' = pc /\ units' = units /\ sent' = sent
  BY DEF Damage
<1> DEFINE O == Mux(carrier, Sealed(carrier, options))
<1>2. file = O
  BY <1>1 DEF Story, Outward, Arrives
<1>3. DOMAIN file = 1 .. Len(file)
  BY DEF TypeInv
<1>4. PICK i \in 1 .. Len(file) : /\ file' = RemoveAt(file, i) \/ file' = InsertAt(file, i, file[i])
                                  /\ fault'.pid = file[i].pid /\ fault'.kind \in {"lost", "repeated"}
  BY <1>1, <1>3 DEF Damage, Lose, Repeat
<1>5. Changed(carrier, Sealed(carrier, options), file', fault'.pid)
  BY <1>2, <1>4 DEF Changed, Altered
<1>6. Forward'
  BY <1>1 DEF Forward
<1>7. Locking /\ Locking'
  BY <1>1 DEF Story, Outward, Locking
<1>8. fault'.kind # "none"
  BY <1>4
<1>9. Arrives(file)'
  BY <1>1, <1>5, <1>8 DEF Arrives
<1> QED BY <1>1, <1>6, <1>7, <1>8, <1>9 DEF Story, Outward

LEMMA ReceiveStory ==
  ASSUME Story, TypeInv, Receive
  PROVE  Story'
<1>1. /\ Forward /\ pc = "written" /\ end' = "unlock" /\ pc' = "demux" /\ dem' = Demuxer(carrier)
      /\ carrier' = carrier /\ options' = options /\ file' = file /\ fault' = fault /\ sent' = sent
  BY DEF Receive
<1>2. Lockable(carrier, options) /\ sent = Sealed(carrier, options) /\ Arrives(file)
  BY <1>1 DEF Story, Outward, Locking
<1>3. file \in Seq(Sent(carrier))
  BY DEF TypeInv
<1>4. ~ Forward'
  BY <1>1 DEF Forward
<1> DEFINE F == file
<1> HIDE DEF F
<1>5. Arrives(F)' 
  BY <1>1, <1>2 DEF Arrives, F
<1>6. Unlocking(F)'
  BY <1>1 DEF Unlocking, F
<1>7. Homeward'
  BY <1>1, <1>2, <1>3, <1>5, <1>6 DEF Homeward, F
<1>8. fault'.kind = "none" => fault'.pid = None
  BY <1>1 DEF Story
<1> QED BY <1>4, <1>7, <1>8 DEF Story

-----------------------------------------------------------------------------
(* The invariant, and the properties.                                        *)

LEMMA StepStory ==
  ASSUME Story, Inv', TypeInv, TypeInv', [Next]_vars
  PROVE  Story'
<1>1. CASE \E t \in Tracks : ReadTrackPacket(t)
  BY <1>1, ForwardReadsStory
<1>2. CASE ReadFirstTables \/ ReadStray
  BY <1>2, ForwardReadsStory DEF ReadStray
<1>3. CASE ReadReceived
  BY <1>3, ReadReceivedStory
<1>4. CASE DemuxEnd
  BY <1>4, ForwardDemuxEndStory, HomewardDemuxEndStory
<1>5. CASE \E g \in DOMAIN parts : EndGroup(g)
  BY <1>5, EndGroupStory
<1>6. CASE VideoEnd
  BY <1>6, VideoEndStory
<1>7. CASE Audio
  BY <1>7, AudioStory
<1>8. CASE MuxAndWrite
  BY <1>8, MuxAndWriteStory
<1>9. CASE Damage
  BY <1>9, DamageStory
<1>10. CASE Receive
  BY <1>10, ReceiveStory
<1>11. CASE UNCHANGED vars
  <2>1. /\ carrier' = carrier /\ options' = options /\ end' = end /\ fault' = fault /\ sent' = sent /\ pc' = pc
        /\ units' = units /\ file' = file /\ dem' = dem /\ why' = why
    BY <1>11 DEF vars
  <2> QED BY <2>1 DEF Story, Outward, Homeward, Locking, Unlocking, Arrives, Forward
<1> QED BY <1>1, <1>2, <1>3, <1>4, <1>5, <1>6, <1>7, <1>8, <1>9, <1>10, <1>11 DEF Next, Stopped

(* Together: how demux stands in the carrier, what the variables hold, and   *)
(* what became of the units.                                                 *)
TransportInv == Inv /\ TypeInv /\ Story

(* It is inductive.                                                          *)
LEMMA TransportInvAlways == Spec => []TransportInv
<1>1. Init => TransportInv
  BY InitInv, InitType, InitStory DEF TransportInv
<1>2. TransportInv /\ [Next]_vars => TransportInv'
  BY StepInv, StepType, StepStory DEF TransportInv
<1> QED BY <1>1, <1>2, PTL DEF Spec

(* There is a group while the pool works, and none otherwise.                *)
LEMMA PoolNotEmpty == TypeInv => ((pc = "video") <=> (parts # <<>>))
<1> SUFFICES ASSUME TypeInv PROVE (pc = "video") <=> (parts # <<>>)
  OBVIOUS
<1>1. CASE pc # "video"
  BY <1>1 DEF TypeInv
<1>2. CASE pc = "video"
  <2>1. Pooled
    BY <1>2 DEF TypeInv
  <2>2. PICK v \in VideoTrack : TRUE
    BY <2>1 DEF Pooled
  <2> DEFINE groups == Groups(units[v], options.gops)
  <2>3. groups # None /\ DOMAIN parts = DOMAIN groups
    BY <2>1, <2>2 DEF Pooled
  <2>4. v \in DOMAIN carrier
    BY <2>2, FirstFacts DEF VideoTrack
  <2>5. units[v] \in Seq(AnyUnit) /\ options.gops \in Int
    BY <2>4, TransportAssumption DEF TypeInv, Programs
  <2>6. 1 \in DOMAIN groups
    BY <2>3, <2>5, GroupsFacts
  <2>7. 1 \in DOMAIN parts
    BY <2>3, <2>6
  <2> QED BY <1>2, <2>7
<1> QED BY <1>1, <1>2

(* What the invariant says of the variables is more than TypeOK.             *)
LEMMA TypeInvTypeOK == TypeInv => TypeOK
<1> SUFFICES ASSUME TypeInv PROVE TypeOK
  OBVIOUS
<1>1. /\ end \in {"lock", "unlock"}
      /\ pc \in {"demux", "video", "audio", "mux", "written", "failed"}
      /\ why \in {"none", "no PMT", "no video", "codec", "no GOP", "range", "ffedit", "count"}
      /\ (pc = "failed") = (why # "none")
      /\ strays \in 0 .. MaxStray
  BY DEF TypeInv, Reasons
<1>2. ASSUME NEW t \in Tracks
      PROVE  fed[t][1] \in 0 .. Len(carrier[t].units)
  <2>1. FedType(t) /\ carrier[t].units \in Seq(Unit)
    BY CarrierFacts DEF TypeInv
  <2>2. fed[t][1] \in Nat /\ Len(carrier[t].units) \in Nat /\ fed[t][1] <= Len(carrier[t].units)
    BY <2>1 DEF FedType
  <2> QED BY <2>2
<1>3. DOMAIN dem.units = Tracks /\ DOMAIN dem.buffers = Tracks /\ DOMAIN units = Tracks
  BY DEF TypeInv, Demuxers, Programs, Tracks
<1>4. ASSUME NEW i \in DOMAIN file
      PROVE  file[i].pid \in Tracks \cup Tables
  <2>1. file[i] \in Sent(carrier)
    BY DEF TypeInv
  <2> QED BY <2>1 DEF Sent, Tracks
<1>5. (pc = "video") = (parts # <<>>)
  BY PoolNotEmpty
<1> QED BY <1>1, <1>2, <1>3, <1>4, <1>5 DEF TypeOK

(* Every variable holds a value the program can put there, for every         *)
(* carrier, with any number of tracks, units and packets (demux, mux,        *)
(* run_transport).                                                           *)
THEOREM TypeOKAlways == Spec => []TypeOK
  BY TransportInvAlways, TypeInvTypeOK, PTL DEF TransportInv

(* The properties' words and the proof's.                                     *)
LEMMA Words ==
  /\ CarrierUnits = CUnits(carrier)
  /\ InOrder <=> Ordered(carrier, CUnits(carrier))
  /\ \A packets : Reread(packets) = Received(carrier, packets)
<1>1. CarrierUnits = CUnits(carrier)
  BY DEF CarrierUnits, CUnits, Tracks
<1>2. \A t \in Tracks : CUnits(carrier)[t] = carrier[t].units
  BY DEF CUnits, Tracks
<1>3. InOrder <=> Ordered(carrier, CUnits(carrier))
  BY <1>1, <1>2 DEF InOrder, Ordered, Rises, CUnits, Tracks
<1>4. \A packets : Reread(packets) = Received(carrier, packets)
  BY DEF Reread, Received, Run
<1> QED BY <1>1, <1>3, <1>4

(* What was written is Sealed(carrier), so a player finds the units of the   *)
(* carrier in it.                                                            *)
LEMMA StoryKeepsUnits == TransportInv => LockedKeepsUnits
<1> SUFFICES ASSUME TransportInv, Forward, pc = "written", fault.kind = "none", InOrder
             PROVE  LockedKeepsUnits
  BY DEF LockedKeepsUnits
<1>1. /\ carrier \in Carriers /\ options \in Options /\ Lockable(carrier, options)
      /\ file = Mux(carrier, Sealed(carrier, options))
  BY DEF TransportInv, TypeInv, Story, Outward, Locking, Arrives
<1>2. Ordered(carrier, CUnits(carrier)) /\ CarrierUnits = CUnits(carrier)
  BY Words
<1> DEFINE locked == Reread(file)
           before == NormalUnits(CarrierUnits)
<1>3. Fitting(carrier, CUnits(carrier), options.gops, TRUE)
  BY <1>1 DEF Lockable
<1>4. locked = NormalUnits(Sealed(carrier, options))
  <2>1. locked = Received(carrier, Mux(carrier, Sealed(carrier, options)))
    BY <1>1, Words
  <2> QED BY <1>1, <1>2, <1>3, <2>1, ExactInOrder
<1>5. before = NormalUnits(CUnits(carrier))
  BY <1>2
<1> HIDE DEF locked, before
<1>6. ASSUME NEW t \in Tracks
      PROVE  /\ Len(locked[t]) = Len(before[t])
             /\ \A i \in DOMAIN before[t] :
                  /\ locked[t][i].pts = before[t][i].pts /\ locked[t][i].dts = before[t][i].dts
                  /\ IF IsAudio(carrier, t)
                     THEN Len(locked[t][i].data) = Len(before[t][i].data)
                     ELSE SameView(locked[t][i], before[t][i])
  <2>1. t \in DOMAIN carrier
    BY DEF Tracks
  <2> DEFINE s == locked[t]
             z == before[t]
  <2>2. /\ Len(s) = Len(z) /\ z \in Seq(AnyUnit)
        /\ \A k \in 1 .. Len(z) :
                   /\ s[k].pts = z[k].pts /\ s[k].dts = z[k].dts
                   /\ IsAudio(carrier, t) => Len(s[k].data) = Len(z[k].data)
                   /\ ~ IsAudio(carrier, t) => SameView(s[k], z[k])
    BY <1>1, <1>3, <1>4, <1>5, <2>1, SealedKeeps
  <2> HIDE DEF s, z
  <2>3. DOMAIN z = 1 .. Len(z)
    BY <2>2
  <2>4. /\ Len(s) = Len(z)
        /\ \A i \in DOMAIN z :
              /\ s[i].pts = z[i].pts /\ s[i].dts = z[i].dts
              /\ IF IsAudio(carrier, t) THEN Len(s[i].data) = Len(z[i].data) ELSE SameView(s[i], z[i])
    BY <2>2, <2>3
  <2> QED BY <2>4 DEF s, z
<1> QED BY <1>6 DEF LockedKeepsUnits, SameView, locked, before

(* What was written is what arrives; the units come back as they were        *)
(* exactly in order.                                                         *)
LEMMA StoryExact == TransportInv => ExactIffInOrder
<1> SUFFICES ASSUME TransportInv, ~ Forward, fault.kind = "none"
             PROVE  ExactIffInOrder
  BY DEF ExactIffInOrder
<1> DEFINE c == carrier
           o == options
           S == Sealed(c, o)
           F == Mux(c, S)
           R == Received(c, F)
<1>1. /\ c \in Carriers /\ o \in Options /\ Fitting(c, CUnits(c), o.gops, TRUE)
  BY DEF TransportInv, TypeInv, Story, Homeward, Lockable
<1>2. Unlocking(F)
  BY DEF TransportInv, Story, Homeward, Arrives
<1>3. /\ CarrierUnits = CUnits(c)
      /\ InOrder <=> Ordered(c, CUnits(c))
      /\ \A packets : Reread(packets) = Received(c, packets)
  BY Words
<1>4. ASSUME pc = "written"
      PROVE  (Reread(file) = NormalUnits(CarrierUnits)) <=> InOrder
  <2>1. /\ Fitting(c, R, o.gops, FALSE) /\ units = Worked(c, R, o, FALSE)
        /\ file = Mux(c, units)
    BY <1>2, <1>4 DEF Unlocking, Unlockable, Opened
  <2>2. Reread(file) = Received(c, Mux(c, Worked(c, R, o, FALSE)))
    BY <1>3, <2>1
  <2>3. CASE Ordered(c, CUnits(c))
    <3>1. Received(c, Mux(c, Worked(c, R, o, FALSE))) = NormalUnits(CUnits(c))
      BY <1>1, <2>3, ExactInOrder
    <3> QED BY <1>3, <2>2, <2>3, <3>1
  <2>4. CASE ~ Ordered(c, CUnits(c))
    <3>1. Received(c, Mux(c, Worked(c, R, o, FALSE))) # NormalUnits(CUnits(c))
      BY <1>1, <2>1, <2>4, InexactOtherwise
    <3> QED BY <1>3, <2>2, <2>4, <3>1
  <2> QED BY <2>3, <2>4
<1>5. ASSUME pc = "failed", Ordered(c, CUnits(c))
      PROVE  why = "ffedit"
  <2>1. why = "ffedit" \/ ~ Run(Demuxer(c), F).pmt \/ ~ Fitting(c, R, o.gops, FALSE)
    BY <1>2, <1>5 DEF Unlocking, Unlockable
  <2>2. Run(Demuxer(c), F).pmt /\ Fitting(c, R, o.gops, FALSE)
    BY <1>1, <1>5, ExactInOrder
  <2> QED BY <2>1, <2>2
<1>6. (Reread(file) = NormalUnits(CarrierUnits)) \in BOOLEAN /\ InOrder \in BOOLEAN
  BY DEF InOrder
<1>7. pc = "written" => (Reread(file) = NormalUnits(CarrierUnits)) = InOrder
  BY <1>4, <1>6
<1>8. pc = "failed" /\ InOrder => why = "ffedit"
  BY <1>3, <1>5
<1> QED BY <1>7, <1>8 DEF ExactIffInOrder

(* What arrives is what was written with one packet lost or repeated.        *)
LEMMA StoryDamage == TransportInv => DamageStaysLocal
<1> SUFFICES ASSUME TransportInv, ~ Forward, InOrder, fault.pid \in Tracks \cup Tables
             PROVE  DamageStaysLocal
  BY DEF DamageStaysLocal, DamageIsLocal, TablesRecover, DamageSparesOthers
<1> DEFINE c == carrier
           o == options
           S == Sealed(c, o)
           p == fault.pid
<1>1. /\ c \in Carriers /\ o \in Options /\ Fitting(c, CUnits(c), o.gops, TRUE)
      /\ (pc # "written" => sent = S)
  BY DEF TransportInv, TypeInv, Story, Homeward, Lockable
<1>2. p \in Int
  BY <1>1, CarrierTyped DEF Tracks, Tables, Pat, Pmt
<1>3. fault.kind # "none"
  BY <1>2, TransportAssumption DEF TransportInv, Story
<1>4. PICK F \in Seq(Sent(c)) : Changed(c, S, F, p) /\ Unlocking(F)
  BY <1>3 DEF TransportInv, Story, Homeward, Arrives
<1>5. S \in Programs(c) /\ Ordered(c, S)
  <2>1. S \in Programs(c) /\ SameTimes(CUnits(c), S)
    BY <1>1, SealedFacts
  <2>2. Ordered(c, CUnits(c)) /\ CUnits(c) \in Programs(c)
    BY <1>1, Words, CUnitsFacts
  <2> QED BY <1>1, <2>1, <2>2, OrderedSame
<1> DEFINE R == Received(c, F)
<1>6. Tracks = DOMAIN c
  BY DEF Tracks
<1> HIDE DEF S, p, R
<1>7. DamageIsLocal
  <2> SUFFICES ASSUME pc = "video", p \in Tracks
               PROVE  DamageIsLocal
    BY DEF DamageIsLocal, p
  <2>1. units = R /\ sent = S
    BY <1>1, <1>4 DEF Unlocking, R
  <2>2. /\ \A t \in DOMAIN c : t # p => R[t] = NormalUnits(S)[t]
        /\ Cardinality(Missing(NormalUnits(S)[p], R[p])) <= 2
    BY <1>1, <1>4, <1>5, <1>6, TrackDamageHeard DEF R
  <2> QED BY <1>6, <2>1, <2>2 DEF DamageIsLocal, Missing, p
<1>8. TablesRecover
  <2> SUFFICES ASSUME pc \in {"video", "failed"}, p \in Tables
               PROVE  TablesRecover
    BY DEF TablesRecover, p
  <2>1. units = R /\ sent = S
    BY <1>1, <1>4 DEF Unlocking, R
  <2>2. /\ \A t \in DOMAIN c : IsSuffix(R[t], NormalUnits(S)[t])
        /\ \A t \in ClockTrack(c) : Len(NormalUnits(S)[t]) - Len(R[t]) <= PsiPeriod
    BY <1>1, <1>4, <1>5, TableLossHeard DEF R
  <2> QED BY <1>6, <2>1, <2>2 DEF TablesRecover
<1>9. DamageSparesOthers
  <2> SUFFICES ASSUME pc = "mux", p \in Tracks, NEW t \in Tracks \ {p}
               PROVE  units[t] = NormalUnits(CarrierUnits)[t]
    BY DEF DamageSparesOthers, p
  <2>1. units = Worked(c, R, o, FALSE)
    BY <1>4 DEF Unlocking, Opened, R
  <2>2. R[t] = NormalUnits(S)[t]
    BY <1>1, <1>4, <1>5, <1>6, TrackDamageHeard DEF R
  <2>3. R \in Programs(c)
    <3>1. F \in Seq(Wire(c))
      BY <1>4 DEF Sent
    <3> QED BY <1>1, <3>1, ReceivedIs DEF R
  <2>4. Worked(c, R, o, FALSE)[t] = NormalUnits(CUnits(c))[t]
    BY <1>1, <1>6, <2>2, <2>3, TrackBack DEF S
  <2>5. CarrierUnits = CUnits(c)
    BY Words
  <2> QED BY <2>1, <2>4, <2>5
<1> QED BY <1>7, <1>8, <1>9 DEF DamageStaysLocal

(* The locked stream of a carrier in order has its units: with their times,  *)
(* each picture whole in its own unit, each audio packet as long as it was   *)
(* (_video, _audio, mux).                                                    *)
THEOREM LockedKeepsUnitsAlways == Spec => []LockedKeepsUnits
  BY TransportInvAlways, StoryKeepsUnits, PTL

(* Without damage, the restored stream has the units of the carrier exactly  *)
(* when the times of each track rise and the clock track has the earliest    *)
(* unit; in order, only FFedit can make the unlock fail (demux, mux,         *)
(* run_transport at both ends).                                              *)
THEOREM ExactIffInOrderAlways == Spec => []ExactIffInOrder
  BY TransportInvAlways, StoryExact, PTL

(* A packet lost or repeated on the way changes two units of its own track   *)
(* at most, a table costs at most PsiPeriod units of the clock track at the  *)
(* beginning, and a damaged track that is unlocked at all leaves every       *)
(* other as it was (demux, mux, _video, _audio).                             *)
THEOREM DamageStaysLocalAlways == Spec => []DamageStaysLocal
  BY TransportInvAlways, StoryDamage, PTL
=============================================================================
