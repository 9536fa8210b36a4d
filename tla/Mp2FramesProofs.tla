--------------------------- MODULE Mp2FramesProofs ---------------------------
(***************************************************************************)
(* Proof, for any formats, allocation tables, streams, plans, layers and      *)
(* chunks, that the reader gives what iter_units gives and accounts for every *)
(* byte, that a locked frame is a legal frame, that the unlock finds the      *)
(* frames of the carrier and gives it back unless a header among the junk has *)
(* its allocation inside a frame, and that every variable holds what it       *)
(* should.                                                                  *)
(*                                                                         *)
(* A search is the one list of starts with nothing but junk between them      *)
(* (Searched, ScanUnique), so searches may be compared without running them:  *)
(* that of what was read so far goes on with that of the buffer (Continues),  *)
(* and that of the locked stream is that of the carrier (SearchStays).  A     *)
(* frame is the cells as far as its scfsi, which the lock keeps, and values   *)
(* that it moves within their ranges (Variants, FrameLocked); a rewritten     *)
(* stream has these in the frames' places and is the same beside them         *)
(* (Transformed).                                                            *)
(***************************************************************************)
EXTENDS Mp2Frames, FiniteSetTheorems, DataInduction

-----------------------------------------------------------------------------
(* One frame.  Where its parts end, and what the parser gives.               *)
Headers == {Formats[k] : k \in DOMAIN Formats}

LEMMA HeaderTyped ==
  ASSUME NEW h \in Headers
  PROVE  /\ h.size \in Nat /\ h.channels \in Nat \ {0} /\ h.sblimit \in Nat /\ h.bound \in Nat
         /\ h.protection \in BOOLEAN /\ h.bound <= h.sblimit
         /\ h.size > HeaderCells + 1 + h.sblimit * h.channels
         /\ h.sblimit * h.channels \in Nat /\ h.bound * h.channels \in Nat
<1>1. PICK k \in DOMAIN Formats : h = Formats[k]
  BY DEF Headers
<1>2. h \in [size : Nat, channels : Nat \ {0}, sblimit : Nat, bound : Nat, protection : BOOLEAN]
  BY <1>1, Mp2Assumption
<1>3. h.bound \in 0 .. h.sblimit /\ h.size > HeaderCells + 1 + h.sblimit * h.channels
  BY <1>1, Mp2Assumption
<1>4. h.size \in Nat /\ h.channels \in Nat /\ h.channels # 0 /\ h.sblimit \in Nat /\ h.bound \in Nat
      /\ h.protection \in BOOLEAN
  BY <1>2
<1>5. \A a, b \in Nat : a * b \in Nat
  OBVIOUS
<1> QED BY <1>3, <1>4, <1>5

LEMMA Product == \A a, b \in Nat : a * b \in Nat
OBVIOUS

\* Every field that is allocated has a cell, and every cell is one's.
LEMMA AllocCellsUsed ==
  ASSUME NEW h \in Headers
  PROVE  /\ AllocStart(h) \in Nat /\ AllocStart(h) >= HeaderCells /\ AllocCells(h) \in Nat
         /\ AllocStart(h) + AllocCells(h) < h.size
         /\ \A i \in 1 .. h.sblimit * h.channels : AllocCell(h, i) \in 1 .. AllocCells(h)
         /\ \A k \in 1 .. AllocCells(h) : \E i \in 1 .. h.sblimit * h.channels : AllocCell(h, i) = k
<1> DEFINE c == h.channels
           n == h.sblimit
           b == h.bound
<1>1. c \in Nat /\ c > 0 /\ n \in Nat /\ b \in Nat /\ b <= n /\ b * c \in Nat /\ n * c \in Nat
  BY HeaderTyped
<1>2. b * c + n - b <= n * c
  <2> HIDE DEF b, c, n
  <2>1. (n - b) * c = n * c - b * c
    BY <1>1
  <2>2. n - b \in Nat /\ c - 1 \in Nat
    BY <1>1
  <2>3. (n - b) * (c - 1) \in Nat
    BY <2>2, Product
  <2>4. (n - b) * (c - 1) = (n - b) * c - (n - b)
    BY <1>1
  <2> QED BY <1>1, <2>1, <2>3, <2>4
<1>3. AllocCells(h) = b * c + n - b /\ AllocCells(h) \in Nat
  <2>1. AllocCells(h) = b * c + n - b
    BY DEF AllocCells
  <2> HIDE DEF b, c, n
  <2> QED BY <1>1, <2>1
<1>4. AllocStart(h) \in Nat /\ AllocStart(h) >= HeaderCells /\ AllocStart(h) <= HeaderCells + 1
  BY HeaderTyped DEF AllocStart, HeaderCells
<1>5. AllocStart(h) + AllocCells(h) < h.size
  <2>1. h.size > HeaderCells + 1 + n * c /\ h.size \in Nat /\ HeaderCells = 2
    BY HeaderTyped DEF HeaderCells
  <2> HIDE DEF b, c, n
  <2> QED BY <1>1, <1>2, <1>3, <1>4, <2>1
<1>6. ASSUME NEW i \in 1 .. n * c
      PROVE  AllocCell(h, i) \in 1 .. AllocCells(h)
  <2> DEFINE q == (i - 1) \div c
  <2>1. AllocCell(h, i) = IF q < b THEN i ELSE b * c + q - b + 1
    BY DEF AllocCell, Subband
  <2> HIDE DEF b, c, n
  <2>2. q \in Nat /\ c * q <= i - 1 /\ i - 1 < c * (q + 1)
    <3>1. i - 1 \in Nat
      BY <1>1
    <3>2. \A x \in Nat : x \div c \in Nat /\ c * (x \div c) <= x /\ x < c * ((x \div c) + 1)
      BY <1>1
    <3> QED BY <3>1, <3>2
  <2> HIDE DEF q
  <2>3. CASE q < b
    <3>1. c * (q + 1) <= b * c
      <4>1. b - (q + 1) \in Nat
        BY <1>1, <2>2, <2>3
      <4>2. (b - (q + 1)) * c \in Nat
        BY <1>1, <4>1, Product
      <4>3. (b - (q + 1)) * c = b * c - c * (q + 1)
        BY <1>1, <2>2
      <4>4. c * (q + 1) \in Nat
        BY <1>1, <2>2, Product
      <4> QED BY <1>1, <4>2, <4>3, <4>4
    <3>2. c * (q + 1) \in Nat
      BY <1>1, <2>2, Product
    <3>3. i <= b * c /\ i >= 1 /\ i \in Int
      BY <1>1, <2>2, <3>1, <3>2
    <3>4. AllocCell(h, i) = i
      BY <2>1, <2>3
    <3> QED BY <1>1, <1>3, <3>3, <3>4
  <2>4. CASE ~ (q < b)
    <3>1. q < n
      <4> SUFFICES ASSUME q >= n PROVE FALSE
        BY <1>1, <2>2
      <4>1. q - n \in Nat
        BY <1>1, <2>2
      <4>2. (q - n) * c \in Nat /\ (q - n) * c = c * q - n * c
        BY <1>1, <2>2, <4>1, Product
      <4>3. c * q \in Nat
        BY <1>1, <2>2, Product
      <4> QED BY <1>1, <2>2, <4>2, <4>3
    <3> QED BY <1>1, <1>3, <2>1, <2>2, <2>4, <3>1
  <2> QED BY <2>3, <2>4
<1>7. ASSUME NEW k \in 1 .. AllocCells(h)
      PROVE  \E i \in 1 .. n * c : AllocCell(h, i) = k
  <2>1. \A i \in Nat : AllocCell(h, i) = IF (i - 1) \div c < b THEN i ELSE b * c + ((i - 1) \div c) - b + 1
    BY DEF AllocCell, Subband
  <2> HIDE DEF b, c, n
  <2>0. k \in Nat /\ k >= 1 /\ k <= b * c + n - b
    BY <1>1, <1>3
  <2>2. CASE k <= b * c
    <3> DEFINE q == (k - 1) \div c
    <3>1. q \in Nat /\ c * q <= k - 1
      <4>1. k - 1 \in Nat
        BY <2>0
      <4>2. \A x \in Nat : x \div c \in Nat /\ c * (x \div c) <= x
        BY <1>1
      <4> QED BY <4>1, <4>2
    <3>2. AllocCell(h, k) = IF q < b THEN k ELSE b * c + q - b + 1
      BY <2>0, <2>1
    <3> HIDE DEF q
    <3>3. q < b
      <4> SUFFICES ASSUME q >= b PROVE FALSE
        BY <1>1, <3>1
      <4>1. q - b \in Nat
        BY <1>1, <3>1
      <4>2. (q - b) * c \in Nat /\ (q - b) * c = c * q - b * c
        BY <1>1, <3>1, <4>1, Product
      <4>3. c * q \in Nat
        BY <1>1, <3>1, Product
      <4> QED BY <1>1, <2>0, <2>2, <3>1, <4>2, <4>3
    <3>4. AllocCell(h, k) = k /\ k \in 1 .. n * c
      <4>1. b * c <= n * c
        BY <1>1, <1>2
      <4> QED BY <1>1, <2>0, <2>2, <3>2, <3>3, <4>1
    <3> QED BY <3>4
  <2>3. CASE k > b * c
    <3> DEFINE q == k - b * c + b - 1
               i == q * c + 1
    <3>1. q \in Nat /\ b <= q /\ q < n
      BY <1>1, <2>0, <2>3
    <3> HIDE DEF q
    <3>2. q * c \in Nat /\ (q * c) \div c = q
      <4>1. q * c \in Nat
        BY <1>1, <3>1, Product
      <4>2. \A x, y \in Nat : y > 0 => (x * y) \div y = x
        OBVIOUS
      <4> QED BY <1>1, <3>1, <4>1, <4>2
    <3>3. i \in Nat /\ i >= 1 /\ i - 1 = q * c
      BY <3>2
    <3>4. i <= n * c
      <4>1. n - (q + 1) \in Nat
        BY <1>1, <3>1
      <4>2. (n - (q + 1)) * c \in Nat
        BY <1>1, <4>1, Product
      <4>3. (n - (q + 1)) * c = n * c - q * c - c
        BY <1>1, <3>1
      <4> QED BY <1>1, <3>2, <4>2, <4>3
    <3>5. AllocCell(h, i) = IF q < b THEN i ELSE b * c + q - b + 1
      <4> HIDE DEF i
      <4>1. (i - 1) \div c = q
        BY <3>2, <3>3
      <4> QED BY <2>1, <3>3, <4>1
    <3>6. b * c + q - b + 1 = k
      BY <1>1, <2>0 DEF q
    <3> HIDE DEF i
    <3>7. AllocCell(h, i) = k
      BY <1>1, <3>1, <3>5, <3>6
    <3> QED BY <1>1, <3>3, <3>4, <3>7
  <2> QED BY <1>1, <2>0, <2>2, <2>3
<1> QED BY <1>3, <1>4, <1>5, <1>6, <1>7

\* The parts as far as they follow from the allocation and the codes.
Indices(h) == 1 .. h.sblimit * h.channels
AllocOf(raw, h) == [i \in Indices(h) |-> raw[AllocStart(h) + AllocCell(h, i)]]
SpansOf(h, alloc) ==
    FlattenSeq([i \in DOMAIN alloc |-> IF Own(h, i) THEN FieldsOf(alloc[i]) ELSE <<>>])
CarryingOf(alloc) == Cardinality({i \in DOMAIN alloc : alloc[i] # 0})
ScalefactorsOf(scfsi) == FoldLeft(LAMBDA n, c : n + ScfsiCount[c], 0, scfsi)

AllocEnd(h) == AllocStart(h) + AllocCells(h)
ScfsiEnd(raw, h) == AllocEnd(h) + CarryingOf(AllocOf(raw, h))
ScfsiOf(raw, h) == SubSeq(raw, AllocEnd(h) + 1, ScfsiEnd(raw, h))
ScalefactorEnd(raw, h) == ScfsiEnd(raw, h) + ScalefactorsOf(ScfsiOf(raw, h))
SampleEnd(raw, h) == ScalefactorEnd(raw, h) + Len(SpansOf(h, AllocOf(raw, h)))

Verdict(raw, h) ==
    IF ScfsiEnd(raw, h) > h.size THEN "raise"
    ELSE IF ScalefactorEnd(raw, h) > h.size THEN "raise"
    ELSE IF SampleEnd(raw, h) > h.size THEN "refuse" ELSE "frame"

ParsedFrame(raw, h) ==
    [header |-> h, verdict |-> "frame",
     head |-> SubSeq(raw, 1, AllocStart(h)), alloc |-> AllocOf(raw, h),
     scfsi |-> ScfsiOf(raw, h),
     scalefactors |-> SubSeq(raw, ScfsiEnd(raw, h) + 1, ScalefactorEnd(raw, h)),
     samples |-> SubSeq(raw, ScalefactorEnd(raw, h) + 1, SampleEnd(raw, h)),
     tail |-> SubSeq(raw, SampleEnd(raw, h) + 1, h.size)]

Span == 1 .. Sync + 1

LEMMA FieldsTyped ==
  ASSUME NEW a \in Cell
  PROVE  FieldsOf(a) \in Seq(Span)
<1>1. CASE a = 0
  <2>1. FieldsOf(a) = [n \in 1 .. 0 |-> Quant[a].span]
    BY <1>1 DEF FieldsOf
  <2>2. FieldsOf(a) = <<>>
    BY <2>1
  <2> QED BY <2>2
<1>2. CASE a # 0
  <2>1. a \in DOMAIN Quant
    BY <1>2, Mp2Assumption
  <2>2. Quant[a].count \in Nat /\ Quant[a].span \in Span
    BY <2>1, Mp2Assumption DEF Span
  <2>3. FieldsOf(a) = [n \in 1 .. Quant[a].count |-> Quant[a].span]
    BY <1>2 DEF FieldsOf
  <2> QED BY <2>2, <2>3
<1> QED BY <1>1, <1>2

LEMMA SpansTyped ==
  ASSUME NEW n \in Nat, NEW alloc \in [1 .. n -> Cell], NEW h
  PROVE  SpansOf(h, alloc) \in Seq(Span) /\ Len(SpansOf(h, alloc)) \in Nat
<1> DEFINE p == [i \in DOMAIN alloc |-> IF Own(h, i) THEN FieldsOf(alloc[i]) ELSE <<>>]
<1>1. p \in Seq(Seq(Span))
  <2>1. DOMAIN alloc = 1 .. n
    OBVIOUS
  <2>2. \A i \in 1 .. n : (IF Own(h, i) THEN FieldsOf(alloc[i]) ELSE <<>>) \in Seq(Span)
    BY FieldsTyped
  <2>3. p \in [1 .. n -> Seq(Span)]
    BY <2>1, <2>2
  <2> HIDE DEF p
  <2> QED BY <2>3
<1>2. SpansOf(h, alloc) = FlattenSeq(p)
  BY DEF SpansOf
<1> HIDE DEF p
<1> QED BY <1>1, <1>2, FlattenTyped

LEMMA CarryingCounts ==
  ASSUME NEW n \in Nat, NEW alloc \in [1 .. n -> Cell]
  PROVE  CarryingOf(alloc) \in Nat /\ CarryingOf(alloc) <= n
<1>1. IsFiniteSet(1 .. n) /\ Cardinality(1 .. n) = n
  <2>1. IsFiniteSet(1 .. n) /\ Cardinality(1 .. n) = IF 1 > n THEN 0 ELSE n - 1 + 1
    BY FS_Interval
  <2> QED BY <2>1
<1>2. {i \in DOMAIN alloc : alloc[i] # 0} \subseteq 1 .. n
  OBVIOUS
<1> QED BY <1>1, <1>2, FS_Subset, FS_CardinalityType DEF CarryingOf

LEMMA ScalefactorsCounted ==
  ASSUME NEW scfsi \in Seq(Cell)
  PROVE  ScalefactorsOf(scfsi) \in Nat
<1> DEFINE n == Len(scfsi)
           Add(x, c) == x + ScfsiCount[c]
           step == [p \in Nat \X (1 .. n) |-> Add(p[1], scfsi[p[2]])]
           iter[t \in SUBSET DOMAIN scfsi] ==
               IF t = {} THEN 0 ELSE Add(iter[t \ {Max(t)}], scfsi[Max(t)])
<1>1. ScalefactorsOf(scfsi) = iter[DOMAIN scfsi]
  BY DEF ScalefactorsOf, FoldLeft, MapThenFoldSet
<1>2. n \in Nat /\ DOMAIN scfsi = 1 .. n /\ \A k \in 1 .. n : scfsi[k] \in Cell
  OBVIOUS
<1> HIDE DEF n
<1>3. \A x \in Nat, c \in Cell : Add(x, c) \in Nat
  <2>1. \A c \in Cell : ScfsiCount[c] \in Nat
    BY DEF ScfsiCount, Cell, Sync
  <2> QED BY <2>1
<1> HIDE DEF Add
<1>4. step \in [Nat \X (1 .. n) -> Nat] /\ \A x \in Nat, k \in 1 .. n : step[<<x, k>>] = Add(x, scfsi[k])
  BY <1>2, <1>3
<1> HIDE DEF step
<1>5. PICK g : Steps(g, n, Nat, 0, step)
  BY ONLY <1>2, <1>4, StepRecursion
<1>6. PICK h : Unfolds(h, n, Nat, 0, step)
  BY ONLY <1>2, <1>4, FoldRecursion
<1>7. h = [t \in SUBSET DOMAIN scfsi |-> IF t = {} THEN 0 ELSE Add(h[t \ {Max(t)}], scfsi[Max(t)])]
  <2>1. ASSUME NEW t \in SUBSET (1 .. n), t # {}
        PROVE  h[t] = Add(h[t \ {Max(t)}], scfsi[Max(t)])
    <3>1. Max(t) \in 1 .. n
      BY <1>2, <2>1, BoundedMax
    <3>2. h[t \ {Max(t)}] \in Nat
      BY <1>6 DEF Unfolds
    <3> QED BY <1>4, <1>6, <2>1, <3>1, <3>2 DEF Unfolds
  <2>2. \A t \in SUBSET (1 .. n) : h[t] = IF t = {} THEN 0 ELSE Add(h[t \ {Max(t)}], scfsi[Max(t)])
    BY <1>6, <2>1 DEF Unfolds
  <2> QED BY <1>2, <1>6, <2>2 DEF Unfolds
<1>8. iter = [t \in SUBSET DOMAIN scfsi |-> IF t = {} THEN 0 ELSE Add(iter[t \ {Max(t)}], scfsi[Max(t)])]
  BY <1>7
<1> HIDE DEF iter
<1>9. iter[{}] = 0
  BY <1>2, <1>8
<1>10. FoldSteps(iter, n, Nat, step)
  <2> SUFFICES ASSUME NEW k \in 1 .. n, iter[1 .. k - 1] \in Nat
               PROVE  iter[1 .. k] = step[<<iter[1 .. k - 1], k>>]
    BY DEF FoldSteps
  <2>1. 1 .. k \in SUBSET (1 .. n) /\ k \in Nat \ {0}
    BY <1>2
  <2>2. 1 .. k # {} /\ Max(1 .. k) = k /\ (1 .. k) \ {Max(1 .. k)} = 1 .. k - 1
    BY <2>1, IntervalMax
  <2>3. iter[1 .. k] = Add(iter[1 .. k - 1], scfsi[k])
    BY <1>2, <1>8, <2>1, <2>2
  <2> QED BY <1>4, <2>3
<1>11. iter[1 .. n] = g[n] /\ g[n] \in Nat
  <2>1. \A k \in 0 .. n : iter[1 .. k] = g[k]
    BY ONLY <1>2, <1>5, <1>9, <1>10, FoldOfInterval
  <2>2. n \in 0 .. n
    BY <1>2
  <2> QED BY <1>5, <2>1, <2>2 DEF Steps
<1> QED BY <1>1, <1>2, <1>11

LEMMA AllocTyped ==
  ASSUME NEW h \in Headers, NEW raw \in Seq(Cell), Len(raw) = h.size
  PROVE  /\ h.sblimit * h.channels \in Nat
         /\ AllocOf(raw, h) \in [1 .. h.sblimit * h.channels -> Cell]
<1>1. ASSUME NEW i \in 1 .. h.sblimit * h.channels
      PROVE  raw[AllocStart(h) + AllocCell(h, i)] \in Cell
  <2>1. AllocStart(h) + AllocCell(h, i) \in 1 .. Len(raw)
    <3>1. /\ AllocStart(h) \in Nat /\ AllocCells(h) \in Nat
          /\ AllocStart(h) + AllocCells(h) < h.size /\ AllocCell(h, i) \in 1 .. AllocCells(h)
      BY AllocCellsUsed
    <3>2. h.size \in Nat
      BY HeaderTyped
    <3> QED BY <3>1, <3>2
  <2> QED BY <2>1
<1> QED BY <1>1, HeaderTyped DEF AllocOf, Indices

LEMMA EndsTyped ==
  ASSUME NEW h \in Headers, NEW raw \in Seq(Cell), Len(raw) = h.size
  PROVE  /\ AllocEnd(h) \in Nat /\ AllocEnd(h) < h.size
         /\ ScfsiEnd(raw, h) \in Nat /\ ScfsiEnd(raw, h) >= AllocEnd(h)
         /\ ScfsiEnd(raw, h) <= h.size =>
               /\ ScfsiOf(raw, h) \in Seq(Cell)
               /\ Len(ScfsiOf(raw, h)) = CarryingOf(AllocOf(raw, h))
               /\ ScalefactorEnd(raw, h) \in Nat /\ ScalefactorEnd(raw, h) >= ScfsiEnd(raw, h)
               /\ SampleEnd(raw, h) \in Nat /\ SampleEnd(raw, h) >= ScalefactorEnd(raw, h)
<1>1. AllocEnd(h) \in Nat /\ AllocEnd(h) < h.size
  BY AllocCellsUsed DEF AllocEnd
<1>2. CarryingOf(AllocOf(raw, h)) \in Nat
  BY AllocTyped, CarryingCounts
<1>3. ScfsiEnd(raw, h) \in Nat /\ ScfsiEnd(raw, h) >= AllocEnd(h)
  BY <1>1, <1>2 DEF ScfsiEnd
<1>4. ASSUME ScfsiEnd(raw, h) <= h.size
      PROVE  /\ ScfsiOf(raw, h) \in Seq(Cell)
             /\ Len(ScfsiOf(raw, h)) = CarryingOf(AllocOf(raw, h))
  <2>1. /\ SubSeq(raw, AllocEnd(h) + 1, ScfsiEnd(raw, h)) \in Seq(Cell)
        /\ Len(SubSeq(raw, AllocEnd(h) + 1, ScfsiEnd(raw, h))) = ScfsiEnd(raw, h) - (AllocEnd(h) + 1) + 1
    <3> DEFINE a == AllocEnd(h) + 1
               b == ScfsiEnd(raw, h)
    <3>1. a \in Nat /\ b \in Nat /\ 1 <= a /\ a <= b + 1 /\ b <= Len(raw)
      BY <1>1, <1>3, <1>4, HeaderTyped
    <3> HIDE DEF a, b
    <3>2. SubSeq(raw, a, b) \in Seq(Cell) /\ Len(SubSeq(raw, a, b)) = b - a + 1
      BY <3>1, SeqSlice
    <3> QED BY <3>2 DEF a, b
  <2>2. ScfsiEnd(raw, h) - (AllocEnd(h) + 1) + 1 = CarryingOf(AllocOf(raw, h))
    BY <1>1, <1>2 DEF ScfsiEnd
  <2> QED BY <2>1, <2>2 DEF ScfsiOf
<1>5. ASSUME ScfsiEnd(raw, h) <= h.size
      PROVE  /\ ScalefactorEnd(raw, h) \in Nat /\ ScalefactorEnd(raw, h) >= ScfsiEnd(raw, h)
             /\ SampleEnd(raw, h) \in Nat /\ SampleEnd(raw, h) >= ScalefactorEnd(raw, h)
  <2>1. ScalefactorsOf(ScfsiOf(raw, h)) \in Nat
    BY <1>4, <1>5, ScalefactorsCounted
  <2>2. Len(SpansOf(h, AllocOf(raw, h))) \in Nat
    BY AllocTyped, SpansTyped
  <2> QED BY <1>3, <2>1, <2>2 DEF ScalefactorEnd, SampleEnd
<1> QED BY <1>1, <1>3, <1>4, <1>5

\* A frame part by part, and what reading one more part makes of it.
Frame(h, v, head, alloc, scfsi, scalefactors, samples, tail) ==
    [header |-> h, verdict |-> v, head |-> head, alloc |-> alloc,
     scfsi |-> scfsi, scalefactors |-> scalefactors, samples |-> samples, tail |-> tail]

LEMMA ReadStops ==
  ASSUME NEW f, f.verdict # "frame"
  PROVE  ReadScalefactors(f) = f /\ ReadSamples(f) = f
BY DEF ReadScalefactors, ReadSamples, Read

LEMMA ReadShort ==
  ASSUME NEW h, NEW head, NEW alloc, NEW scfsi, NEW scalefactors, NEW samples, NEW tail,
         NEW part, NEW n, n > Len(tail), NEW short
  PROVE  Read(Frame(h, "frame", head, alloc, scfsi, scalefactors, samples, tail), part, n, short)
         = Frame(h, short, head, alloc, scfsi, scalefactors, samples, tail)
BY DEF Read, Frame

LEMMA ReadsScfsi ==
  ASSUME NEW h, NEW head, NEW alloc, NEW scfsi, NEW scalefactors, NEW samples, NEW tail,
         NEW n, ~ (n > Len(tail)), NEW short
  PROVE  Read(Frame(h, "frame", head, alloc, scfsi, scalefactors, samples, tail), "scfsi", n, short)
         = Frame(h, "frame", head, alloc, SubSeq(tail, 1, n), scalefactors, samples,
                 SubSeq(tail, n + 1, Len(tail)))
BY DEF Read, Frame

LEMMA ReadsScalefactors ==
  ASSUME NEW h, NEW head, NEW alloc, NEW scfsi, NEW scalefactors, NEW samples, NEW tail,
         NEW n, ~ (n > Len(tail)), NEW short
  PROVE  Read(Frame(h, "frame", head, alloc, scfsi, scalefactors, samples, tail), "scalefactors", n, short)
         = Frame(h, "frame", head, alloc, scfsi, SubSeq(tail, 1, n), samples,
                 SubSeq(tail, n + 1, Len(tail)))
BY DEF Read, Frame

LEMMA ReadsSamples ==
  ASSUME NEW h, NEW head, NEW alloc, NEW scfsi, NEW scalefactors, NEW samples, NEW tail,
         NEW n, ~ (n > Len(tail)), NEW short
  PROVE  Read(Frame(h, "frame", head, alloc, scfsi, scalefactors, samples, tail), "samples", n, short)
         = Frame(h, "frame", head, alloc, scfsi, scalefactors, SubSeq(tail, 1, n),
                 SubSeq(tail, n + 1, Len(tail)))
BY DEF Read, Frame

\* What is left of a frame from cell a + 1 on, and after n cells of it.
LEMMA Rest ==
  ASSUME NEW raw \in Seq(Cell), NEW a \in Nat, NEW n \in Nat, a <= Len(raw),
         NEW t, t = SubSeq(raw, a + 1, Len(raw))
  PROVE  /\ Len(t) = Len(raw) - a
         /\ a + n <= Len(raw) =>
               /\ SubSeq(t, 1, n) = SubSeq(raw, a + 1, a + n)
               /\ SubSeq(t, n + 1, Len(t)) = SubSeq(raw, a + n + 1, Len(raw))
<1> DEFINE z == Len(raw)
<1>0. z \in Nat /\ a <= z
  OBVIOUS
<1>1. Len(SubSeq(raw, a + 1, Len(raw))) = Len(raw) - (a + 1) + 1
  BY SeqSlice
<1>2. ASSUME a + n <= Len(raw)
      PROVE  SubSeq(SubSeq(raw, a + 1, Len(raw)), 1, n) = SubSeq(raw, a + 1, a + n)
  <2>1. SubSeq(SubSeq(raw, a + 1, Len(raw)), 1, n) = SubSeq(raw, (a + 1) + 1 - 1, (a + 1) + n - 1)
    BY <1>2, SeqSliceOfSlice
  <2>2. (a + 1) + 1 - 1 = a + 1 /\ (a + 1) + n - 1 = a + n
    OBVIOUS
  <2> QED BY <2>1, <2>2
<1>3. ASSUME a + n <= Len(raw)
      PROVE  SubSeq(SubSeq(raw, a + 1, Len(raw)), n + 1, Len(raw) - a) = SubSeq(raw, a + n + 1, Len(raw))
  <2>0. n + 1 \in Nat /\ z - a \in Nat /\ n + 1 <= (z - a) + 1 /\ z - a <= z - (a + 1) + 1 /\ a + 1 \in Nat
        /\ 1 <= n + 1 /\ 1 <= a + 1 /\ a + 1 <= z + 1 /\ z <= Len(raw)
    BY <1>0, <1>3
  <2> HIDE DEF z
  <2>1. SubSeq(SubSeq(raw, a + 1, z), n + 1, z - a)
        = SubSeq(raw, (a + 1) + (n + 1) - 1, (a + 1) + (z - a) - 1)
    BY ONLY raw \in Seq(Cell), <1>0, <2>0, SeqSliceOfSlice
  <2>2. (a + 1) + (n + 1) - 1 = a + n + 1 /\ (a + 1) + (z - a) - 1 = z
    BY <1>0
  <2> QED BY <2>1, <2>2 DEF z
<1>4. Len(raw) - (a + 1) + 1 = Len(raw) - a
  BY <1>0
<1>5. Len(t) = Len(raw) - a
  BY <1>1, <1>4
<1> QED BY <1>2, <1>3, <1>5

LEMMA ParsedIs ==
  ASSUME NEW h \in Headers, NEW raw \in Seq(Cell), Len(raw) = h.size
  PROVE  /\ Parse(raw, h).verdict = Verdict(raw, h)
         /\ Verdict(raw, h) = "frame" => Parse(raw, h) = ParsedFrame(raw, h)
<1> DEFINE head == SubSeq(raw, 1, AllocStart(h))
           alloc == AllocOf(raw, h)
           a == AllocEnd(h)
           b == ScfsiEnd(raw, h)
           c == ScalefactorEnd(raw, h)
           d == SampleEnd(raw, h)
           n1 == CarryingOf(alloc)
           q == ScfsiOf(raw, h)
           n2 == ScalefactorsOf(q)
           n3 == Len(SpansOf(h, alloc))
           t0 == SubSeq(raw, a + 1, Len(raw))
           f0 == Frame(h, "frame", head, alloc, <<>>, <<>>, <<>>, t0)
           f1 == ReadScfsi(f0)
           f2 == ReadScalefactors(f1)
           f3 == ReadSamples(f2)
<1>1. /\ a \in Nat /\ a < h.size /\ h.size \in Nat /\ h.size = Len(raw)
      /\ n1 \in Nat /\ n3 \in Nat /\ b = a + n1
      /\ b \in Nat /\ b >= a
      /\ b <= h.size => /\ q \in Seq(Cell) /\ n2 \in Nat /\ c = b + n2 /\ c \in Nat
                        /\ d = c + n3 /\ d \in Nat
  <2>1. n1 \in Nat /\ n3 \in Nat
    BY AllocTyped, CarryingCounts, SpansTyped
  <2>2. b <= h.size => q \in Seq(Cell) /\ n2 \in Nat /\ c \in Nat /\ d \in Nat
    BY EndsTyped, ScalefactorsCounted
  <2>3. b = a + n1 /\ c = b + n2 /\ d = c + n3
    BY DEF ScfsiEnd, ScalefactorEnd, SampleEnd
  <2>4. a \in Nat /\ a < h.size /\ h.size \in Nat /\ b \in Nat /\ b >= a
    BY EndsTyped, HeaderTyped
  <2> QED BY <2>1, <2>2, <2>3, <2>4
<1>2. Parse(raw, h) = f3
  <2>1. Opened(raw, h) = f0
    BY <1>1 DEF Opened, Frame, AllocOf, Indices, AllocEnd
  <2> QED BY <2>1 DEF Parse
<1>3. f1 = Read(f0, "scfsi", n1, "raise")
  BY DEF ReadScfsi, Carrying, CarryingOf, Frame
<1>9. raw \in Seq(Cell)
  OBVIOUS
<1>4. Len(t0) = h.size - a
  <2>1. a \in Nat /\ 0 \in Nat /\ a <= Len(raw)
    BY <1>1
  <2>2. Len(t0) = Len(raw) - a
    BY ONLY <1>9, <2>1, Rest
  <2> QED BY <1>1, <2>2
<1> HIDE DEF f1, a, b, c, d, n1, n2, n3, q, head, alloc
<1>5. CASE b > h.size
  <2>1. n1 > Len(t0)
    BY <1>1, <1>4, <1>5
  <2>2. f1.verdict = "raise"
    <3> HIDE DEF t0
    <3>1. f1 = Frame(h, "raise", head, alloc, <<>>, <<>>, <<>>, t0)
      BY <1>3, <2>1, ReadShort
    <3> QED BY <3>1 DEF Frame
  <2>3. f2 = f1 /\ f3 = f2
    BY <2>2, ReadStops
  <2>4. Verdict(raw, h) = "raise"
    BY <1>5 DEF Verdict, b
  <2> QED BY <1>2, <2>2, <2>3, <2>4
<1>6. CASE b <= h.size
  <2> DEFINE t1 == SubSeq(raw, b + 1, Len(raw))
  <2>1. f1 = Frame(h, "frame", head, alloc, q, <<>>, <<>>, t1)
    <3>1. ~ (n1 > Len(t0)) /\ a + n1 <= Len(raw)
      BY <1>1, <1>4, <1>6
    <3>2. SubSeq(t0, 1, n1) = SubSeq(raw, a + 1, a + n1) /\ SubSeq(t0, n1 + 1, Len(t0)) = SubSeq(raw, a + n1 + 1, Len(raw))
      <4>1. a \in Nat /\ n1 \in Nat /\ a <= Len(raw) /\ a + n1 <= Len(raw)
        BY <1>1, <3>1
      <4> QED BY ONLY <1>9, <4>1, Rest
    <3>3. SubSeq(t0, 1, n1) = q /\ SubSeq(t0, n1 + 1, Len(t0)) = t1
      BY <1>1, <3>2 DEF q, ScfsiOf, a, b
    <3> HIDE DEF t0, t1
    <3>4. f1 = Frame(h, "frame", head, alloc, SubSeq(t0, 1, n1), <<>>, <<>>, SubSeq(t0, n1 + 1, Len(t0)))
      BY <1>3, <3>1, ReadsScfsi
    <3> QED BY <3>3, <3>4
  <2>2. f2 = Read(f1, "scalefactors", n2, "raise")
    <3>1. f1.scfsi = q
      BY <2>1 DEF Frame
    <3> QED BY <3>1 DEF ReadScalefactors, n2, ScalefactorsOf
  <2>3. Len(t1) = h.size - b
    <3>1. b \in Nat /\ 0 \in Nat /\ b <= Len(raw)
      BY <1>1, <1>6
    <3>2. Len(t1) = Len(raw) - b
      BY ONLY <1>9, <3>1, Rest
    <3> QED BY <1>1, <3>2
  <2> HIDE DEF f2
  <2>4. CASE c > h.size
    <3>1. n2 > Len(t1)
      BY <1>1, <1>6, <2>3, <2>4
    <3>2. f2.verdict = "raise"
      <4> HIDE DEF t1
      <4>1. f2 = Frame(h, "raise", head, alloc, q, <<>>, <<>>, t1)
        BY <2>1, <2>2, <3>1, ReadShort
      <4> QED BY <4>1 DEF Frame
    <3>3. f3 = f2
      BY <3>2, ReadStops
    <3>4. Verdict(raw, h) = "raise"
      BY <2>4 DEF Verdict, c
    <3> QED BY <1>2, <3>2, <3>3, <3>4
  <2>5. CASE c <= h.size
    <3> DEFINE t2 == SubSeq(raw, c + 1, Len(raw))
               sf == SubSeq(raw, b + 1, c)
    <3>1. f2 = Frame(h, "frame", head, alloc, q, sf, <<>>, t2)
      <4>1. ~ (n2 > Len(t1)) /\ b + n2 <= Len(raw)
        BY <1>1, <1>6, <2>3, <2>5
      <4>2. SubSeq(t1, 1, n2) = SubSeq(raw, b + 1, b + n2)
            /\ SubSeq(t1, n2 + 1, Len(t1)) = SubSeq(raw, b + n2 + 1, Len(raw))
        <5>1. b \in Nat /\ n2 \in Nat /\ b <= Len(raw) /\ b + n2 <= Len(raw)
          BY <1>1, <1>6, <4>1
        <5> QED BY ONLY <1>9, <5>1, Rest
      <4>3. SubSeq(t1, 1, n2) = sf /\ SubSeq(t1, n2 + 1, Len(t1)) = t2
        BY <1>1, <1>6, <4>2
      <4> HIDE DEF t1, t2, sf
      <4>4. f2 = Frame(h, "frame", head, alloc, q, SubSeq(t1, 1, n2), <<>>, SubSeq(t1, n2 + 1, Len(t1)))
        BY <2>1, <2>2, <4>1, ReadsScalefactors
      <4> QED BY <4>3, <4>4
    <3>2. f3 = Read(f2, "samples", n3, "refuse")
      <4>1. f2.header = h /\ f2.alloc = alloc
        BY <3>1 DEF Frame
      <4>2. Spans(f2) = SpansOf(f2.header, f2.alloc)
        BY DEF Spans, SpansOf
      <4> QED BY <4>1, <4>2 DEF ReadSamples, n3
    <3>3. Len(t2) = h.size - c
      <4>1. c \in Nat /\ 0 \in Nat /\ c <= Len(raw)
        BY <1>1, <1>6, <2>5
      <4>2. Len(t2) = Len(raw) - c
        BY ONLY <1>9, <4>1, Rest
      <4> QED BY <1>1, <4>2
    <3> HIDE DEF f3, sf
    <3>4. CASE d > h.size
      <4>1. n3 > Len(t2)
        BY SMTT(20), <1>1, <1>6, <2>5, <3>3, <3>4
      <4>2. f3.verdict = "refuse"
        <5> HIDE DEF t2
        <5>1. f3 = Frame(h, "refuse", head, alloc, q, sf, <<>>, t2)
          BY <3>1, <3>2, <4>1, ReadShort
        <5> QED BY <5>1 DEF Frame
      <4>3. Verdict(raw, h) = "refuse"
        <5>1. ~ (b > h.size) /\ ~ (c > h.size)
          BY <1>1, <1>6, <2>5
        <5> QED BY <3>4, <5>1 DEF Verdict, b, c, d
      <4> QED BY <1>2, <4>2, <4>3
    <3>5. CASE d <= h.size
      <4> DEFINE t3 == SubSeq(raw, d + 1, Len(raw))
                 sm == SubSeq(raw, c + 1, d)
      <4>1. ~ (n3 > Len(t2)) /\ c + n3 <= Len(raw)
        BY SMTT(20), <1>1, <1>6, <2>5, <3>3, <3>5
      <4>2. SubSeq(t2, 1, n3) = SubSeq(raw, c + 1, c + n3)
            /\ SubSeq(t2, n3 + 1, Len(t2)) = SubSeq(raw, c + n3 + 1, Len(raw))
        <5>1. c \in Nat /\ n3 \in Nat /\ c <= Len(raw) /\ c + n3 <= Len(raw)
          BY <1>1, <1>6, <2>5, <4>1
        <5> QED BY ONLY <1>9, <5>1, Rest
      <4>3. SubSeq(t2, 1, n3) = sm /\ SubSeq(t2, n3 + 1, Len(t2)) = t3
        BY <1>1, <1>6, <2>5, <4>2
      <4>4. f3 = Frame(h, "frame", head, alloc, q, sf, sm, t3)
        <5> HIDE DEF t2, t3, sm
        <5>1. f3 = Frame(h, "frame", head, alloc, q, sf, SubSeq(t2, 1, n3), SubSeq(t2, n3 + 1, Len(t2)))
          BY <3>1, <3>2, <4>1, ReadsSamples
        <5> QED BY <4>3, <5>1
      <4>5. Verdict(raw, h) = "frame"
        <5>1. ~ (b > h.size) /\ ~ (c > h.size) /\ ~ (d > h.size)
          BY <1>1, <1>6, <2>5, <3>5
        <5> QED BY <5>1 DEF Verdict, b, c, d
      <4>6. f3.verdict = "frame"
        BY <4>4 DEF Frame
      <4>7. f3 = ParsedFrame(raw, h)
        BY <1>1, <4>4 DEF Frame, ParsedFrame, head, alloc, q, sf, b, c, d
      <4> QED BY <1>2, <4>5, <4>6, <4>7
    <3> QED BY <1>1, <1>6, <3>4, <3>5
  <2> QED BY <1>1, <1>6, <2>4, <2>5
<1> QED BY <1>1, <1>5, <1>6

LEMMA VerdictKinds == \A raw, h : Verdict(raw, h) \in {"raise", "refuse", "frame"}
BY DEF Verdict

-----------------------------------------------------------------------------
(* The search.                                                              *)
Statuses == {"junk", "more", "frame", "raise"}

LEMMA HeaderFound ==
  ASSUME NEW s \in Seq(Cell), NEW j \in 1 .. Len(s), Header(s, j) # None
  PROVE  /\ j + 1 <= Len(s) /\ s[j] = Sync /\ s[j + 1] \in DOMAIN Formats
         /\ Header(s, j) = Formats[s[j + 1]] /\ Header(s, j) \in Headers
         /\ Header(s, j).size \in Nat /\ Header(s, j).size > HeaderCells
<1>1. /\ j + 1 <= Len(s) /\ s[j] = Sync /\ s[j + 1] \in DOMAIN Formats
      /\ Header(s, j) = Formats[s[j + 1]]
  BY DEF Header
<1>2. Header(s, j) \in Headers
  BY <1>1 DEF Headers
<1>3. Header(s, j).size \in Nat /\ Header(s, j).size > HeaderCells
  <2>1. PICK h \in Headers : h = Header(s, j)
    BY <1>2
  <2>2. h.size \in Nat /\ h.size > HeaderCells
    BY HeaderTyped DEF HeaderCells
  <2> QED BY <2>1, <2>2
<1> QED BY <1>1, <1>2, <1>3

LEMMA RawTyped ==
  ASSUME NEW s \in Seq(Cell), NEW j \in 1 .. Len(s), Header(s, j) # None,
         j + Header(s, j).size - 1 <= Len(s)
  PROVE  /\ Raw(s, j) \in Seq(Cell) /\ Len(Raw(s, j)) = Header(s, j).size
         /\ \A k \in 1 .. Header(s, j).size : Raw(s, j)[k] = s[j + k - 1]
<1> DEFINE z == Header(s, j).size
           b == j + z - 1
<1>1. z \in Nat /\ z > 0 /\ j \in Nat /\ j >= 1 /\ Len(s) \in Nat
  BY HeaderFound DEF HeaderCells
<1>2. Raw(s, j) = SubSeq(s, j, b)
  BY DEF Raw
<1>3. b \in Nat /\ j <= b + 1 /\ b <= Len(s) /\ b - j + 1 = z
  <2> HIDE DEF z
  <2> QED BY <1>1 DEF z
<1> HIDE DEF b
<1>4. /\ SubSeq(s, j, b) \in Seq(Cell) /\ Len(SubSeq(s, j, b)) = b - j + 1
      /\ \A k \in 1 .. b - j + 1 : SubSeq(s, j, b)[k] = s[j + k - 1]
  <2>1. s \in Seq(Cell)
    OBVIOUS
  <2> QED BY ONLY <1>1, <1>3, <2>1, SeqSlice
<1> HIDE DEF z
<1>5. Len(Raw(s, j)) = z /\ Raw(s, j) \in Seq(Cell) /\ \A k \in 1 .. z : Raw(s, j)[k] = s[j + k - 1]
  BY <1>2, <1>3, <1>4
<1> QED BY <1>5 DEF z

\* A status in words: what there is at cell j.
LEMMA StatusIs ==
  ASSUME NEW s \in Seq(Cell), NEW j \in 1 .. Len(s), NEW final \in BOOLEAN
  PROVE  /\ Status(s, j, final) \in Statuses
         /\ Status(s, j, final) \in {"frame", "raise"} =>
               /\ Header(s, j) # None /\ j + Header(s, j).size - 1 <= Len(s)
               /\ Verdict(Raw(s, j), Header(s, j)) = Status(s, j, final)
               /\ Past(s, j) \in j + 1 .. Len(s) + 1
         /\ Status(s, j, final) = "more" =>
               /\ ~ final /\ s[j] = Sync
               /\ \/ j + HeaderCells - 1 > Len(s)
                  \/ Header(s, j) # None /\ j + Header(s, j).size - 1 > Len(s)
         /\ (Status(s, j, final) = "junk" /\ ~ final) =>
               \/ s[j] # Sync
               \/ j + HeaderCells - 1 <= Len(s) /\ Header(s, j) = None
               \/ /\ Header(s, j) # None /\ j + Header(s, j).size - 1 <= Len(s)
                  /\ Verdict(Raw(s, j), Header(s, j)) = "refuse"
<1> DEFINE st == Status(s, j, final)
<1>1. CASE s[j] # Sync
  <2>1. st = "junk"
    BY <1>1 DEF Status
  <2> QED BY <1>1, <2>1 DEF Statuses
<1>2. CASE s[j] = Sync /\ j + HeaderCells - 1 > Len(s)
  <2>1. st = IF final THEN "junk" ELSE "more"
    BY <1>2 DEF Status
  <2> QED BY <1>2, <2>1 DEF Statuses
<1>3. CASE s[j] = Sync /\ ~ (j + HeaderCells - 1 > Len(s)) /\ Header(s, j) = None
  <2>1. st = "junk"
    BY <1>3 DEF Status
  <2>2. j + HeaderCells - 1 <= Len(s)
    BY <1>3 DEF HeaderCells
  <2> QED BY <1>3, <2>1, <2>2 DEF Statuses
<1>4. CASE s[j] = Sync /\ ~ (j + HeaderCells - 1 > Len(s)) /\ Header(s, j) # None
           /\ j + Header(s, j).size - 1 > Len(s)
  <2>1. st = IF final THEN "junk" ELSE "more"
    BY <1>4 DEF Status
  <2> QED BY <1>4, <2>1 DEF Statuses
<1>5. CASE s[j] = Sync /\ ~ (j + HeaderCells - 1 > Len(s)) /\ Header(s, j) # None
           /\ ~ (j + Header(s, j).size - 1 > Len(s))
  <2> DEFINE v == Parse(Raw(s, j), Header(s, j)).verdict
  <2>1. st = IF v = "refuse" THEN "junk" ELSE v
    BY <1>5 DEF Status
  <2>2. Header(s, j) \in Headers /\ Header(s, j).size \in Nat /\ Header(s, j).size > HeaderCells
    BY <1>5, HeaderFound
  <2>3. j + Header(s, j).size - 1 <= Len(s)
    BY <1>5, <2>2
  <2>4. Raw(s, j) \in Seq(Cell) /\ Len(Raw(s, j)) = Header(s, j).size
    BY <1>5, <2>3, RawTyped
  <2>5. v = Verdict(Raw(s, j), Header(s, j))
    BY <2>2, <2>4, ParsedIs
  <2>6. v \in {"raise", "refuse", "frame"}
    BY <2>5, VerdictKinds
  <2>7. Past(s, j) \in j + 1 .. Len(s) + 1
    BY <2>2, <2>3 DEF Past, HeaderCells
  <2> HIDE DEF v
  <2> QED BY <1>5, <2>1, <2>3, <2>5, <2>6, <2>7 DEF Statuses
<1> QED BY <1>1, <1>2, <1>3, <1>4, <1>5

\* After the cells up to n: where the frames start, with junk between them,
\* and how far the last search has come.
Starting(s, r, k) == IF k = 0 THEN 1 ELSE Past(s, r.starts[k])

Scans == [starts : Seq(Nat), from : Nat, stop : Nat, status : {"exhausted", "more", "raise"}]

Junk(s, final, a, b) == \A j \in a .. b : Status(s, j, final) = "junk"

Found(s, final, r, k) ==
    /\ r.starts[k] >= Starting(s, r, k - 1) /\ Status(s, r.starts[k], final) = "frame"
    /\ Junk(s, final, Starting(s, r, k - 1), r.starts[k] - 1)

Searched(s, final, r, n) ==
    /\ r \in Scans
    /\ \A k \in 1 .. Len(r.starts) : r.starts[k] \in 1 .. n /\ Found(s, final, r, k)
    /\ r.from = Starting(s, r, Len(r.starts))
    /\ r.from \in 1 .. Len(s) + 1
    /\ r.status = "exhausted" => r.stop = Len(s) + 1 /\ Junk(s, final, r.from, n)
    /\ r.status # "exhausted" => /\ r.stop \in r.from .. n
                                 /\ Status(s, r.stop, final) = r.status
                                 /\ Junk(s, final, r.from, r.stop - 1)

LEMMA ExamineTyped ==
  ASSUME NEW s, NEW j \in Nat, NEW r \in Scans, NEW st \in Statuses, st = "frame" => Past(s, j) \in Nat
  PROVE  Examine(r, s, j, st) \in Scans
<1>1. CASE st = "frame"
  <2>1. Past(s, j) \in Nat /\ Append(r.starts, j) \in Seq(Nat)
    BY <1>1 DEF Scans
  <2>2. [r EXCEPT !.starts = Append(@, j), !.from = Past(s, j)] \in Scans
    BY <2>1 DEF Scans
  <2> QED BY <1>1, <2>2 DEF Examine
<1>2. CASE st \in {"more", "raise"}
  <2>1. [r EXCEPT !.stop = j, !.status = st] \in Scans
    BY <1>2 DEF Scans
  <2> QED BY <1>2, <2>1 DEF Examine
<1>3. CASE st = "junk"
  BY <1>3 DEF Examine
<1> QED BY <1>1, <1>2, <1>3 DEF Statuses

\* What one more cell makes of a search.
LEMMA ExamineCell ==
  ASSUME NEW s \in Seq(Cell), NEW final \in BOOLEAN, NEW r, NEW n \in Nat, n + 1 <= Len(s),
         Searched(s, final, r, n)
  PROVE  Searched(s, final, Examine(r, s, n + 1, Status(s, n + 1, final)), n + 1)
<1> DEFINE j == n + 1
           st == Status(s, j, final)
           q == Examine(r, s, j, st)
<1>1. /\ j \in 1 .. Len(s) /\ j \in Nat /\ Len(s) \in Nat
      /\ st \in Statuses /\ (st = "frame" => Past(s, j) \in j + 1 .. Len(s) + 1)
  BY StatusIs
<1>2. r \in Scans /\ r.starts \in Seq(Nat) /\ r.from \in Nat /\ r.stop \in Nat
  BY DEF Searched, Scans
<1>3. \A k \in 1 .. Len(r.starts) : r.starts[k] \in 1 .. j /\ Found(s, final, r, k)
  BY DEF Searched
<1>4. CASE r.status # "exhausted" \/ j < r.from \/ st = "junk"
  <2>1. q = r
    BY <1>4 DEF Examine
  <2>2. ASSUME r.status = "exhausted"
        PROVE  r.stop = Len(s) + 1 /\ Junk(s, final, r.from, j)
    <3>1. r.stop = Len(s) + 1 /\ Junk(s, final, r.from, n)
      BY <2>2 DEF Searched
    <3>2. \A i \in r.from .. j : i \in r.from .. n \/ i = j
      BY <1>2
    <3>3. \A i \in r.from .. j : Status(s, i, final) = "junk"
      <4>1. CASE j < r.from
        BY <1>2, <4>1
      <4>2. CASE st = "junk"
        BY <3>1, <3>2, <4>2 DEF Junk
      <4> QED BY <1>4, <2>2, <4>1, <4>2
    <3> QED BY <3>1, <3>3 DEF Junk
  <2>3. r.status # "exhausted" => r.stop \in r.from .. j
    BY <1>2 DEF Searched
  <2> HIDE DEF q, j
  <2>4. Searched(s, final, r, j)
    BY <1>3, <2>2, <2>3 DEF Searched
  <2> QED BY <2>1, <2>4 DEF q, j
<1>5. CASE r.status = "exhausted" /\ ~ (j < r.from) /\ st = "frame"
  <2>1. q = [r EXCEPT !.starts = Append(@, j), !.from = Past(s, j)]
    BY <1>5 DEF Examine
  <2>2. /\ q.starts = Append(r.starts, j) /\ q.from = Past(s, j)
        /\ q.stop = r.stop /\ q.status = r.status
    BY <1>2, <2>1 DEF Scans
  <2>3. q \in Scans
    <3>1. st = "frame" => Past(s, j) \in Nat
      BY <1>1
    <3> HIDE DEF st, j
    <3> QED BY <1>1, <1>2, <3>1, ExamineTyped
  <2> DEFINE m == Len(r.starts)
  <2>4. /\ m \in Nat /\ Len(q.starts) = m + 1 /\ q.starts[m + 1] = j
        /\ \A k \in 1 .. m : q.starts[k] = r.starts[k]
    <3>1. r.starts \in Seq(Nat) /\ j \in Nat /\ q.starts = Append(r.starts, j)
      BY <1>1, <1>2, <2>2
    <3> HIDE DEF q, j
    <3> QED BY ONLY <3>1
  <2> HIDE DEF q, m
  <2>5. \A k \in 0 .. m : Starting(s, q, k) = Starting(s, r, k)
    BY <2>4 DEF Starting
  <2>6. ASSUME NEW k \in 1 .. m
        PROVE  q.starts[k] \in 1 .. j /\ Found(s, final, q, k)
    <3>1. k - 1 \in 0 .. m
      BY <2>4
    <3>2. q.starts[k] = r.starts[k] /\ Starting(s, q, k - 1) = Starting(s, r, k - 1)
      BY <2>4, <2>5, <3>1
    <3>3. r.starts[k] \in 1 .. j /\ Found(s, final, r, k)
      BY <1>3 DEF m
    <3> QED BY <3>2, <3>3 DEF Found
  <2>7. q.starts[m + 1] \in 1 .. j /\ Found(s, final, q, m + 1)
    <3>1. (m + 1) - 1 = m /\ m \in 0 .. m
      BY <2>4
    <3>2. Starting(s, q, (m + 1) - 1) = r.from
      BY <2>5, <3>1 DEF Searched, m
    <3>3. r.from <= j /\ Junk(s, final, r.from, j - 1)
      BY <1>2, <1>5 DEF Searched
    <3> QED BY <1>1, <1>2, <1>5, <2>4, <3>2, <3>3 DEF Found
  <2>8. \A k \in 1 .. Len(q.starts) : q.starts[k] \in 1 .. j /\ Found(s, final, q, k)
    <3>1. \A k \in 1 .. m + 1 : k \in 1 .. m \/ k = m + 1
      BY <2>4
    <3> QED BY <2>4, <2>6, <2>7, <3>1
  <2>9. q.from = Starting(s, q, Len(q.starts)) /\ q.from \in 1 .. Len(s) + 1
    <3>1. Starting(s, q, m + 1) = Past(s, j)
      BY <2>4 DEF Starting
    <3> QED BY <1>1, <1>5, <2>2, <2>4, <3>1
  <2>10. q.status = "exhausted" /\ q.stop = Len(s) + 1 /\ Junk(s, final, q.from, j)
    <3>1. \A i \in q.from .. j : FALSE
      BY <1>1, <1>5, <2>2
    <3> QED BY <1>5, <2>2, <3>1 DEF Junk, Searched
  <2> HIDE DEF j
  <2>11. Searched(s, final, q, j)
    BY <2>3, <2>8, <2>9, <2>10 DEF Searched
  <2> QED BY <2>11 DEF q, j
<1>6. CASE r.status = "exhausted" /\ ~ (j < r.from) /\ st \in {"more", "raise"}
  <2>1. q = [r EXCEPT !.stop = j, !.status = st]
    BY <1>6 DEF Examine
  <2>2. q.starts = r.starts /\ q.from = r.from /\ q.stop = j /\ q.status = st
    BY <1>2, <2>1 DEF Scans
  <2>3. q \in Scans
    <3>1. st = "frame" => Past(s, j) \in Nat
      BY <1>1
    <3> HIDE DEF st, j
    <3> QED BY <1>1, <1>2, <3>1, ExamineTyped
  <2> HIDE DEF q
  <2>5. \A k : Starting(s, q, k) = Starting(s, r, k) /\ (Found(s, final, q, k) <=> Found(s, final, r, k))
    BY <2>2 DEF Starting, Found
  <2>6. q.stop \in q.from .. j /\ Status(s, q.stop, final) = q.status /\ Junk(s, final, q.from, q.stop - 1)
    <3>1. Junk(s, final, r.from, n) /\ j - 1 = n
      BY <1>6 DEF Searched
    <3>2. j \in r.from .. j
      BY <1>1, <1>2, <1>6
    <3> QED BY <2>2, <3>1, <3>2
  <2>7. q.status # "exhausted"
    BY <1>6, <2>2
  <2>8. q.from = Starting(s, q, Len(q.starts)) /\ q.from \in 1 .. Len(s) + 1
    BY <2>2, <2>5 DEF Searched
  <2> HIDE DEF j
  <2>9. Searched(s, final, q, j)
    BY <1>3, <2>2, <2>3, <2>5, <2>6, <2>7, <2>8 DEF Searched
  <2> QED BY <2>9 DEF q, j
<1> QED BY <1>1, <1>4, <1>5, <1>6 DEF Statuses

LEMMA ScanIs ==
  ASSUME NEW s \in Seq(Cell), NEW final \in BOOLEAN
  PROVE  Searched(s, final, Scan(s, final), Len(s))
<1> DEFINE n == Len(s)
           cells == [j \in DOMAIN s |-> j]
           base == [starts |-> <<>>, from |-> 1, stop |-> Len(s) + 1, status |-> "exhausted"]
           Next1(r, j) == Examine(r, s, j, Status(s, j, final))
           step == [p \in Scans \X (1 .. n) |-> Next1(p[1], p[2])]
           iter[t \in SUBSET DOMAIN cells] ==
               IF t = {} THEN base ELSE Next1(iter[t \ {Max(t)}], cells[Max(t)])
<1>1. Scan(s, final) = iter[DOMAIN cells]
  BY DEF Scan, FoldLeft, MapThenFoldSet
<1>2. n \in Nat /\ DOMAIN cells = 1 .. n /\ \A k \in 1 .. n : cells[k] = k /\ k \in Nat
  OBVIOUS
<1>b. base \in Scans /\ Searched(s, final, base, 0)
  <2>1. base \in Scans
    BY DEF Scans
  <2>2. base.starts = <<>> /\ base.from = 1 /\ base.stop = Len(s) + 1 /\ base.status = "exhausted"
    OBVIOUS
  <2> HIDE DEF base
  <2>3. Len(base.starts) = 0 /\ Junk(s, final, base.from, 0)
    BY <2>2 DEF Junk
  <2> QED BY <1>2, <2>1, <2>2, <2>3 DEF Searched, Starting
<1>3. \A r \in Scans, k \in 1 .. n : Next1(r, k) \in Scans
  <2> TAKE r \in Scans, k \in 1 .. n
  <2>1. /\ Status(s, k, final) \in Statuses /\ k \in Nat
        /\ Status(s, k, final) = "frame" => Past(s, k) \in Nat
    BY StatusIs
  <2> QED BY <2>1, ExamineTyped
<1> HIDE DEF n, base, cells, Next1
<1>4. step \in [Scans \X (1 .. n) -> Scans] /\ \A r \in Scans, k \in 1 .. n : step[<<r, k>>] = Next1(r, k)
  BY <1>2, <1>3
<1> HIDE DEF step
<1>5. PICK g : Steps(g, n, Scans, base, step)
  BY ONLY <1>2, <1>4, <1>b, StepRecursion
<1>6. PICK h : Unfolds(h, n, Scans, base, step)
  BY ONLY <1>2, <1>4, <1>b, FoldRecursion
<1>7. h = [t \in SUBSET DOMAIN cells |-> IF t = {} THEN base ELSE Next1(h[t \ {Max(t)}], cells[Max(t)])]
  <2>1. ASSUME NEW t \in SUBSET (1 .. n), t # {}
        PROVE  h[t] = Next1(h[t \ {Max(t)}], cells[Max(t)])
    <3>1. Max(t) \in 1 .. n
      BY <1>2, <2>1, BoundedMax
    <3>2. h[t \ {Max(t)}] \in Scans
      BY <1>6 DEF Unfolds
    <3>3. h[t] = step[<<h[t \ {Max(t)}], Max(t)>>]
      BY <1>6, <2>1 DEF Unfolds
    <3>4. cells[Max(t)] = Max(t)
      BY <1>2, <3>1
    <3>5. step[<<h[t \ {Max(t)}], Max(t)>>] = Next1(h[t \ {Max(t)}], Max(t))
      BY <1>4, <3>1, <3>2
    <3> QED BY <3>3, <3>4, <3>5
  <2>2. \A t \in SUBSET (1 .. n) : h[t] = IF t = {} THEN base ELSE Next1(h[t \ {Max(t)}], cells[Max(t)])
    BY <1>6, <2>1 DEF Unfolds
  <2> QED BY <1>2, <1>6, <2>2 DEF Unfolds
<1>8. iter = [t \in SUBSET DOMAIN cells |-> IF t = {} THEN base ELSE Next1(iter[t \ {Max(t)}], cells[Max(t)])]
  BY <1>7
<1> HIDE DEF iter
<1>9. iter[{}] = base
  BY <1>2, <1>8
<1>10. FoldSteps(iter, n, Scans, step)
  <2> SUFFICES ASSUME NEW k \in 1 .. n, iter[1 .. k - 1] \in Scans
               PROVE  iter[1 .. k] = step[<<iter[1 .. k - 1], k>>]
    BY DEF FoldSteps
  <2>1. 1 .. k \in SUBSET (1 .. n) /\ k \in Nat \ {0}
    BY <1>2
  <2>2. 1 .. k # {} /\ Max(1 .. k) = k /\ (1 .. k) \ {Max(1 .. k)} = 1 .. k - 1
    BY <2>1, IntervalMax
  <2>3. iter[1 .. k] = Next1(iter[1 .. k - 1], k)
    BY <1>2, <1>8, <2>1, <2>2
  <2> QED BY <1>4, <2>3
<1>11. iter[1 .. n] = g[n]
  <2>1. \A k \in 0 .. n : iter[1 .. k] = g[k]
    BY ONLY <1>2, <1>5, <1>9, <1>10, FoldOfInterval
  <2> QED BY <1>2, <2>1
<1>12. g[0] = base /\ \A k \in 1 .. n : g[k] = Next1(g[k - 1], k)
  <2>1. \A k \in 1 .. n : k - 1 \in 0 .. n
    BY <1>2
  <2> QED BY <1>4, <1>5, <2>1 DEF Steps
<1> DEFINE S == {k \in Nat : k <= n => Searched(s, final, g[k], k)}
<1>13. 0 \in S
  BY <1>b, <1>12
<1>14. ASSUME NEW k \in Nat, k \in S
       PROVE  k + 1 \in S
  <2> SUFFICES ASSUME k + 1 <= n PROVE Searched(s, final, g[k + 1], k + 1)
    OBVIOUS
  <2>1. k + 1 \in 1 .. n /\ (k + 1) - 1 = k /\ k + 1 <= Len(s)
    BY <1>2 DEF n
  <2>2. Searched(s, final, g[k], k)
    <3>1. k <= n
      BY <1>2, <2>1
    <3> QED BY <1>14, <3>1
  <2>3. g[k + 1] = Next1(g[k], k + 1)
    BY <1>12, <2>1
  <2>4. Searched(s, final, Next1(g[k], k + 1), k + 1)
    BY <2>1, <2>2, ExamineCell DEF Next1
  <2> QED BY <2>3, <2>4
<1>15. n \in S
  <2> HIDE DEF S
  <2> QED BY <1>2, <1>13, <1>14, Inductively
<1>16. Searched(s, final, g[n], n)
  BY <1>2, <1>15
<1> QED BY <1>1, <1>2, <1>11, <1>16 DEF n

\* What a search finds is determined by the stream.
LEMMA StartsAgree ==
  ASSUME NEW s \in Seq(Cell), NEW final \in BOOLEAN, NEW r, NEW q,
         Searched(s, final, r, Len(s)), Searched(s, final, q, Len(s))
  PROVE  \A k \in 1 .. Len(r.starts) : k <= Len(q.starts) /\ r.starts[k] = q.starts[k]
<1> DEFINE m == Len(r.starts)
           p == Len(q.starts)
           Bad == {k \in 1 .. m : ~ (k <= p /\ r.starts[k] = q.starts[k])}
<1> SUFFICES ASSUME Bad # {} PROVE FALSE
  OBVIOUS
<1>1. m \in Nat /\ p \in Nat /\ Len(s) \in Nat
  BY SMTT(20) DEF Searched, Scans
<1>2. PICK k \in Bad : \A i \in Bad : k <= i
  <2>1. Bad \subseteq Nat
    OBVIOUS
  <2> HIDE DEF Bad
  <2> QED BY ONLY <2>1, Bad # {}, LeastNumber
<1> DEFINE a == Starting(s, r, k - 1)
           x == r.starts[k]
<1>3. k \in 1 .. m /\ k \in Nat /\ k >= 1
  BY <1>1
<1>4. x \in 1 .. Len(s) /\ x >= a /\ Status(s, x, final) = "frame" /\ Junk(s, final, a, x - 1)
  BY <1>3 DEF Searched, Found
<1>5. k = 1 \/ (k - 1 \in 1 .. m /\ k - 1 <= p /\ r.starts[k - 1] = q.starts[k - 1])
  <2> SUFFICES ASSUME k # 1 PROVE k - 1 \in 1 .. m /\ ~ (k - 1 \in Bad)
    OBVIOUS
  <2>1. k - 1 \in 1 .. m /\ ~ (k <= k - 1)
    BY <1>1, <1>3
  <2> HIDE DEF Bad
  <2> QED BY <1>2, <2>1
<1>6. Starting(s, q, k - 1) = a
  <2>1. k = 1 => k - 1 = 0
    OBVIOUS
  <2> QED BY <1>3, <1>5, <2>1 DEF Starting
<1>7. a \in Int
  <2>1. CASE k = 1
    BY <2>1 DEF Starting
  <2>2. CASE k # 1
    <3>1. k - 1 \in 1 .. m /\ k - 1 # 0
      BY <1>5, <2>2
    <3>2. r.starts[k - 1] \in 1 .. Len(s) /\ Status(s, r.starts[k - 1], final) = "frame"
      BY <3>1 DEF Searched, Found
    <3>3. Past(s, r.starts[k - 1]) \in Int
      BY <3>2, StatusIs
    <3> QED BY <3>1, <3>3 DEF Starting
  <2> QED BY <2>1, <2>2
<1> HIDE DEF a, x
<1>8. CASE k <= p
  <2> DEFINE y == q.starts[k]
  <2>1. k \in 1 .. p
    BY <1>1, <1>3, <1>8
  <2>2. y \in 1 .. Len(s) /\ y >= a /\ Status(s, y, final) = "frame" /\ Junk(s, final, a, y - 1)
    BY <1>6, <2>1 DEF Searched, Found
  <2>3. x # y
    BY <1>2, <1>8 DEF x
  <2> HIDE DEF y
  <2>4. x \in a .. y - 1 \/ y \in a .. x - 1
    BY <1>1, <1>4, <1>7, <2>2, <2>3
  <2>5. Status(s, x, final) = "junk" \/ Status(s, y, final) = "junk"
    BY <1>4, <2>2, <2>4 DEF Junk
  <2> QED BY <1>4, <2>2, <2>5
<1>9. CASE ~ (k <= p)
  <2>1. k - 1 = p
    BY <1>1, <1>3, <1>5, <1>9
  <2>2. q.from = a
    BY <1>6, <2>1 DEF Searched
  <2>3. CASE q.status = "exhausted"
    <3>1. x \in a .. Len(s) /\ Junk(s, final, a, Len(s))
      BY <1>1, <1>4, <1>7, <2>2, <2>3 DEF Searched
    <3>2. Status(s, x, final) = "junk"
      BY <3>1 DEF Junk
    <3> QED BY <1>4, <3>2
  <2>4. CASE q.status # "exhausted"
    <3> DEFINE z == q.stop
    <3>1. z \in a .. Len(s) /\ Status(s, z, final) = q.status /\ Junk(s, final, a, z - 1)
      BY <2>2, <2>4 DEF Searched
    <3>2. q.status \in {"more", "raise"}
      BY <2>4 DEF Searched, Scans
    <3> HIDE DEF z
    <3>3. x \in a .. z - 1 \/ x = z \/ z \in a .. x - 1
      BY <1>1, <1>4, <1>7, <3>1
    <3>4. Status(s, x, final) = "junk" \/ x = z \/ Status(s, z, final) = "junk"
      BY <1>4, <3>1, <3>3 DEF Junk
    <3> QED BY <1>4, <3>1, <3>2, <3>4
  <2> QED BY <2>3, <2>4
<1> QED BY <1>8, <1>9

LEMMA ScanUnique ==
  ASSUME NEW s \in Seq(Cell), NEW final \in BOOLEAN, NEW r, Searched(s, final, r, Len(s))
  PROVE  r = Scan(s, final)
<1> DEFINE q == Scan(s, final)
<1>1. Searched(s, final, q, Len(s))
  BY ScanIs
<1> HIDE DEF q
<1>2. r \in Scans /\ q \in Scans /\ Len(s) \in Nat
  BY <1>1 DEF Searched
<1>3. r.starts = q.starts
  <2>1. \A k \in 1 .. Len(r.starts) : k <= Len(q.starts) /\ r.starts[k] = q.starts[k]
    BY <1>1, StartsAgree
  <2>2. \A k \in 1 .. Len(q.starts) : k <= Len(r.starts) /\ q.starts[k] = r.starts[k]
    BY <1>1, StartsAgree
  <2>3. r.starts \in Seq(Nat) /\ q.starts \in Seq(Nat)
    BY <1>2 DEF Scans
  <2>4. Len(r.starts) = Len(q.starts)
    <3>1. Len(r.starts) \in Nat /\ Len(q.starts) \in Nat
      BY <2>3
    <3>2. Len(r.starts) <= Len(q.starts)
      <4>1. CASE Len(r.starts) = 0
        BY <3>1, <4>1
      <4>2. CASE Len(r.starts) # 0
        BY <2>1, <3>1, <4>2
      <4> QED BY <4>1, <4>2
    <3>3. Len(q.starts) <= Len(r.starts)
      <4>1. CASE Len(q.starts) = 0
        BY <3>1, <4>1
      <4>2. CASE Len(q.starts) # 0
        BY <2>2, <3>1, <4>2
      <4> QED BY <4>1, <4>2
    <3> QED BY <3>1, <3>2, <3>3
  <2> QED BY <2>1, <2>3, <2>4, SeqSame
<1>4. r.from = q.from
  <2>1. Starting(s, r, Len(r.starts)) = Starting(s, q, Len(q.starts))
    BY <1>3 DEF Starting
  <2> QED BY <1>1, <2>1 DEF Searched
<1>5. /\ r.status \in {"exhausted", "more", "raise"} /\ q.status \in {"exhausted", "more", "raise"}
      /\ r.from \in Nat /\ r.stop \in Nat /\ q.stop \in Nat
  BY <1>2 DEF Scans
<1>6. CASE r.status = "exhausted" /\ q.status = "exhausted"
  <2>1. r.stop = q.stop
    BY <1>1, <1>6 DEF Searched
  <2> QED BY SMTT(20), <1>2, <1>3, <1>4, <1>6, <2>1 DEF Scans, q
<1>7. CASE r.status = "exhausted" /\ q.status # "exhausted"
  <2>1. q.stop \in r.from .. Len(s) /\ Status(s, q.stop, final) = q.status
    BY <1>1, <1>4, <1>7 DEF Searched
  <2>2. Status(s, q.stop, final) = "junk"
    BY <1>7, <2>1 DEF Searched, Junk
  <2> QED BY <1>5, <2>1, <2>2
<1>8. CASE r.status # "exhausted" /\ q.status = "exhausted"
  <2>1. r.stop \in q.from .. Len(s) /\ Status(s, r.stop, final) = r.status
    BY <1>4, <1>8 DEF Searched
  <2>2. Status(s, r.stop, final) = "junk"
    BY <1>1, <1>8, <2>1 DEF Searched, Junk
  <2> QED BY <1>5, <2>1, <2>2
<1>9. CASE r.status # "exhausted" /\ q.status # "exhausted"
  <2>1. /\ r.stop \in r.from .. Len(s) /\ Status(s, r.stop, final) = r.status
        /\ Junk(s, final, r.from, r.stop - 1)
    BY <1>9 DEF Searched
  <2>2. /\ q.stop \in r.from .. Len(s) /\ Status(s, q.stop, final) = q.status
        /\ Junk(s, final, r.from, q.stop - 1)
    BY <1>1, <1>4, <1>9 DEF Searched
  <2>3. r.stop = q.stop
    <3> SUFFICES ASSUME r.stop # q.stop PROVE FALSE
      OBVIOUS
    <3>1. r.stop \in r.from .. q.stop - 1 \/ q.stop \in r.from .. r.stop - 1
      BY <1>5, <2>1, <2>2
    <3>2. r.status = "junk" \/ q.status = "junk"
      BY <2>1, <2>2, <3>1 DEF Junk
    <3> QED BY <1>5, <3>2
  <2>4. r.status = q.status
    BY <2>1, <2>2, <2>3
  <2> QED BY SMTT(20), <1>2, <1>3, <1>4, <2>3, <2>4 DEF Scans, q
<1> QED BY <1>6, <1>7, <1>8, <1>9

-----------------------------------------------------------------------------
(* A status depends on what follows, and no longer on what follows a frame.   *)
\* Behind cell j of s there are the cells that are behind cell i of t, which
\* may go on.
Window(s, j, t, i) ==
    /\ Len(s) - j <= Len(t) - i
    /\ \A k \in 0 .. Len(s) - j : t[i + k] = s[j + k]

LEMMA WindowHeader ==
  ASSUME NEW s \in Seq(Cell), NEW j \in 1 .. Len(s), NEW t \in Seq(Cell), NEW i \in 1 .. Len(t),
         Window(s, j, t, i)
  PROVE  /\ t[i] = s[j]
         /\ j + 1 <= Len(s) => Header(t, i) = Header(s, j)
         /\ Len(t) - i = Len(s) - j => Header(t, i) = Header(s, j)
         /\ (Header(s, j) # None /\ j + Header(s, j).size - 1 <= Len(s)) =>
               /\ Header(t, i) = Header(s, j) /\ i + Header(t, i).size - 1 <= Len(t)
               /\ Raw(t, i) = Raw(s, j)
<1>1. Len(s) \in Nat /\ Len(t) \in Nat /\ i \in Nat /\ j \in Nat
  OBVIOUS
<1>2. t[i] = s[j]
  <2>1. 0 \in 0 .. Len(s) - j /\ i + 0 = i /\ j + 0 = j
    BY <1>1
  <2> QED BY <2>1 DEF Window
<1>3. ASSUME j + 1 <= Len(s)
      PROVE  Header(t, i) = Header(s, j)
  <2>1. 1 \in 0 .. Len(s) - j /\ i + 1 <= Len(t)
    BY <1>1, <1>3 DEF Window
  <2>2. t[i + 1] = s[j + 1]
    BY <2>1 DEF Window
  <2> QED BY <1>2, <1>3, <2>1, <2>2 DEF Header
<1>4. ASSUME Len(t) - i = Len(s) - j
      PROVE  Header(t, i) = Header(s, j)
  <2>1. CASE j + 1 <= Len(s)
    BY <1>3, <2>1
  <2>2. CASE ~ (j + 1 <= Len(s))
    <3>1. ~ (i + 1 <= Len(t))
      BY <1>1, <1>4, <2>2
    <3> QED BY <2>2, <3>1 DEF Header
  <2> QED BY <2>1, <2>2
<1>5. ASSUME Header(s, j) # None, j + Header(s, j).size - 1 <= Len(s)
      PROVE  /\ Header(t, i) = Header(s, j) /\ i + Header(t, i).size - 1 <= Len(t)
             /\ Raw(t, i) = Raw(s, j)
  <2> DEFINE z == Header(s, j).size
  <2>1. Header(t, i) = Header(s, j) /\ z \in Nat /\ z > 0
    BY <1>3, <1>5, HeaderFound DEF HeaderCells
  <2>2. i + z - 1 <= Len(t) /\ j + z - 1 <= Len(s)
    BY <1>1, <1>5, <2>1 DEF Window
  <2>3. /\ Raw(s, j) \in Seq(Cell) /\ Len(Raw(s, j)) = z
        /\ \A k \in 1 .. z : Raw(s, j)[k] = s[j + k - 1]
    BY <1>5, RawTyped
  <2>4. /\ Raw(t, i) \in Seq(Cell) /\ Len(Raw(t, i)) = z
        /\ \A k \in 1 .. z : Raw(t, i)[k] = t[i + k - 1]
    BY <1>5, <2>1, <2>2, RawTyped
  <2> HIDE DEF z
  <2>5. ASSUME NEW k \in 1 .. z
        PROVE  s[j + k - 1] = t[i + k - 1]
    <3>1. k - 1 \in 0 .. Len(s) - j /\ j + (k - 1) = j + k - 1 /\ i + (k - 1) = i + k - 1
      BY <1>1, <2>1, <2>2
    <3>2. t[i + (k - 1)] = s[j + (k - 1)]
      BY <3>1 DEF Window
    <3> QED BY <3>1, <3>2
  <2>6. Raw(t, i) = Raw(s, j)
    BY <2>3, <2>4, <2>5, SeqSame
  <2> QED BY <2>1, <2>2, <2>6 DEF z
<1> QED BY <1>2, <1>3, <1>4, <1>5

\* The same cells to the end: the same status.
LEMMA StatusShifts ==
  ASSUME NEW s \in Seq(Cell), NEW j \in 1 .. Len(s), NEW t \in Seq(Cell), NEW i \in 1 .. Len(t),
         Window(s, j, t, i), Len(t) - i = Len(s) - j, NEW final \in BOOLEAN
  PROVE  /\ Status(t, i, final) = Status(s, j, final)
         /\ Header(t, i) = Header(s, j)
<1>1. Len(s) \in Nat /\ Len(t) \in Nat /\ i \in Nat /\ j \in Nat /\ HeaderCells \in Nat
  BY DEF HeaderCells
<1>2. t[i] = s[j] /\ Header(t, i) = Header(s, j)
  BY WindowHeader
<1>3. i + HeaderCells - 1 > Len(t) <=> j + HeaderCells - 1 > Len(s)
  BY <1>1
<1>4. CASE Header(s, j) = None
  BY <1>2, <1>3, <1>4 DEF Status
<1>5. CASE Header(s, j) # None
  <2>1. Header(s, j).size \in Nat
    BY <1>5, HeaderFound
  <2>2. i + Header(t, i).size - 1 > Len(t) <=> j + Header(s, j).size - 1 > Len(s)
    BY SMTT(20), <1>1, <1>2, <2>1
  <2>3. ~ (j + Header(s, j).size - 1 > Len(s)) => Raw(t, i) = Raw(s, j)
    BY <1>1, <1>5, <2>1, WindowHeader
  <2> QED BY <1>2, <1>3, <2>2, <2>3 DEF Status
<1> QED BY <1>2, <1>4, <1>5

\* Once it is no question of more bytes, more bytes change nothing.
LEMMA StatusStays ==
  ASSUME NEW s \in Seq(Cell), NEW j \in 1 .. Len(s), NEW t \in Seq(Cell), NEW i \in 1 .. Len(t),
         Window(s, j, t, i), Status(s, j, FALSE) # "more", NEW final \in BOOLEAN
  PROVE  /\ Status(t, i, final) = Status(s, j, FALSE)
         /\ Status(s, j, FALSE) = "frame" => Header(t, i) = Header(s, j) /\ Raw(t, i) = Raw(s, j)
<1>0. t[i] = s[j]
  BY WindowHeader
<1>1. Len(s) \in Nat /\ Len(t) \in Nat /\ i \in Nat /\ j \in Nat /\ HeaderCells = 2
      /\ Len(s) - j <= Len(t) - i /\ t[i] = s[j]
  BY <1>0 DEF HeaderCells, Window
<1>2. CASE s[j] # Sync
  BY <1>1, <1>2 DEF Status
<1>3. CASE s[j] = Sync
  <2>1. ~ (j + HeaderCells - 1 > Len(s))
    BY <1>3 DEF Status
  <2>2. j + 1 <= Len(s) /\ ~ (i + HeaderCells - 1 > Len(t))
    BY <1>1, <2>1
  <2>3. Header(t, i) = Header(s, j)
    BY <2>2, WindowHeader
  <2>4. CASE Header(s, j) = None
    BY <1>1, <1>3, <2>1, <2>2, <2>3, <2>4 DEF Status
  <2>5. CASE Header(s, j) # None
    <3>1. ~ (j + Header(s, j).size - 1 > Len(s)) /\ Header(s, j).size \in Nat
      BY <1>3, <2>1, <2>5, HeaderFound DEF Status
    <3>2. Raw(t, i) = Raw(s, j) /\ ~ (i + Header(t, i).size - 1 > Len(t))
      BY <1>1, <2>3, <2>5, <3>1, WindowHeader
    <3> QED BY <1>1, <1>3, <2>1, <2>2, <2>3, <3>1, <3>2 DEF Status
  <2> QED BY <2>4, <2>5
<1> QED BY <1>2, <1>3

-----------------------------------------------------------------------------
(* A search that goes on in what the reader has kept.                        *)
Continued(r, q) ==
    [starts |-> r.starts \o [k \in 1 .. Len(q.starts) |-> q.starts[k] + (r.stop - 1)],
     from |-> IF Len(q.starts) = 0 THEN r.from ELSE q.from + (r.stop - 1),
     stop |-> q.stop + (r.stop - 1), status |-> q.status]

\* s is what had arrived of t, r what was found in it, b what was kept with
\* what has come since.
Goes(t, s, r, b) ==
    /\ t \in Seq(Cell) /\ \E a \in 0 .. Len(t) : s = SubSeq(t, 1, a)
    /\ Searched(s, FALSE, r, Len(s)) /\ r.status # "raise"
    /\ b = SubSeq(t, r.stop, Len(t))

LEMMA LenInNat == \A u \in Seq(Cell) : Len(u) \in Nat
OBVIOUS

LEMMA GoesOn ==
  ASSUME NEW t, NEW s, NEW r, NEW b, Goes(t, s, r, b)
  PROVE  /\ s \in Seq(Cell) /\ Len(s) \in Nat /\ Len(t) \in Nat /\ Len(s) <= Len(t)
         /\ r.stop \in Nat /\ r.stop >= 1 /\ r.stop - 1 <= Len(s)
         /\ r.from \in Nat /\ r.from >= 1 /\ r.from <= r.stop
         /\ Junk(s, FALSE, r.from, r.stop - 1)
         /\ b \in Seq(Cell) /\ Len(b) = Len(t) - (r.stop - 1)
         /\ \A j \in 1 .. Len(s) : Window(s, j, t, j)
         /\ \A j \in 1 .. Len(b) : Window(b, j, t, j + (r.stop - 1))
<1>1. PICK a \in 0 .. Len(t) : s = SubSeq(t, 1, a)
  BY DEF Goes
<1>2. t \in Seq(Cell) /\ Len(t) \in Nat /\ a \in Nat
  BY DEF Goes
<1>3. s \in Seq(Cell) /\ Len(s) = a /\ \A k \in 1 .. a : s[k] = t[k]
  <2>1. /\ SubSeq(t, 1, a) \in Seq(Cell) /\ Len(SubSeq(t, 1, a)) = a - 1 + 1
        /\ \A k \in 1 .. a - 1 + 1 : SubSeq(t, 1, a)[k] = t[1 + k - 1]
    BY <1>1, <1>2, SeqSlice
  <2> QED BY <1>1, <1>2, <2>1
<1>4. /\ r \in Scans /\ r.stop \in Nat /\ r.from \in Nat /\ r.from \in 1 .. Len(s) + 1
      /\ r.status \in {"exhausted", "more"}
  BY DEF Goes, Searched, Scans
<1>5. /\ r.stop >= 1 /\ r.stop - 1 <= Len(s) /\ r.from >= 1 /\ r.from <= r.stop
      /\ Junk(s, FALSE, r.from, r.stop - 1)
  <2>1. CASE r.status = "exhausted"
    <3>1. r.stop = Len(s) + 1 /\ Junk(s, FALSE, r.from, Len(s))
      BY <2>1 DEF Goes, Searched
    <3>2. r.stop - 1 = Len(s) /\ Len(s) \in Nat
      BY <1>2, <1>3, <3>1
    <3>3. r.from <= r.stop /\ r.from >= 1
      BY <1>4, <3>1, <3>2
    <3>4. Junk(s, FALSE, r.from, r.stop - 1)
      BY ONLY <3>1, <3>2
    <3>5. r.stop \in Nat /\ r.stop >= 1
      BY <1>4, <3>1, <3>2
    <3>6. r.stop - 1 <= Len(s)
      BY ONLY <3>2
    <3> QED BY ONLY <3>3, <3>4, <3>5, <3>6
  <2>2. CASE r.status = "more"
    <3>1. r.stop \in r.from .. Len(s) /\ Junk(s, FALSE, r.from, r.stop - 1)
      BY <2>2 DEF Goes, Searched
    <3>2. Len(s) \in Nat /\ r.from \in Nat /\ r.from >= 1
      BY <1>2, <1>3, <1>4
    <3>3. r.stop >= 1 /\ r.stop - 1 <= Len(s) /\ r.from <= r.stop
      BY ONLY <1>4, <3>1, <3>2
    <3> QED BY ONLY <3>1, <3>2, <3>3
  <2> QED BY <1>4, <2>1, <2>2
<1> DEFINE d == r.stop - 1
<1>6. d \in Nat /\ r.stop = d + 1 /\ d <= Len(t)
  BY <1>2, <1>3, <1>4, <1>5
<1>7. b \in Seq(Cell) /\ Len(b) = Len(t) - d /\ \A k \in 1 .. Len(t) - d : b[k] = t[k + d]
  <2>1. b = SubSeq(t, d + 1, Len(t))
    BY <1>6 DEF Goes
  <2> HIDE DEF d
  <2>2. d + 1 \in Nat /\ 1 <= d + 1 /\ d + 1 <= Len(t) + 1 /\ Len(t) <= Len(t)
    BY <1>2, <1>6
  <2>3. /\ b \in Seq(Cell) /\ Len(b) = Len(t) - (d + 1) + 1
        /\ \A k \in 1 .. Len(t) - (d + 1) + 1 : b[k] = t[(d + 1) + k - 1]
    BY <1>2, <2>1, <2>2, SeqSlice
  <2>4. Len(t) - (d + 1) + 1 = Len(t) - d /\ \A k \in Nat : (d + 1) + k - 1 = k + d
    BY <1>2, <1>6
  <2> QED BY <2>3, <2>4
<1>8. ASSUME NEW j \in 1 .. Len(s)
      PROVE  Window(s, j, t, j)
  BY <1>2, <1>3 DEF Window
<1>9. ASSUME NEW j \in 1 .. Len(b)
      PROVE  Window(b, j, t, j + d)
  <2> HIDE DEF d
  <2>1. Len(b) - j <= Len(t) - (j + d)
    BY <1>2, <1>6, <1>7
  <2>2. ASSUME NEW k \in 0 .. Len(b) - j
        PROVE  t[(j + d) + k] = b[j + k]
    <3>1. j + k \in 1 .. Len(t) - d /\ (j + k) + d = (j + d) + k
      BY <1>2, <1>6, <1>7
    <3>2. b[j + k] = t[(j + k) + d]
      BY <1>7, <3>1
    <3> QED BY <3>1, <3>2
  <2> QED BY <2>1, <2>2 DEF Window
<1>10. s \in Seq(Cell) /\ Len(s) \in Nat /\ Len(t) \in Nat /\ Len(s) <= Len(t)
  BY <1>2, <1>3
<1> QED BY ONLY <1>4, <1>5, <1>7, <1>8, <1>9, <1>10 DEF d

\* What s has judged stays, and b is judged as t is behind its first d cells.
Settled(t, s, final) ==
    \A j \in 1 .. Len(s) : Status(s, j, FALSE) # "more" =>
        /\ Status(t, j, final) = Status(s, j, FALSE)
        /\ Status(s, j, FALSE) = "frame" => Past(t, j) = Past(s, j) /\ Raw(t, j) = Raw(s, j)

Moved(t, b, d, final) ==
    \A j \in 1 .. Len(b) :
        /\ Status(t, j + d, final) = Status(b, j, final)
        /\ Status(b, j, final) = "frame" => Past(t, j + d) = Past(b, j) + d /\ Raw(t, j + d) = Raw(b, j)

LEMMA GoesStatus ==
  ASSUME NEW t, NEW s, NEW r, NEW b, Goes(t, s, r, b), NEW final \in BOOLEAN
  PROVE  Settled(t, s, final) /\ Moved(t, b, r.stop - 1, final)
<1> DEFINE d == r.stop - 1
<1>1. /\ s \in Seq(Cell) /\ Len(s) \in Nat /\ Len(t) \in Nat /\ Len(s) <= Len(t) /\ t \in Seq(Cell)
      /\ d \in Nat /\ d <= Len(s) /\ b \in Seq(Cell) /\ Len(b) = Len(t) - d
      /\ \A j \in 1 .. Len(s) : Window(s, j, t, j)
      /\ \A j \in 1 .. Len(b) : Window(b, j, t, j + d)
  <2>1. t \in Seq(Cell)
    BY DEF Goes
  <2>2. r.stop \in Nat /\ r.stop >= 1 /\ r.stop - 1 <= Len(s)
    BY ONLY Goes(t, s, r, b), GoesOn
  <2>3. s \in Seq(Cell) /\ Len(s) \in Nat /\ Len(t) \in Nat /\ Len(s) <= Len(t)
    BY ONLY Goes(t, s, r, b), GoesOn
  <2>4. b \in Seq(Cell) /\ Len(b) = Len(t) - (r.stop - 1)
    BY ONLY Goes(t, s, r, b), GoesOn
  <2>5. \A j \in 1 .. Len(s) : Window(s, j, t, j)
    BY ONLY Goes(t, s, r, b), GoesOn
  <2>6. \A j \in 1 .. Len(b) : Window(b, j, t, j + (r.stop - 1))
    BY ONLY Goes(t, s, r, b), GoesOn
  <2> QED BY <2>1, <2>2, <2>3, <2>4, <2>5, <2>6
<1> HIDE DEF d
<1>2. ASSUME NEW j \in 1 .. Len(s), Status(s, j, FALSE) # "more"
      PROVE  /\ Status(t, j, final) = Status(s, j, FALSE)
             /\ Status(s, j, FALSE) = "frame" => Past(t, j) = Past(s, j) /\ Raw(t, j) = Raw(s, j)
  <2>1. j \in 1 .. Len(t) /\ Window(s, j, t, j)
    BY <1>1
  <2>2. /\ Status(t, j, final) = Status(s, j, FALSE)
        /\ Status(s, j, FALSE) = "frame" => Header(t, j) = Header(s, j) /\ Raw(t, j) = Raw(s, j)
    BY <1>1, <1>2, <2>1, StatusStays
  <2> QED BY <2>2 DEF Past
<1>3. ASSUME NEW j \in 1 .. Len(b)
      PROVE  /\ Status(t, j + d, final) = Status(b, j, final)
             /\ Status(b, j, final) = "frame" => Past(t, j + d) = Past(b, j) + d /\ Raw(t, j + d) = Raw(b, j)
  <2>1. j + d \in 1 .. Len(t) /\ Window(b, j, t, j + d) /\ Len(t) - (j + d) = Len(b) - j
    BY <1>1
  <2>2. Status(t, j + d, final) = Status(b, j, final) /\ Header(t, j + d) = Header(b, j)
    BY <1>1, <2>1, StatusShifts
  <2>3. ASSUME Status(b, j, final) = "frame"
        PROVE  Past(t, j + d) = Past(b, j) + d /\ Raw(t, j + d) = Raw(b, j)
    <3>1. Header(b, j) # None /\ j + Header(b, j).size - 1 <= Len(b)
      BY <1>1, <2>3, StatusIs
    <3>2. Raw(t, j + d) = Raw(b, j)
      <4> DEFINE i == j + d
      <4>1. i \in 1 .. Len(t) /\ Window(b, j, t, i)
        BY <2>1
      <4> HIDE DEF i
      <4>2. j \in 1 .. Len(b) /\ b \in Seq(Cell) /\ t \in Seq(Cell)
        BY <1>1, <1>3
      <4>3. Raw(t, i) = Raw(b, j)
        BY ONLY <3>1, <4>1, <4>2, WindowHeader
      <4> QED BY <4>3 DEF i
    <3>3. Header(b, j).size \in Nat
      BY <1>1, <3>1, HeaderFound
    <3> QED BY <1>1, <2>2, <3>2, <3>3 DEF Past
  <2> QED BY <2>2, <2>3
<1>4. Settled(t, s, final)
  BY <1>2 DEF Settled
<1>5. Moved(t, b, d, final)
  BY <1>3 DEF Moved
<1> QED BY <1>4, <1>5 DEF d

LEMMA Continues ==
  ASSUME NEW t, NEW s, NEW r, NEW b, Goes(t, s, r, b), NEW final \in BOOLEAN
  PROVE  /\ Scan(t, final) = Continued(r, Scan(b, final))
         /\ FramesAt(t, Scan(t, final).starts)
            = FramesAt(s, r.starts) \o FramesAt(b, Scan(b, final).starts)
<1> DEFINE d == r.stop - 1
           q == Scan(b, final)
           w == Continued(r, q)
           m == Len(r.starts)
           p == Len(q.starts)
<1>1. /\ s \in Seq(Cell) /\ Len(s) \in Nat /\ Len(t) \in Nat /\ Len(s) <= Len(t) /\ t \in Seq(Cell)
      /\ d \in Nat /\ d <= Len(s) /\ r.stop = d + 1
      /\ r.from \in Nat /\ r.from >= 1 /\ r.from <= d + 1 /\ Junk(s, FALSE, r.from, d)
      /\ b \in Seq(Cell) /\ Len(b) = Len(t) - d /\ Len(b) \in Nat
  <2>1. t \in Seq(Cell)
    BY DEF Goes
  <2>2. r.stop \in Nat /\ r.stop >= 1 /\ r.stop - 1 <= Len(s)
    BY ONLY Goes(t, s, r, b), GoesOn
  <2>3. s \in Seq(Cell) /\ Len(s) \in Nat /\ Len(t) \in Nat /\ Len(s) <= Len(t)
    BY ONLY Goes(t, s, r, b), GoesOn
  <2>4. b \in Seq(Cell) /\ Len(b) = Len(t) - (r.stop - 1)
    BY ONLY Goes(t, s, r, b), GoesOn
  <2>5. r.from \in Nat /\ r.from >= 1 /\ r.from <= r.stop /\ Junk(s, FALSE, r.from, r.stop - 1)
    BY ONLY Goes(t, s, r, b), GoesOn
  <2>6. d \in Nat /\ r.stop = d + 1 /\ d <= Len(s) /\ Len(b) = Len(t) - d
    BY <2>2, <2>4
  <2> HIDE DEF d
  <2>7. Junk(s, FALSE, r.from, d) /\ r.from <= d + 1
    <3>1. r.stop - 1 = d
      BY <2>6
    <3> QED BY ONLY <2>5, <2>6, <3>1
  <2> QED BY ONLY <2>1, <2>3, <2>4, <2>5, <2>6, <2>7, LenInNat
<1>2. Settled(t, s, final) /\ Moved(t, b, d, final)
  BY GoesStatus
<1>3. Searched(s, FALSE, r, Len(s)) /\ r \in Scans /\ r.status # "raise"
  BY DEF Goes, Searched
<1>4. Searched(b, final, q, Len(b)) /\ q \in Scans
  <2>1. Searched(b, final, q, Len(b))
    BY <1>1, ScanIs
  <2> HIDE DEF q
  <2> QED BY <2>1 DEF Searched
<1>5. /\ w.starts = r.starts \o [k \in 1 .. p |-> q.starts[k] + d]
      /\ w.from = IF p = 0 THEN r.from ELSE q.from + d
      /\ w.stop = q.stop + d /\ w.status = q.status
  BY DEF Continued
<1> HIDE DEF q
<1>6. /\ m \in Nat /\ p \in Nat /\ r.starts \in Seq(Nat) /\ q.starts \in Seq(Nat)
      /\ q.from \in Nat /\ q.stop \in Nat
      /\ \A k \in 1 .. m : r.starts[k] \in Nat
      /\ \A k \in 1 .. p : q.starts[k] \in Nat
  BY SMTT(20), <1>3, <1>4 DEF Scans
<1> HIDE DEF d, m, p
<1>n1. /\ Len(s) \in Nat /\ Len(t) \in Nat /\ Len(s) <= Len(t) /\ d \in Nat /\ d <= Len(s)
       /\ r.from \in Nat /\ r.from >= 1 /\ r.from <= d + 1 /\ Len(b) = Len(t) - d /\ Len(b) \in Nat
  BY <1>1
<1>n6. m \in Nat /\ p \in Nat /\ q.from \in Nat /\ q.stop \in Nat
  BY <1>6
<1>7. /\ w.starts \in Seq(Nat) /\ Len(w.starts) = m + p
      /\ \A k \in 1 .. m : w.starts[k] = r.starts[k]
      /\ \A k \in 1 .. p : w.starts[m + k] = q.starts[k] + d
  <2> DEFINE e == [k \in 1 .. p |-> q.starts[k] + d]
  <2>0. \A k \in 1 .. p : q.starts[k] \in Nat
    BY <1>6
  <2>1. e \in Seq(Nat) /\ Len(e) = p /\ \A k \in 1 .. p : e[k] = q.starts[k] + d
    <3>1. \A k \in 1 .. p : q.starts[k] + d \in Nat
      BY ONLY <2>0, <1>n1
    <3>2. e \in [1 .. p -> Nat]
      BY <3>1
    <3>3. \A k \in 1 .. p : e[k] = q.starts[k] + d
      OBVIOUS
    <3> HIDE DEF e
    <3> QED BY <1>6, <3>2, <3>3
  <2>2. w.starts = r.starts \o e
    BY <1>5
  <2> HIDE DEF e, w
  <2>3. /\ r.starts \o e \in Seq(Nat) /\ Len(r.starts \o e) = Len(r.starts) + Len(e)
        /\ \A k \in 1 .. Len(r.starts) : (r.starts \o e)[k] = r.starts[k]
        /\ \A k \in 1 .. Len(e) : (r.starts \o e)[Len(r.starts) + k] = e[k]
    <3>1. r.starts \in Seq(Nat) /\ e \in Seq(Nat)
      BY <1>6, <2>1
    <3> QED BY ONLY <3>1, SeqJoined
  <2> QED BY <2>1, <2>2, <2>3 DEF m
<1> HIDE DEF w
<1>8. \A k \in 1 .. m : /\ r.starts[k] \in 1 .. Len(s) /\ Status(s, r.starts[k], FALSE) = "frame"
                        /\ Found(s, FALSE, r, k)
  BY <1>3 DEF Searched, Found, m
<1>9. \A k \in 1 .. p : /\ q.starts[k] \in 1 .. Len(b) /\ Status(b, q.starts[k], final) = "frame"
                        /\ Found(b, final, q, k)
  BY <1>4 DEF Searched, Found, p
<1>10. \A k \in 0 .. m : Starting(t, w, k) = Starting(s, r, k)
  <2> SUFFICES ASSUME NEW k \in 1 .. m PROVE Past(t, w.starts[k]) = Past(s, r.starts[k])
    BY DEF Starting
  <2> QED BY <1>2, <1>7, <1>8 DEF Settled, Moved
<1>11. \A k \in 1 .. p : Starting(t, w, m + k) = Starting(b, q, k) + d
  <2> TAKE k \in 1 .. p
  <2>1. Past(t, q.starts[k] + d) = Past(b, q.starts[k]) + d
    BY <1>2, <1>9 DEF Settled, Moved
  <2>2. m + k # 0 /\ k # 0
    BY <1>6
  <2> QED BY <1>7, <2>1, <2>2 DEF Starting
<1>12. ASSUME NEW x \in Nat, NEW y \in Nat, Junk(s, FALSE, x, y), x >= 1, y <= Len(s)
       PROVE  Junk(t, final, x, y)
  <2> SUFFICES ASSUME NEW j \in x .. y PROVE Status(t, j, final) = "junk"
    BY DEF Junk
  <2>1. Status(s, j, FALSE) = "junk" /\ j \in 1 .. Len(s)
    <3>1. j \in Nat /\ x <= j /\ j <= y
      BY <1>12
    <3>2. j \in 1 .. Len(s)
      BY ONLY <1>n1, <1>12, <3>1
    <3> QED BY <1>12, <3>2 DEF Junk
  <2> QED BY <1>2, <2>1 DEF Settled, Moved
<1>13. ASSUME NEW x \in Nat, NEW y \in Int, Junk(b, final, x, y), x >= 1, y <= Len(b)
       PROVE  Junk(t, final, x + d, y + d)
  <2> SUFFICES ASSUME NEW j \in x + d .. y + d PROVE Status(t, j, final) = "junk"
    BY DEF Junk
  <2> DEFINE i == j - d
  <2>1. i \in x .. y /\ i \in 1 .. Len(b) /\ i + d = j
    BY <1>1, <1>13
  <2> HIDE DEF i
  <2>2. Status(b, i, final) = "junk"
    BY <1>13, <2>1 DEF Junk
  <2>3. Status(t, i + d, final) = Status(b, i, final)
    BY <1>2, <2>1 DEF Settled, Moved
  <2> QED BY <2>1, <2>2, <2>3
<1>14. ASSUME NEW y \in Int, Junk(b, final, 1, y), y <= Len(b), y >= 0
       PROVE  Junk(t, final, r.from, y + d)
  <2>1. Junk(t, final, 1 + d, y + d)
    BY <1>13, <1>14
  <2>3. Junk(t, final, r.from, d)
    BY <1>1, <1>n1, <1>12
  <2>2. \A j \in r.from .. y + d : j \in r.from .. d \/ j \in 1 + d .. y + d
    BY <1>1
  <2> QED BY <2>1, <2>2, <2>3 DEF Junk
<1>15. ASSUME NEW k \in 1 .. m
       PROVE  w.starts[k] \in 1 .. Len(t) /\ Found(t, final, w, k)
  <2> DEFINE x == r.starts[k]
             a == Starting(s, r, k - 1)
  <2>1. /\ w.starts[k] = x /\ x \in 1 .. Len(s) /\ Status(s, x, FALSE) = "frame"
        /\ x >= a /\ Junk(s, FALSE, a, x - 1)
    BY <1>7, <1>8 DEF Found
  <2>2. Starting(t, w, k - 1) = a
    <3>1. k - 1 \in 0 .. m
      BY <1>6
    <3> QED BY <1>10, <3>1
  <2>3. a \in Nat /\ a >= 1
    <3>1. CASE k = 1
      BY <3>1 DEF Starting
    <3>2. CASE k # 1
      <4>1. k - 1 \in 1 .. m /\ k - 1 # 0
        BY <1>6, <3>2
      <4>2. Past(s, r.starts[k - 1]) \in Nat /\ Past(s, r.starts[k - 1]) >= 1
        <5>1. Past(s, r.starts[k - 1]) \in r.starts[k - 1] + 1 .. Len(s) + 1
          BY <1>1, <1>8, <4>1, StatusIs
        <5>2. r.starts[k - 1] \in 1 .. Len(s)
          BY <1>8, <4>1
        <5> QED BY SMTT(20), <1>1, <5>1, <5>2
      <4> QED BY <4>1, <4>2 DEF Starting
    <3> QED BY <3>1, <3>2
  <2> HIDE DEF a, x
  <2>4. x - 1 \in Nat /\ x - 1 <= Len(s) /\ x \in 1 .. Len(t)
    BY <1>1, <2>1
  <2>5. Junk(t, final, a, x - 1)
    BY <1>12, <2>1, <2>3, <2>4
  <2>6. Status(t, x, final) = "frame"
    BY <1>2, <2>1 DEF Settled, Moved
  <2> QED BY <2>1, <2>2, <2>4, <2>5, <2>6 DEF Found
<1>16. ASSUME NEW k \in 1 .. p
       PROVE  w.starts[m + k] \in 1 .. Len(t) /\ Found(t, final, w, m + k)
  <2> DEFINE x == q.starts[k]
             a == Starting(b, q, k - 1)
  <2>1. /\ w.starts[m + k] = x + d /\ x \in 1 .. Len(b) /\ Status(b, x, final) = "frame"
        /\ x >= a /\ Junk(b, final, a, x - 1)
    BY <1>7, <1>9 DEF Found
  <2>2. Status(t, x + d, final) = "frame" /\ x + d \in 1 .. Len(t)
    BY <1>1, <1>2, <2>1 DEF Settled, Moved
  <2>3. CASE k = 1
    <3>1. a = 1 /\ (m + k) - 1 = m /\ m \in 0 .. m
      BY <1>6, <2>3 DEF Starting
    <3>2. Starting(t, w, (m + k) - 1) = r.from
      BY <1>3, <1>10, <3>1 DEF Searched, m
    <3> HIDE DEF a, x
    <3>3. Junk(t, final, r.from, (x - 1) + d)
      <4>1. x - 1 \in Int /\ x - 1 <= Len(b) /\ x - 1 >= 0
        BY <1>1, <2>1
      <4> QED BY <1>14, <2>1, <3>1, <4>1
    <3>4. (x - 1) + d = (x + d) - 1 /\ x + d >= r.from
      BY <1>1, <2>1
    <3> QED BY <2>1, <2>2, <3>2, <3>3, <3>4 DEF Found
  <2>4. CASE k # 1
    <3>1. k - 1 \in 1 .. p /\ (m + k) - 1 = m + (k - 1) /\ k - 1 # 0
      BY <1>6, <2>4
    <3>2. Starting(t, w, (m + k) - 1) = a + d
      BY <1>11, <3>1
    <3>3. a \in Nat /\ a >= 1
      <4>1. q.starts[k - 1] \in 1 .. Len(b) /\ Status(b, q.starts[k - 1], final) = "frame"
        BY <1>9, <3>1
      <4>2. Past(b, q.starts[k - 1]) \in q.starts[k - 1] + 1 .. Len(b) + 1
        BY <1>1, <4>1, StatusIs
      <4>3. Past(b, q.starts[k - 1]) \in Nat /\ Past(b, q.starts[k - 1]) >= 1
        BY SMTT(20), <1>1, <4>1, <4>2
      <4> QED BY <3>1, <4>3 DEF Starting
    <3> HIDE DEF a, x
    <3>4. Junk(t, final, a + d, (x - 1) + d)
      <4>1. x - 1 \in Int /\ x - 1 <= Len(b)
        BY <1>1, <2>1
      <4> QED BY <1>13, <2>1, <3>3, <4>1
    <3>5. (x - 1) + d = (x + d) - 1 /\ x + d >= a + d
      BY <1>1, <2>1, <3>3
    <3> QED BY <2>1, <2>2, <3>2, <3>4, <3>5 DEF Found
  <2> QED BY <2>3, <2>4
<1>17. \A k \in 1 .. Len(w.starts) : w.starts[k] \in 1 .. Len(t) /\ Found(t, final, w, k)
  <2> TAKE k \in 1 .. Len(w.starts)
  <2>1. CASE k <= m
    BY <1>6, <1>15, <2>1
  <2>2. CASE k > m
    <3>1. k - m \in 1 .. p /\ m + (k - m) = k
      BY <1>6, <1>7, <2>2
    <3>2. w.starts[m + (k - m)] \in 1 .. Len(t) /\ Found(t, final, w, m + (k - m))
      BY <1>16, <3>1
    <3> QED BY <3>1, <3>2
  <2> QED BY <1>6, <1>7, <2>1, <2>2
<1>18. w.from = Starting(t, w, Len(w.starts)) /\ w.from \in 1 .. Len(t) + 1
  <2>1. CASE p = 0
    <3>1. Len(w.starts) = m /\ m \in 0 .. m /\ w.from = r.from
      BY <1>5, <1>6, <1>7, <2>1
    <3>2. Starting(t, w, m) = r.from
      BY <1>3, <1>10, <3>1 DEF Searched, m
    <3> QED BY <1>1, <3>1, <3>2
  <2>2. CASE p # 0
    <3>1. Len(w.starts) = m + p /\ p \in 1 .. p /\ w.from = q.from + d
      BY <1>5, <1>6, <1>7, <2>2
    <3>2. Starting(t, w, m + p) = Starting(b, q, p) + d
      BY <1>11, <3>1
    <3>3. Starting(b, q, p) = q.from /\ q.from \in 1 .. Len(b) + 1
      BY <1>4 DEF Searched, p
    <3> QED BY SMTT(20), <1>1, <3>1, <3>2, <3>3
  <2> QED BY <2>1, <2>2
<1>19. ASSUME NEW y \in Int, y <= Len(b), y >= 0, Junk(b, final, q.from, y)
       PROVE  Junk(t, final, w.from, y + d)
  <2>1. CASE p = 0
    <3>1. q.from = 1 /\ w.from = r.from
      BY <1>4, <1>5, <2>1 DEF Searched, Starting, p
    <3> QED BY <1>14, <1>19, <3>1
  <2>2. CASE p # 0
    <3>1. w.from = q.from + d /\ q.from >= 1
      BY <1>4, <1>5, <2>2 DEF Searched
    <3> QED BY <1>6, <1>13, <1>19, <3>1
  <2> QED BY <2>1, <2>2
<1>20. ASSUME w.status = "exhausted"
       PROVE  w.stop = Len(t) + 1 /\ Junk(t, final, w.from, Len(t))
  <2>1. q.stop = Len(b) + 1 /\ Junk(b, final, q.from, Len(b))
    BY <1>4, <1>5, <1>20 DEF Searched
  <2>2. Junk(t, final, w.from, Len(b) + d)
    BY <1>1, <1>19, <2>1
  <2>3. Len(b) + d = Len(t) /\ (Len(b) + 1) + d = Len(t) + 1
    BY <1>1
  <2> QED BY <1>5, <2>1, <2>2, <2>3
<1>21. ASSUME w.status # "exhausted"
       PROVE  /\ w.stop \in w.from .. Len(t) /\ Status(t, w.stop, final) = w.status
              /\ Junk(t, final, w.from, w.stop - 1)
  <2>1. /\ q.stop \in q.from .. Len(b) /\ Status(b, q.stop, final) = q.status
        /\ Junk(b, final, q.from, q.stop - 1) /\ q.from >= 1
    BY <1>4, <1>5, <1>21 DEF Searched
  <2>2. Junk(t, final, w.from, (q.stop - 1) + d)
    <3>1. q.stop - 1 \in Int /\ q.stop - 1 <= Len(b) /\ q.stop - 1 >= 0
      BY SMTT(20), <1>1, <1>6, <2>1
    <3> QED BY <1>19, <2>1, <3>1
  <2>3. (q.stop - 1) + d = w.stop - 1
    BY <1>1, <1>5, <1>6
  <2>4. Status(t, w.stop, final) = w.status
    <3>1. q.stop \in 1 .. Len(b)
      BY <1>1, <1>6, <2>1
    <3> QED BY <1>2, <1>5, <2>1, <3>1 DEF Settled, Moved
  <2>5. w.stop \in w.from .. Len(t)
    <3>1. w.from <= q.from + d
      <4>1. CASE p = 0
        BY <1>n1, <1>n6, <1>5, <2>1, <4>1
      <4>2. CASE p # 0
        BY <1>n1, <1>n6, <1>5, <4>2
      <4> QED BY <4>1, <4>2
    <3>2. w.stop = q.stop + d /\ w.from \in Nat
      BY <1>n1, <1>5, <1>18
    <3>3. q.stop <= Len(b) /\ q.from <= q.stop
      BY <2>1, <1>n1, <1>n6
    <3>4. w.stop <= Len(t) /\ w.stop \in Nat
      BY ONLY <1>n1, <1>n6, <3>2, <3>3
    <3>5. w.from <= w.stop
      BY ONLY <1>n1, <1>n6, <3>1, <3>2, <3>3
    <3> QED BY <1>n1, <3>2, <3>4, <3>5
  <2> QED BY <2>2, <2>3, <2>4, <2>5
<1>22. w \in Scans
  <2>1. q.status \in {"exhausted", "more", "raise"}
    BY <1>4 DEF Scans
  <2>2. w.from \in Nat /\ w.stop \in Nat
    BY SMTT(20), <1>n1, <1>n6, <1>5, <1>18
  <2>3. w = [starts |-> w.starts, from |-> w.from, stop |-> w.stop, status |-> w.status]
    BY DEF w, Continued
  <2> QED BY <1>5, <1>7, <2>1, <2>2, <2>3 DEF Scans
<1>23. Searched(t, final, w, Len(t))
  BY <1>17, <1>18, <1>20, <1>21, <1>22 DEF Searched
<1>24. Scan(t, final) = w
  BY <1>1, <1>23, ScanUnique
<1>25. FramesAt(t, w.starts) = FramesAt(s, r.starts) \o FramesAt(b, q.starts)
  <2> DEFINE f == FramesAt(t, w.starts)
             g == FramesAt(s, r.starts)
             h == FramesAt(b, q.starts)
  <2>1. g \in Seq(Seq(Cell)) /\ Len(g) = m /\ \A k \in 1 .. m : g[k] = Raw(s, r.starts[k])
    <3>1. \A k \in 1 .. m : Raw(s, r.starts[k]) \in Seq(Cell)
      <4> TAKE k \in 1 .. m
      <4>1. r.starts[k] \in 1 .. Len(s) /\ Status(s, r.starts[k], FALSE) = "frame"
        BY <1>8
      <4>2. Header(s, r.starts[k]) # None /\ r.starts[k] + Header(s, r.starts[k]).size - 1 <= Len(s)
        BY <1>1, <4>1, StatusIs
      <4> QED BY <1>1, <4>1, <4>2, RawTyped
    <3>2. g = [k \in 1 .. m |-> Raw(s, r.starts[k])]
      BY <1>6 DEF FramesAt, m
    <3>3. g \in [1 .. m -> Seq(Cell)] /\ \A k \in 1 .. m : g[k] = Raw(s, r.starts[k])
      BY <3>1, <3>2
    <3> HIDE DEF g
    <3> QED BY <1>n6, <3>3
  <2>2. h \in Seq(Seq(Cell)) /\ Len(h) = p /\ \A k \in 1 .. p : h[k] = Raw(b, q.starts[k])
    <3>1. \A k \in 1 .. p : Raw(b, q.starts[k]) \in Seq(Cell)
      <4> TAKE k \in 1 .. p
      <4>1. q.starts[k] \in 1 .. Len(b) /\ Status(b, q.starts[k], final) = "frame"
        BY <1>9
      <4>2. Header(b, q.starts[k]) # None /\ q.starts[k] + Header(b, q.starts[k]).size - 1 <= Len(b)
        BY <1>1, <4>1, StatusIs
      <4> QED BY <1>1, <4>1, <4>2, RawTyped
    <3>2. h = [k \in 1 .. p |-> Raw(b, q.starts[k])]
      BY <1>6 DEF FramesAt, p
    <3>3. h \in [1 .. p -> Seq(Cell)] /\ \A k \in 1 .. p : h[k] = Raw(b, q.starts[k])
      BY <3>1, <3>2
    <3> HIDE DEF h
    <3> QED BY <1>n6, <3>3
  <2>3. f = [k \in 1 .. m + p |-> Raw(t, w.starts[k])]
    BY <1>7 DEF FramesAt
  <2> HIDE DEF f, g, h
  <2>4. /\ g \o h \in Seq(Seq(Cell)) /\ Len(g \o h) = m + p
        /\ \A k \in 1 .. m : (g \o h)[k] = g[k]
        /\ \A k \in 1 .. p : (g \o h)[m + k] = h[k]
    <3>1. /\ g \o h \in Seq(Seq(Cell)) /\ Len(g \o h) = Len(g) + Len(h)
          /\ \A k \in 1 .. Len(g) : (g \o h)[k] = g[k]
          /\ \A k \in 1 .. Len(h) : (g \o h)[Len(g) + k] = h[k]
      <4>1. g \in Seq(Seq(Cell)) /\ h \in Seq(Seq(Cell))
        BY <2>1, <2>2
      <4> QED BY ONLY <4>1, SeqJoined
    <3> QED BY <2>1, <2>2, <3>1
  <2>5. ASSUME NEW k \in 1 .. m + p
        PROVE  Raw(t, w.starts[k]) = (g \o h)[k]
    <3>1. CASE k <= m
      <4>1. k \in 1 .. m
        BY <1>6, <3>1
      <4>2. Raw(t, w.starts[k]) = Raw(s, r.starts[k])
        BY <1>2, <1>7, <1>8, <4>1 DEF Settled, Moved
      <4> QED BY <2>1, <2>4, <4>1, <4>2
    <3>2. CASE k > m
      <4>1. k - m \in 1 .. p /\ m + (k - m) = k
        BY <1>6, <3>2
      <4>2. Raw(t, q.starts[k - m] + d) = Raw(b, q.starts[k - m])
        BY <1>2, <1>9, <4>1 DEF Settled, Moved
      <4>3. w.starts[m + (k - m)] = q.starts[k - m] + d
        BY <1>7, <4>1
      <4>4. (g \o h)[m + (k - m)] = h[k - m] /\ h[k - m] = Raw(b, q.starts[k - m])
        BY <2>2, <2>4, <4>1
      <4>5. w.starts[k] = q.starts[k - m] + d /\ (g \o h)[k] = h[k - m]
        BY ONLY <4>1, <4>3, <4>4
      <4> QED BY ONLY <4>2, <4>4, <4>5
    <3>3. k \in Nat /\ m \in Nat
      BY <1>n6
    <3>4. k <= m \/ k > m
      BY <3>3
    <3> QED BY ONLY <3>1, <3>2, <3>4
  <2>9. \A k \in 1 .. m + p : Raw(t, w.starts[k]) = (g \o h)[k]
    BY <2>5
  <2>6. f = [k \in 1 .. m + p |-> (g \o h)[k]]
    BY ONLY <2>3, <2>9
  <2>7. g \o h = [k \in 1 .. m + p |-> (g \o h)[k]]
    <3>1. g \o h \in Seq(Seq(Cell)) /\ Len(g \o h) = m + p
      BY <2>4
    <3> DEFINE e == g \o h
    <3> HIDE DEF e
    <3>2. e \in Seq(Seq(Cell)) /\ Len(e) = m + p
      BY <3>1 DEF e
    <3>3. e = [k \in 1 .. m + p |-> e[k]]
      BY ONLY <3>2
    <3> QED BY <3>3 DEF e
  <2> QED BY <2>6, <2>7 DEF f, g, h
<1> QED BY <1>24, <1>25 DEF w, q

-----------------------------------------------------------------------------
(* What a search leaves to be searched again, and what it has passed over.    *)
Sizes == {Formats[k].size : k \in DOMAIN Formats}

LEMMA LargestSize ==
  /\ Max(Sizes) \in Nat /\ Max(Sizes) > HeaderCells
  /\ \A h \in Headers : h.size <= Max(Sizes)
<1>1. \A h \in Headers : h.size \in Nat /\ h.size > HeaderCells
  BY HeaderTyped DEF HeaderCells
<1>2. Sizes = {h.size : h \in Headers}
  BY DEF Sizes, Headers
<1>3. Sizes \subseteq Nat /\ \A z \in Sizes : z > HeaderCells
  BY <1>1, <1>2
<1>4. \E z \in Sizes : TRUE
  BY Mp2Assumption DEF Sizes
<1> DEFINE Of(k) == IF k \in DOMAIN Formats THEN Formats[k].size ELSE 0
           T == {n \in Nat : \A z \in Sizes : z <= n}
<1>5. \A k : Of(k) \in Nat
  BY <1>3 DEF Sizes
<1>6. \A z \in Sizes : \E k \in {0, 1, 2, 3} : z = Of(k)
  <2> TAKE z \in Sizes
  <2>1. PICK k \in DOMAIN Formats : z = Formats[k].size
    BY DEF Sizes
  <2>2. k \in {0, 1, 2, 3}
    BY Mp2Assumption DEF Cell, Sync
  <2>3. z = Of(k)
    BY <2>1
  <2> HIDE DEF Of
  <2> QED BY <2>2, <2>3
<1> HIDE DEF Of
<1>7. Of(0) + Of(1) + Of(2) + Of(3) \in T
  BY <1>5, <1>6
<1>8. PICK n \in T : \A m \in T : n <= m
  <2>1. T \subseteq Nat /\ T # {}
    BY <1>7
  <2> HIDE DEF T
  <2> QED BY ONLY <2>1, LeastNumber
<1>9. n \in Sizes
  <2> SUFFICES ASSUME n \notin Sizes PROVE FALSE
    OBVIOUS
  <2>1. \A z \in Sizes : z <= n - 1
    BY <1>3
  <2>2. n - 1 \in Nat
    BY <1>3, <1>4, <2>1
  <2> QED BY <1>8, <2>1, <2>2
<1>10. Max(Sizes) \in Sizes /\ \A z \in Sizes : z <= Max(Sizes)
  <2>1. n \in Sizes /\ \A z \in Sizes : n >= z
    BY <1>3, <1>9
  <2> QED BY <1>3, <2>1 DEF Max
<1> QED BY <1>1, <1>2, <1>3, <1>10

\* What is kept is less than a frame.
LEMMA KeptShort ==
  ASSUME NEW s \in Seq(Cell), NEW r, Searched(s, FALSE, r, Len(s)), r.status # "raise"
  PROVE  Len(Kept(s, r)) < Max(Sizes)
<1>1. Len(s) \in Nat /\ r \in Scans
  BY DEF Searched
<1>2. CASE r.status = "exhausted"
  <2>1. r.stop = Len(s) + 1
    BY <1>2 DEF Searched
  <2>2. Len(SubSeq(s, Len(s) + 1, Len(s))) = 0
    BY <1>1
  <2> QED BY <2>1, <2>2, LargestSize DEF Kept, HeaderCells
<1>3. CASE r.status # "exhausted"
  <2> DEFINE j == r.stop
  <2>1. j \in 1 .. Len(s) /\ Status(s, j, FALSE) = "more"
    <3>1. r.stop \in r.from .. Len(s) /\ Status(s, r.stop, FALSE) = r.status
      BY <1>3 DEF Searched
    <3>2. r.status = "more" /\ r.stop \in Nat /\ r.from \in Nat
      BY <1>1, <1>3 DEF Scans
    <3>3. r.from >= 1
      BY <1>1 DEF Searched
    <3>4. Len(s) \in Nat
      BY <1>1
    <3>5. r.stop \in 1 .. Len(s)
      BY ONLY <3>1, <3>2, <3>3, <3>4
    <3>6. Status(s, r.stop, FALSE) = "more"
      BY ONLY <3>1, <3>2
    <3> QED BY <3>5, <3>6
  <2> HIDE DEF j
  <2>2. Len(SubSeq(s, j, Len(s))) = Len(s) - j + 1
    BY <1>1, <2>1
  <2>3. j + HeaderCells - 1 > Len(s) \/ (Header(s, j) # None /\ j + Header(s, j).size - 1 > Len(s))
    BY <2>1, StatusIs
  <2>4. CASE j + HeaderCells - 1 > Len(s)
    BY <1>1, <2>1, <2>2, <2>4, LargestSize DEF Kept, HeaderCells, j
  <2>5. CASE Header(s, j) # None /\ j + Header(s, j).size - 1 > Len(s)
    <3>1. Header(s, j) \in Headers /\ Header(s, j).size \in Nat
      BY <2>1, <2>5, HeaderFound
    <3>2. Header(s, j).size <= Max(Sizes)
      BY <3>1, LargestSize
    <3>3. Len(s) - j + 1 < Max(Sizes)
      BY <1>1, <2>1, <2>5, <3>1, <3>2, LargestSize
    <3> QED BY <2>2, <3>3 DEF Kept, j
  <2> QED BY <2>3, <2>4, <2>5
<1> QED BY <1>2, <1>3

LEMMA FramesTyped ==
  ASSUME NEW s \in Seq(Cell), NEW final \in BOOLEAN, NEW r, Searched(s, final, r, Len(s))
  PROVE  /\ FramesAt(s, r.starts) \in Seq(Seq(Cell)) /\ Len(FramesAt(s, r.starts)) = Len(r.starts)
         /\ \A k \in 1 .. Len(r.starts) :
               /\ FramesAt(s, r.starts)[k] = Raw(s, r.starts[k])
               /\ r.starts[k] \in 1 .. Len(s) /\ Header(s, r.starts[k]) \in Headers
               /\ Len(Raw(s, r.starts[k])) = Header(s, r.starts[k]).size
               /\ r.starts[k] >= Starting(s, r, k - 1)
               /\ Starting(s, r, k) = r.starts[k] + Header(s, r.starts[k]).size
               /\ Starting(s, r, k) <= Len(s) + 1
<1> DEFINE m == Len(r.starts)
           g == FramesAt(s, r.starts)
<1>1. r \in Scans /\ r.starts \in Seq(Nat) /\ m \in Nat /\ DOMAIN r.starts = 1 .. m
  BY DEF Searched, Scans
<1>2. ASSUME NEW k \in 1 .. m
      PROVE  /\ Raw(s, r.starts[k]) \in Seq(Cell)
             /\ r.starts[k] \in 1 .. Len(s) /\ Header(s, r.starts[k]) \in Headers
             /\ Len(Raw(s, r.starts[k])) = Header(s, r.starts[k]).size
             /\ r.starts[k] >= Starting(s, r, k - 1)
             /\ Starting(s, r, k) = r.starts[k] + Header(s, r.starts[k]).size
             /\ Starting(s, r, k) <= Len(s) + 1
  <2> DEFINE x == r.starts[k]
  <2>1. x \in 1 .. Len(s) /\ x >= Starting(s, r, k - 1) /\ Status(s, x, final) = "frame"
    BY DEF Searched, Found
  <2>2. Starting(s, r, k) = Past(s, x)
    BY <1>1 DEF Starting
  <2> HIDE DEF x
  <2>3. /\ Header(s, x) # None /\ x + Header(s, x).size - 1 <= Len(s)
        /\ Past(s, x) \in x + 1 .. Len(s) + 1
    BY <2>1, StatusIs
  <2>4. Raw(s, x) \in Seq(Cell) /\ Len(Raw(s, x)) = Header(s, x).size
    BY <2>1, <2>3, RawTyped
  <2>5. Header(s, x) \in Headers
    BY <2>1, <2>3, HeaderFound
  <2>6. Past(s, x) <= Len(s) + 1
    BY <2>1, <2>3
  <2> QED BY <2>1, <2>2, <2>4, <2>5, <2>6 DEF Past, x
<1>3. g \in [1 .. m -> Seq(Cell)] /\ \A k \in 1 .. m : g[k] = Raw(s, r.starts[k])
  BY <1>1, <1>2 DEF FramesAt
<1> HIDE DEF g
<1>4. g \in Seq(Seq(Cell)) /\ Len(g) = m
  BY SMTT(20), <1>1, <1>3
<1> QED BY <1>2, <1>3, <1>4 DEF g

LEMMA FramesFit ==
  ASSUME NEW s \in Seq(Cell), NEW final \in BOOLEAN, NEW r, Searched(s, final, r, Len(s))
  PROVE  /\ Len(FlattenSeq(FramesAt(s, r.starts))) <= r.from - 1
         /\ r.from \in 1 .. Len(s) + 1 /\ r.stop \in r.from .. Len(s) + 1
<1> DEFINE m == Len(r.starts)
           p == FramesAt(s, r.starts)
<1>1. r \in Scans /\ m \in Nat /\ Len(s) \in Nat
  BY DEF Searched, Scans
<1>2. p \in Seq(Seq(Cell)) /\ Len(p) = m
  BY FramesTyped
<1>3. \A k \in 1 .. m :
         /\ p[k] = Raw(s, r.starts[k])
         /\ r.starts[k] \in 1 .. Len(s) /\ Header(s, r.starts[k]) \in Headers
         /\ Len(Raw(s, r.starts[k])) = Header(s, r.starts[k]).size
         /\ r.starts[k] >= Starting(s, r, k - 1)
         /\ Starting(s, r, k) = r.starts[k] + Header(s, r.starts[k]).size
  BY FramesTyped
<1> HIDE DEF p, m
<1>4. PICK f : Joins(f, Cell, p) /\ FlattenSeq(p) = f[Len(p)]
  BY <1>2, FlattenJoins
<1>5. /\ f[0] = <<>> /\ \A k \in 0 .. m : f[k] \in Seq(Cell)
      /\ \A k \in 1 .. m : f[k] = f[k - 1] \o p[k]
  BY <1>2, <1>4 DEF Joins
<1> DEFINE T == {k \in Nat : k <= m => Starting(s, r, k) \in Nat /\ Len(f[k]) <= Starting(s, r, k) - 1}
<1>6. 0 \in T
  BY <1>5 DEF Starting
<1>7. ASSUME NEW k \in Nat, k \in T, k + 1 <= m
      PROVE  Starting(s, r, k + 1) \in Nat /\ Len(f[k + 1]) <= Starting(s, r, k + 1) - 1
  <2> DEFINE i == k + 1
             z == Header(s, r.starts[i]).size
             x == r.starts[i]
             a == Starting(s, r, k)
             c == Starting(s, r, i)
             n == Len(f[k])
             e == Len(f[i])
  <2>1. i \in 1 .. m /\ i - 1 = k /\ k \in 0 .. m
    BY <1>1, <1>7
  <2>2. f[i] = f[k] \o p[i] /\ f[k] \in Seq(Cell) /\ p[i] \in Seq(Cell) /\ Len(p[i]) = z
    <3>1. f[i] = f[i - 1] \o p[i] /\ f[k] \in Seq(Cell)
      BY ONLY <1>5, <2>1
    <3>2. p[i] \in Seq(Cell)
      BY <1>2, <2>1
    <3>3. Len(p[i]) = z
      BY <1>3, <2>1
    <3> QED BY ONLY <2>1, <3>1, <3>2, <3>3
  <2>3. e = n + z /\ n \in Nat /\ e \in Nat
    <3> DEFINE u == f[k]
               v == p[i]
    <3>1. u \in Seq(Cell) /\ v \in Seq(Cell) /\ Len(v) = z /\ f[i] = u \o v
      BY <2>2
    <3> HIDE DEF u, v, z
    <3>2. Len(u \o v) = Len(u) + Len(v) /\ Len(u) \in Nat /\ Len(v) \in Nat
      BY ONLY <3>1
    <3> QED BY <3>1, <3>2 DEF u
  <2>4. x \in Nat /\ x >= a /\ c = x + z
    BY <1>3, <2>1
  <2>5. z \in Nat
    BY <1>3, <2>1, HeaderTyped
  <2>6. a \in Nat /\ n <= a - 1
    BY <1>7, <2>1
  <2> HIDE DEF z, x, a, c, n, e
  <2>7. c \in Nat /\ e <= c - 1
    BY ONLY <2>3, <2>4, <2>5, <2>6
  <2> QED BY <2>7 DEF c, e
<1>8. \A k \in Nat : k \in T
  <2>1. \A k \in Nat : k \in T => k + 1 \in T
    BY <1>7
  <2> HIDE DEF T
  <2> QED BY ONLY <1>6, <2>1, Inductively
<1>9. r.from = Starting(s, r, m) /\ Len(FlattenSeq(p)) <= r.from - 1
  <2>1. m \in T
    BY <1>1, <1>8
  <2>2. r.from = Starting(s, r, m)
    BY DEF Searched, m
  <2> QED BY <1>1, <1>2, <1>4, <2>1, <2>2
<1>10. r.from \in 1 .. Len(s) + 1
  BY DEF Searched
<1>11. r.stop \in r.from .. Len(s) + 1
  <2>1. r.stop = Len(s) + 1 \/ r.stop \in r.from .. Len(s)
    BY DEF Searched
  <2> QED BY <1>1, <1>10, <2>1
<1> QED BY <1>9, <1>10, <1>11 DEF p

-----------------------------------------------------------------------------
(* Locking a frame changes values within their ranges and nothing else.       *)
LEMMA ShiftedIn ==
  ASSUME NEW v \in Int, NEW by \in Int, NEW n \in Span
  PROVE  Shifted(v, by, n) \in 0 .. n - 1 /\ Shifted(v, by, n) \in Cell
<1>1. n = 1 \/ n = 2 \/ n = 3 \/ n = 4
  BY DEF Span, Sync
<1>2. v + by \in Int
  OBVIOUS
<1>3. (v + by) % n \in 0 .. n - 1
  BY <1>1, <1>2
<1> QED BY <1>1, <1>3 DEF Shifted, Cell, Sync

LEMMA ShiftedBack ==
  ASSUME NEW by \in Int, NEW n \in Span, NEW v \in 0 .. n - 1
  PROVE  Shifted(Shifted(v, by, n), -by, n) = v
<1>1. n = 1 \/ n = 2 \/ n = 3 \/ n = 4
  BY DEF Span, Sync
<1>2. CASE n = 1
  BY <1>2 DEF Shifted
<1>3. CASE n = 2
  BY <1>3 DEF Shifted
<1>4. CASE n = 3
  BY <1>4 DEF Shifted
<1>5. CASE n = 4
  BY <1>5 DEF Shifted
<1> QED BY <1>1, <1>2, <1>3, <1>4, <1>5

\* Where a frame's parts end depends on its cells as far as the scfsi.
LEMMA SameGeometry ==
  ASSUME NEW h \in Headers, NEW raw \in Seq(Cell), Len(raw) = h.size,
         NEW out \in Seq(Cell), Len(out) = h.size,
         \A k \in 1 .. h.size : k <= ScfsiEnd(raw, h) => out[k] = raw[k]
  PROVE  /\ AllocOf(out, h) = AllocOf(raw, h) /\ ScfsiEnd(out, h) = ScfsiEnd(raw, h)
         /\ Verdict(out, h) = Verdict(raw, h)
         /\ ScfsiEnd(raw, h) <= h.size =>
               /\ ScfsiOf(out, h) = ScfsiOf(raw, h)
               /\ ScalefactorEnd(out, h) = ScalefactorEnd(raw, h)
               /\ SampleEnd(out, h) = SampleEnd(raw, h)
<1>1. /\ h.size \in Nat /\ AllocEnd(h) \in Nat /\ AllocEnd(h) < h.size
      /\ ScfsiEnd(raw, h) \in Nat /\ ScfsiEnd(raw, h) >= AllocEnd(h)
  BY EndsTyped, HeaderTyped
<1>2. \A i \in Indices(h) : out[AllocStart(h) + AllocCell(h, i)] = raw[AllocStart(h) + AllocCell(h, i)]
  <2> TAKE i \in Indices(h)
  <2>1. AllocStart(h) \in Nat /\ AllocCells(h) \in Nat /\ AllocCell(h, i) \in 1 .. AllocCells(h)
    BY AllocCellsUsed DEF Indices
  <2> DEFINE k == AllocStart(h) + AllocCell(h, i)
  <2>2. k \in 1 .. h.size /\ k <= ScfsiEnd(raw, h)
    BY <1>1, <2>1 DEF AllocEnd
  <2> HIDE DEF k
  <2>3. out[k] = raw[k]
    BY <2>2
  <2> QED BY <2>3 DEF k
<1>3. AllocOf(out, h) = AllocOf(raw, h)
  BY <1>2 DEF AllocOf
<1>4. ScfsiEnd(out, h) = ScfsiEnd(raw, h)
  BY <1>3 DEF ScfsiEnd
<1>5. ASSUME ScfsiEnd(raw, h) <= h.size
      PROVE  ScfsiOf(out, h) = ScfsiOf(raw, h)
  <2> DEFINE a == AllocEnd(h)
             b == ScfsiEnd(raw, h)
             x == SubSeq(out, a + 1, b)
             y == SubSeq(raw, a + 1, b)
  <2>1. a + 1 \in Nat /\ b \in Nat /\ 1 <= a + 1 /\ a + 1 <= b + 1 /\ b <= h.size
    BY <1>1, <1>5
  <2> HIDE DEF a, b
  <2>2. /\ x \in Seq(Cell) /\ Len(x) = b - (a + 1) + 1
        /\ \A k \in 1 .. b - (a + 1) + 1 : x[k] = out[(a + 1) + k - 1]
    <3>1. b <= Len(out)
      BY <2>1
    <3> QED BY ONLY out \in Seq(Cell), <2>1, <3>1, SeqSlice
  <2>3. /\ y \in Seq(Cell) /\ Len(y) = b - (a + 1) + 1
        /\ \A k \in 1 .. b - (a + 1) + 1 : y[k] = raw[(a + 1) + k - 1]
    <3>1. b <= Len(raw)
      BY <2>1
    <3> QED BY ONLY raw \in Seq(Cell), <2>1, <3>1, SeqSlice
  <2>4. \A k \in 1 .. b - (a + 1) + 1 : x[k] = y[k]
    <3> TAKE k \in 1 .. b - (a + 1) + 1
    <3>1. (a + 1) + k - 1 \in 1 .. h.size /\ (a + 1) + k - 1 <= b
      BY SMTT(20), <1>1, <2>1 DEF a
    <3>2. out[(a + 1) + k - 1] = raw[(a + 1) + k - 1]
      BY <3>1 DEF b
    <3> QED BY <2>2, <2>3, <3>2
  <2> HIDE DEF x, y
  <2>5. x = y
    BY <2>2, <2>3, <2>4, SeqSame
  <2> QED BY <1>4, <2>5 DEF ScfsiOf, x, y, a, b
<1>6. ASSUME ScfsiEnd(raw, h) <= h.size
      PROVE  ScalefactorEnd(out, h) = ScalefactorEnd(raw, h) /\ SampleEnd(out, h) = SampleEnd(raw, h)
  BY <1>3, <1>4, <1>5, <1>6 DEF ScalefactorEnd, SampleEnd
<1>7. Verdict(out, h) = Verdict(raw, h)
  <2>1. CASE ScfsiEnd(raw, h) > h.size
    BY <1>4, <2>1 DEF Verdict
  <2>2. CASE ~ (ScfsiEnd(raw, h) > h.size)
    <3>1. ScfsiEnd(raw, h) <= h.size
      BY <1>1, <2>2
    <3> QED BY <1>4, <1>6, <3>1 DEF Verdict
  <2> QED BY <2>1, <2>2
<1> QED BY <1>3, <1>4, <1>5, <1>6, <1>7

\* A frame the parser accepts, and what it is with other values.
IsFrame(raw, h) ==
    h \in Headers /\ raw \in Seq(Cell) /\ Len(raw) = h.size /\ Verdict(raw, h) = "frame"

Of(n) == {x \in Seq(Cell) : Len(x) = n}
ScalefactorSeqs(raw, h) == Of(ScalefactorEnd(raw, h) - ScfsiEnd(raw, h))
SampleSeqs(raw, h) == Of(SampleEnd(raw, h) - ScalefactorEnd(raw, h))

Valued(raw, h, sf, sa) ==
    Frame(h, "frame", SubSeq(raw, 1, AllocStart(h)), AllocOf(raw, h), ScfsiOf(raw, h), sf, sa,
          SubSeq(raw, SampleEnd(raw, h) + 1, h.size))

Variants(raw, h) ==
    {Valued(raw, h, v[1], v[2]) : v \in ScalefactorSeqs(raw, h) \X SampleSeqs(raw, h)}

LEMMA FrameEnds ==
  ASSUME NEW raw, NEW h, IsFrame(raw, h)
  PROVE  /\ h \in Headers /\ raw \in Seq(Cell) /\ Len(raw) = h.size /\ h.size \in Nat
         /\ AllocStart(h) \in Nat /\ AllocStart(h) >= HeaderCells /\ AllocCells(h) \in Nat
         /\ AllocEnd(h) \in Nat /\ AllocEnd(h) = AllocStart(h) + AllocCells(h)
         /\ ScfsiEnd(raw, h) \in Nat /\ AllocEnd(h) <= ScfsiEnd(raw, h)
         /\ ScalefactorEnd(raw, h) \in Nat /\ ScfsiEnd(raw, h) <= ScalefactorEnd(raw, h)
         /\ SampleEnd(raw, h) \in Nat /\ ScalefactorEnd(raw, h) <= SampleEnd(raw, h)
         /\ SampleEnd(raw, h) <= h.size
<1>1. h \in Headers /\ raw \in Seq(Cell) /\ Len(raw) = h.size /\ Verdict(raw, h) = "frame"
  BY DEF IsFrame
<1>2. h.size \in Nat
  BY <1>1, HeaderTyped
<1>3. /\ ~ (ScfsiEnd(raw, h) > h.size) /\ ~ (ScalefactorEnd(raw, h) > h.size)
      /\ ~ (SampleEnd(raw, h) > h.size)
  BY <1>1 DEF Verdict
<1>4. AllocEnd(h) \in Nat /\ ScfsiEnd(raw, h) \in Nat /\ ScfsiEnd(raw, h) >= AllocEnd(h)
  BY <1>1, EndsTyped
<1>5. ScfsiEnd(raw, h) <= h.size
  BY <1>2, <1>3, <1>4
<1>6. /\ ScalefactorEnd(raw, h) \in Nat /\ ScalefactorEnd(raw, h) >= ScfsiEnd(raw, h)
      /\ SampleEnd(raw, h) \in Nat /\ SampleEnd(raw, h) >= ScalefactorEnd(raw, h)
  BY <1>1, <1>5, EndsTyped
<1>7. AllocStart(h) \in Nat /\ AllocStart(h) >= HeaderCells /\ AllocCells(h) \in Nat
  BY <1>1, AllocCellsUsed
<1>8. SampleEnd(raw, h) <= h.size
  BY <1>2, <1>3, <1>6
<1>9. ScfsiEnd(raw, h) <= ScalefactorEnd(raw, h) /\ ScalefactorEnd(raw, h) <= SampleEnd(raw, h)
      /\ AllocEnd(h) <= ScfsiEnd(raw, h)
  BY <1>4, <1>6
<1> QED BY <1>1, <1>2, <1>4, <1>6, <1>7, <1>8, <1>9 DEF AllocEnd

LEMMA ParsedVaries ==
  ASSUME NEW raw, NEW h, IsFrame(raw, h)
  PROVE  Parse(raw, h) = ParsedFrame(raw, h) /\ ParsedFrame(raw, h) \in Variants(raw, h)
<1> DEFINE a == ScfsiEnd(raw, h)
           b == ScalefactorEnd(raw, h)
           c == SampleEnd(raw, h)
           sf == SubSeq(raw, a + 1, b)
           sa == SubSeq(raw, b + 1, c)
<1>1. /\ raw \in Seq(Cell) /\ a \in Nat /\ b \in Nat /\ c \in Nat /\ a <= b /\ b <= c /\ c <= Len(raw)
      /\ Len(raw) \in Nat
  <2>1. raw \in Seq(Cell) /\ Len(raw) = h.size /\ h.size \in Nat
    BY FrameEnds
  <2>2. a \in Nat /\ b \in Nat /\ c \in Nat
    BY FrameEnds
  <2>3. a <= b /\ b <= c /\ c <= h.size
    BY FrameEnds
  <2> QED BY <2>1, <2>2, <2>3
<1>2. Parse(raw, h) = ParsedFrame(raw, h)
  BY ParsedIs DEF IsFrame
<1>3. ParsedFrame(raw, h) = Valued(raw, h, sf, sa)
  BY DEF ParsedFrame, Valued, Frame
<1> HIDE DEF a, b, c
<1>4. sf \in Seq(Cell) /\ Len(sf) = b - a
  BY <1>1, SeqSlice
<1>5. sa \in Seq(Cell) /\ Len(sa) = c - b
  BY <1>1, SeqSlice
<1> HIDE DEF sf, sa
<1>6. <<sf, sa>> \in ScalefactorSeqs(raw, h) \X SampleSeqs(raw, h)
  BY <1>4, <1>5 DEF ScalefactorSeqs, SampleSeqs, Of, a, b, c
<1>7. Valued(raw, h, sf, sa) \in Variants(raw, h)
  BY <1>6 DEF Variants
<1> QED BY <1>2, <1>3, <1>7

\* A variant written out: the values in their places, all else as it was.
Written(raw, h, sf, sa, out) ==
    /\ out \in Seq(Cell) /\ Len(out) = h.size
    /\ \A k \in 1 .. ScfsiEnd(raw, h) : out[k] = raw[k]
    /\ \A k \in 1 .. Len(sf) : out[ScfsiEnd(raw, h) + k] = sf[k]
    /\ \A k \in 1 .. Len(sa) : out[ScalefactorEnd(raw, h) + k] = sa[k]
    /\ \A k \in SampleEnd(raw, h) + 1 .. h.size : out[k] = raw[k]

LEMMA Places ==
  ASSUME NEW S, NEW x \in Seq(S), NEW y \in Seq(S), NEW n, n = Len(x), NEW m, m = n + Len(y)
  PROVE  /\ x \o y \in Seq(S) /\ Len(x \o y) = m
         /\ \A k \in 1 .. n : (x \o y)[k] = x[k]
         /\ \A k \in n + 1 .. m : (x \o y)[k] = y[k - n]
<1>1. n \in Nat /\ Len(y) \in Nat
  OBVIOUS
<1>2. /\ x \o y \in Seq(S) /\ Len(x \o y) = Len(x) + Len(y)
      /\ \A k \in 1 .. Len(x) : (x \o y)[k] = x[k]
      /\ \A k \in 1 .. Len(y) : (x \o y)[Len(x) + k] = y[k]
  BY SeqJoined
<1>3. ASSUME NEW k \in n + 1 .. m
      PROVE  (x \o y)[k] = y[k - n]
  <2>1. k - n \in 1 .. Len(y) /\ n + (k - n) = k
    BY <1>1
  <2>2. (x \o y)[n + (k - n)] = y[k - n]
    BY <1>2, <2>1
  <2> QED BY <2>1, <2>2
<1> QED BY <1>2, <1>3

\* The cells of the allocation, each from the first field that uses it.
AllocSeq(h, alloc) ==
    [k \in 1 .. AllocCells(h) |-> alloc[Min({i \in DOMAIN alloc : AllocCell(h, i) = k})]]

LEMMA AllocWritten ==
  ASSUME NEW h \in Headers, NEW raw \in Seq(Cell), Len(raw) = h.size
  PROVE  /\ AllocSeq(h, AllocOf(raw, h)) \in Seq(Cell)
         /\ Len(AllocSeq(h, AllocOf(raw, h))) = AllocCells(h)
         /\ \A k \in 1 .. AllocCells(h) : AllocSeq(h, AllocOf(raw, h))[k] = raw[AllocStart(h) + k]
<1> DEFINE n == AllocCells(h)
           al == AllocSeq(h, AllocOf(raw, h))
<1>1. n \in Nat /\ AllocStart(h) \in Nat /\ AllocStart(h) + n < h.size /\ h.size \in Nat
  BY AllocCellsUsed, HeaderTyped
<1>2. ASSUME NEW k \in 1 .. n
      PROVE  al[k] = raw[AllocStart(h) + k] /\ raw[AllocStart(h) + k] \in Cell
  <2> DEFINE T == {i \in Indices(h) : AllocCell(h, i) = k}
  <2>1. T \subseteq Nat /\ T # {}
    <3>1. \E i \in Indices(h) : AllocCell(h, i) = k
      BY AllocCellsUsed DEF Indices
    <3>2. Indices(h) \subseteq Nat
      BY DEF Indices
    <3> QED BY <3>1, <3>2
  <2>2. Min(T) \in T
    <3> HIDE DEF T
    <3>1. PICK i \in T : \A j \in T : i <= j
      BY ONLY <2>1, LeastNumber
    <3> QED BY <3>1 DEF Min
  <2>3. al[k] = AllocOf(raw, h)[Min({i \in DOMAIN AllocOf(raw, h) : AllocCell(h, i) = k})]
    BY DEF AllocSeq
  <2>4. DOMAIN AllocOf(raw, h) = Indices(h)
    BY DEF AllocOf
  <2>5. al[k] = AllocOf(raw, h)[Min(T)]
    BY <2>3, <2>4
  <2> DEFINE i == Min(T)
  <2>6. i \in Indices(h) /\ AllocCell(h, i) = k
    BY <2>2
  <2> HIDE DEF T, al, i
  <2>7. AllocOf(raw, h)[i] = raw[AllocStart(h) + k]
    BY <2>6 DEF AllocOf
  <2>8. AllocStart(h) + k \in 1 .. Len(raw)
    BY <1>1
  <2> QED BY <2>5, <2>7, <2>8 DEF i
<1>3. al = [k \in 1 .. n |-> al[k]]
  BY DEF AllocSeq
<1>4. \A k \in 1 .. n : al[k] \in Cell
  BY <1>2
<1> HIDE DEF al, n
<1>5. al \in Seq(Cell) /\ Len(al) = n
  BY ONLY SMTT(20), <1>1, <1>3, <1>4
<1> QED BY <1>2, <1>5 DEF al, n

LEMMA WrittenIs ==
  ASSUME NEW raw, NEW h, IsFrame(raw, h),
         NEW sf \in ScalefactorSeqs(raw, h), NEW sa \in SampleSeqs(raw, h)
  PROVE  Written(raw, h, sf, sa, Write(Valued(raw, h, sf, sa)))
<1> DEFINE head == SubSeq(raw, 1, AllocStart(h))
           al == AllocSeq(h, AllocOf(raw, h))
           sc == ScfsiOf(raw, h)
           tail == SubSeq(raw, SampleEnd(raw, h) + 1, h.size)
           w1 == head \o al
           w2 == w1 \o sc
           w3 == w2 \o sf
           w4 == w3 \o sa
           w5 == w4 \o tail
           a == AllocStart(h)
           b == AllocEnd(h)
           c == ScfsiEnd(raw, h)
           d == ScalefactorEnd(raw, h)
           e == SampleEnd(raw, h)
           z == h.size
<1>1. Write(Valued(raw, h, sf, sa)) = w5
  BY DEF Write, Valued, Frame, AllocSeq
<1>2. /\ h \in Headers /\ raw \in Seq(Cell) /\ Len(raw) = z
  BY FrameEnds
<1>3. /\ a \in Nat /\ b \in Nat /\ c \in Nat /\ d \in Nat /\ e \in Nat /\ z \in Nat
      /\ a <= b /\ b <= c /\ c <= d /\ d <= e /\ e <= z /\ b = a + AllocCells(h)
      /\ AllocCells(h) \in Nat
  <2>1. a \in Nat /\ b \in Nat /\ c \in Nat /\ d \in Nat /\ e \in Nat /\ z \in Nat
    BY FrameEnds
  <2>2. b <= c /\ c <= d /\ d <= e /\ e <= z
    BY FrameEnds
  <2>3. b = a + AllocCells(h) /\ AllocCells(h) \in Nat
    BY FrameEnds
  <2> HIDE DEF a, b, c, d, e, z
  <2> QED BY <2>1, <2>2, <2>3
<1>4. sc = SubSeq(raw, b + 1, c)
  BY DEF ScfsiOf
<1>5. sf \in Seq(Cell) /\ Len(sf) = d - c /\ sa \in Seq(Cell) /\ Len(sa) = e - d
  BY DEF ScalefactorSeqs, SampleSeqs, Of
<1>6. al \in Seq(Cell) /\ Len(al) = AllocCells(h) /\ \A k \in 1 .. AllocCells(h) : al[k] = raw[a + k]
  BY <1>2, AllocWritten
<1> HIDE DEF a, b, c, d, e, z, al, sc
<1>7. head \in Seq(Cell) /\ Len(head) = a /\ \A k \in 1 .. a : head[k] = raw[k]
  <2>1. /\ SubSeq(raw, 1, a) \in Seq(Cell) /\ Len(SubSeq(raw, 1, a)) = a - 1 + 1
        /\ \A k \in 1 .. a - 1 + 1 : SubSeq(raw, 1, a)[k] = raw[1 + k - 1]
    BY <1>2, <1>3, SeqSlice
  <2>2. head = SubSeq(raw, 1, a)
    BY DEF a
  <2> HIDE DEF head
  <2> QED BY <1>3, <2>1, <2>2
<1>8. sc \in Seq(Cell) /\ Len(sc) = c - b /\ \A k \in 1 .. c - b : sc[k] = raw[b + k]
  <2>1. /\ SubSeq(raw, b + 1, c) \in Seq(Cell) /\ Len(SubSeq(raw, b + 1, c)) = c - (b + 1) + 1
        /\ \A k \in 1 .. c - (b + 1) + 1 : SubSeq(raw, b + 1, c)[k] = raw[(b + 1) + k - 1]
    BY SMTT(20), <1>2, <1>3, SeqSlice
  <2>2. c - (b + 1) + 1 = c - b
    BY <1>3
  <2>3. \A k \in 1 .. c - b : (b + 1) + k - 1 = b + k
    BY <1>3
  <2>4. sc \in Seq(Cell) /\ Len(sc) = c - b /\ \A k \in 1 .. c - b : sc[k] = raw[(b + 1) + k - 1]
    BY <1>4, <2>1, <2>2
  <2> QED BY ONLY <2>3, <2>4
<1>9. tail \in Seq(Cell) /\ Len(tail) = z - e /\ \A k \in 1 .. z - e : tail[k] = raw[e + k]
  <2>1. /\ SubSeq(raw, e + 1, z) \in Seq(Cell) /\ Len(SubSeq(raw, e + 1, z)) = z - (e + 1) + 1
        /\ \A k \in 1 .. z - (e + 1) + 1 : SubSeq(raw, e + 1, z)[k] = raw[(e + 1) + k - 1]
    BY <1>2, <1>3, SeqSlice
  <2>2. tail = SubSeq(raw, e + 1, z)
    BY DEF e, z
  <2> HIDE DEF tail
  <2> QED BY <1>3, <2>1, <2>2
<1> HIDE DEF head, tail
<1>10. /\ w1 \in Seq(Cell) /\ Len(w1) = b
       /\ \A k \in 1 .. a : w1[k] = head[k]
       /\ \A k \in a + 1 .. b : w1[k] = al[k - a]
  BY ONLY <1>3, <1>6, <1>7, Places
<1> HIDE DEF w1
<1>11. /\ w2 \in Seq(Cell) /\ Len(w2) = c
       /\ \A k \in 1 .. b : w2[k] = w1[k]
       /\ \A k \in b + 1 .. c : w2[k] = sc[k - b]
  <2>1. c = b + Len(sc)
    BY <1>3, <1>8
  <2>2. w1 \in Seq(Cell) /\ sc \in Seq(Cell) /\ b = Len(w1)
    BY <1>8, <1>10
  <2> QED BY ONLY <2>1, <2>2, Places
<1> HIDE DEF w2
<1>12. /\ w3 \in Seq(Cell) /\ Len(w3) = d
       /\ \A k \in 1 .. c : w3[k] = w2[k]
       /\ \A k \in c + 1 .. d : w3[k] = sf[k - c]
  <2>1. d = c + Len(sf)
    BY <1>3, <1>5
  <2>2. w2 \in Seq(Cell) /\ sf \in Seq(Cell) /\ c = Len(w2)
    BY <1>5, <1>11
  <2> QED BY ONLY <2>1, <2>2, Places
<1> HIDE DEF w3
<1>13. /\ w4 \in Seq(Cell) /\ Len(w4) = e
       /\ \A k \in 1 .. d : w4[k] = w3[k]
       /\ \A k \in d + 1 .. e : w4[k] = sa[k - d]
  <2>1. e = d + Len(sa)
    BY <1>3, <1>5
  <2>2. w3 \in Seq(Cell) /\ sa \in Seq(Cell) /\ d = Len(w3)
    BY <1>5, <1>12
  <2> QED BY ONLY <2>1, <2>2, Places
<1> HIDE DEF w4
<1>14. /\ w5 \in Seq(Cell) /\ Len(w5) = z
       /\ \A k \in 1 .. e : w5[k] = w4[k]
       /\ \A k \in e + 1 .. z : w5[k] = tail[k - e]
  <2>1. z = e + Len(tail)
    BY <1>3, <1>9
  <2>2. w4 \in Seq(Cell) /\ tail \in Seq(Cell) /\ e = Len(w4)
    BY <1>9, <1>13
  <2> QED BY ONLY <2>1, <2>2, Places
<1> HIDE DEF w5
<1>15. ASSUME NEW k \in 1 .. c
       PROVE  w5[k] = raw[k]
  <2>1. k \in 1 .. e /\ k \in 1 .. d /\ k \in 1 .. c
    BY <1>3
  <2>2. w5[k] = w2[k]
    BY <1>12, <1>13, <1>14, <2>1
  <2>3. CASE k <= a
    <3>1. k \in 1 .. a /\ k \in 1 .. b
      BY <1>3, <2>3
    <3> QED BY <1>7, <1>10, <1>11, <2>2, <3>1
  <2>4. CASE k > a /\ k <= b
    <3>1. k \in 1 .. b /\ k \in a + 1 .. b /\ k - a \in 1 .. AllocCells(h) /\ a + (k - a) = k
      BY <1>3, <2>4
    <3>2. al[k - a] = raw[a + (k - a)]
      BY <1>6, <3>1
    <3> QED BY <1>10, <1>11, <2>2, <3>1, <3>2
  <2>5. CASE k > b
    <3>1. k \in b + 1 .. c /\ k - b \in 1 .. c - b /\ b + (k - b) = k
      BY <1>3, <2>5
    <3>2. sc[k - b] = raw[b + (k - b)]
      BY <1>8, <3>1
    <3> QED BY <1>11, <2>2, <3>1, <3>2
  <2> QED BY <1>3, <2>3, <2>4, <2>5
<1>16. ASSUME NEW k \in 1 .. Len(sf)
       PROVE  w5[c + k] = sf[k]
  <2>1. c + k \in 1 .. e /\ c + k \in 1 .. d /\ c + k \in c + 1 .. d /\ (c + k) - c = k
    BY <1>3, <1>5
  <2>2. w5[c + k] = sf[(c + k) - c]
    BY <1>12, <1>13, <1>14, <2>1
  <2> QED BY <2>1, <2>2
<1>17. ASSUME NEW k \in 1 .. Len(sa)
       PROVE  w5[d + k] = sa[k]
  <2>1. d + k \in 1 .. e /\ d + k \in d + 1 .. e /\ (d + k) - d = k
    BY <1>3, <1>5
  <2>2. w5[d + k] = sa[(d + k) - d]
    BY <1>13, <1>14, <2>1
  <2> QED BY <2>1, <2>2
<1>18. ASSUME NEW k \in e + 1 .. z
       PROVE  w5[k] = raw[k]
  <2>1. k - e \in 1 .. z - e /\ e + (k - e) = k
    BY <1>3
  <2>2. tail[k - e] = raw[e + (k - e)]
    BY <1>9, <2>1
  <2> QED BY <1>14, <2>1, <2>2
<1> QED BY <1>1, <1>14, <1>15, <1>16, <1>17, <1>18 DEF Written, c, d, e, z

\* Parsed again, a variant is itself.
LEMMA Reparsed ==
  ASSUME NEW raw, NEW h, IsFrame(raw, h),
         NEW sf \in ScalefactorSeqs(raw, h), NEW sa \in SampleSeqs(raw, h),
         NEW out, Written(raw, h, sf, sa, out)
  PROVE  IsFrame(out, h) /\ Parse(out, h) = Valued(raw, h, sf, sa)
<1> DEFINE a == AllocStart(h)
           c == ScfsiEnd(raw, h)
           d == ScalefactorEnd(raw, h)
           e == SampleEnd(raw, h)
           z == h.size
<1>1. h \in Headers /\ raw \in Seq(Cell) /\ Len(raw) = z /\ Verdict(raw, h) = "frame"
  BY DEF IsFrame
<1>2. /\ a \in Nat /\ c \in Nat /\ d \in Nat /\ e \in Nat /\ z \in Nat
      /\ a <= c /\ c <= d /\ d <= e /\ e <= z
  <2>1. a \in Nat /\ c \in Nat /\ d \in Nat /\ e \in Nat /\ z \in Nat
    BY FrameEnds
  <2>2. AllocEnd(h) \in Nat /\ AllocEnd(h) = a + AllocCells(h) /\ AllocCells(h) \in Nat
    BY FrameEnds
  <2>3. AllocEnd(h) <= c /\ c <= d /\ d <= e /\ e <= z
    BY FrameEnds
  <2> HIDE DEF a, c, d, e, z
  <2> QED BY <2>1, <2>2, <2>3
<1>3. /\ out \in Seq(Cell) /\ Len(out) = z
      /\ \A k \in 1 .. c : out[k] = raw[k]
      /\ \A k \in 1 .. Len(sf) : out[c + k] = sf[k]
      /\ \A k \in 1 .. Len(sa) : out[d + k] = sa[k]
      /\ \A k \in e + 1 .. z : out[k] = raw[k]
  BY DEF Written
<1>4. sf \in Seq(Cell) /\ Len(sf) = d - c /\ sa \in Seq(Cell) /\ Len(sa) = e - d
  BY DEF ScalefactorSeqs, SampleSeqs, Of
<1>5. /\ AllocOf(out, h) = AllocOf(raw, h) /\ ScfsiEnd(out, h) = c
      /\ Verdict(out, h) = "frame" /\ ScfsiOf(out, h) = ScfsiOf(raw, h)
      /\ ScalefactorEnd(out, h) = d /\ SampleEnd(out, h) = e
  <2>1. \A k \in 1 .. h.size : k <= ScfsiEnd(raw, h) => out[k] = raw[k]
    BY <1>2, <1>3
  <2>2. ScfsiEnd(raw, h) <= h.size
    BY <1>2
  <2>3. Len(out) = h.size /\ Len(raw) = h.size /\ out \in Seq(Cell)
    BY <1>1, <1>3
  <2>4. /\ AllocOf(out, h) = AllocOf(raw, h) /\ ScfsiEnd(out, h) = ScfsiEnd(raw, h)
        /\ Verdict(out, h) = Verdict(raw, h)
        /\ ScfsiEnd(raw, h) <= h.size =>
               /\ ScfsiOf(out, h) = ScfsiOf(raw, h)
               /\ ScalefactorEnd(out, h) = ScalefactorEnd(raw, h)
               /\ SampleEnd(out, h) = SampleEnd(raw, h)
    BY ONLY <1>1, <2>1, <2>3, SameGeometry
  <2> QED BY <1>1, <2>2, <2>4
<1>6. IsFrame(out, h)
  BY <1>1, <1>3, <1>5 DEF IsFrame
<1>7. Parse(out, h) = ParsedFrame(out, h)
  BY <1>6, ParsedVaries
<1>8. ParsedFrame(out, h)
      = Frame(h, "frame", SubSeq(out, 1, a), AllocOf(raw, h), ScfsiOf(raw, h),
              SubSeq(out, c + 1, d), SubSeq(out, d + 1, e), SubSeq(out, e + 1, z))
  BY <1>5 DEF ParsedFrame, Frame
<1> HIDE DEF a, c, d, e, z
<1>9. SubSeq(out, 1, a) = SubSeq(raw, 1, a)
  <2> DEFINE x == SubSeq(out, 1, a)
             y == SubSeq(raw, 1, a)
  <2>1. x \in Seq(Cell) /\ Len(x) = a - 1 + 1 /\ \A k \in 1 .. a - 1 + 1 : x[k] = out[1 + k - 1]
    BY <1>2, <1>3, SeqSlice
  <2>2. y \in Seq(Cell) /\ Len(y) = a - 1 + 1 /\ \A k \in 1 .. a - 1 + 1 : y[k] = raw[1 + k - 1]
    BY <1>1, <1>2, SeqSlice
  <2> HIDE DEF x, y
  <2>3. \A k \in 1 .. a - 1 + 1 : x[k] = y[k]
    <3> TAKE k \in 1 .. a - 1 + 1
    <3>1. 1 + k - 1 \in 1 .. c
      BY <1>2
    <3> QED BY <1>3, <2>1, <2>2, <3>1
  <2>4. x = y
    BY <2>1, <2>2, <2>3, SeqSame
  <2> QED BY <2>4 DEF x, y
<1>10. SubSeq(out, c + 1, d) = sf
  <2> DEFINE x == SubSeq(out, c + 1, d)
  <2>1. /\ x \in Seq(Cell) /\ Len(x) = d - (c + 1) + 1
        /\ \A k \in 1 .. d - (c + 1) + 1 : x[k] = out[(c + 1) + k - 1]
    BY <1>2, <1>3, SeqSlice
  <2> HIDE DEF x
  <2>2. Len(x) = Len(sf)
    BY <1>2, <1>4, <2>1
  <2>3. \A k \in 1 .. Len(x) : x[k] = sf[k]
    <3> TAKE k \in 1 .. Len(x)
    <3>1. k \in 1 .. d - (c + 1) + 1 /\ k \in 1 .. Len(sf) /\ (c + 1) + k - 1 = c + k
      BY <1>2, <1>4, <2>1
    <3> QED BY <1>3, <2>1, <3>1
  <2>4. x = sf
    BY <1>4, <2>1, <2>2, <2>3, SeqSame
  <2> QED BY <2>4 DEF x
<1>11. SubSeq(out, d + 1, e) = sa
  <2> DEFINE x == SubSeq(out, d + 1, e)
  <2>1. /\ x \in Seq(Cell) /\ Len(x) = e - (d + 1) + 1
        /\ \A k \in 1 .. e - (d + 1) + 1 : x[k] = out[(d + 1) + k - 1]
    BY <1>2, <1>3, SeqSlice
  <2> HIDE DEF x
  <2>2. Len(x) = Len(sa)
    BY <1>2, <1>4, <2>1
  <2>3. \A k \in 1 .. Len(x) : x[k] = sa[k]
    <3> TAKE k \in 1 .. Len(x)
    <3>1. k \in 1 .. e - (d + 1) + 1 /\ k \in 1 .. Len(sa) /\ (d + 1) + k - 1 = d + k
      BY <1>2, <1>4, <2>1
    <3> QED BY <1>3, <2>1, <3>1
  <2>4. x = sa
    BY <1>4, <2>1, <2>2, <2>3, SeqSame
  <2> QED BY <2>4 DEF x
<1>12. SubSeq(out, e + 1, z) = SubSeq(raw, e + 1, z)
  <2> DEFINE x == SubSeq(out, e + 1, z)
             y == SubSeq(raw, e + 1, z)
  <2>1. /\ x \in Seq(Cell) /\ Len(x) = z - (e + 1) + 1
        /\ \A k \in 1 .. z - (e + 1) + 1 : x[k] = out[(e + 1) + k - 1]
    BY <1>2, <1>3, SeqSlice
  <2>2. /\ y \in Seq(Cell) /\ Len(y) = z - (e + 1) + 1
        /\ \A k \in 1 .. z - (e + 1) + 1 : y[k] = raw[(e + 1) + k - 1]
    BY <1>1, <1>2, SeqSlice
  <2> HIDE DEF x, y
  <2>3. \A k \in 1 .. z - (e + 1) + 1 : x[k] = y[k]
    <3> TAKE k \in 1 .. z - (e + 1) + 1
    <3>1. (e + 1) + k - 1 \in e + 1 .. z
      BY <1>2
    <3>2. out[(e + 1) + k - 1] = raw[(e + 1) + k - 1]
      BY <1>3, <3>1
    <3> QED BY <2>1, <2>2, <3>2
  <2>4. x = y
    BY <2>1, <2>2, <2>3, SeqSame
  <2> QED BY <2>4 DEF x, y
<1> QED BY <1>6, <1>7, <1>8, <1>9, <1>10, <1>11, <1>12 DEF Valued, a, c, d, e, z

\* A variant with the carrier's values is the carrier.
LEMMA WrittenUnchanged ==
  ASSUME NEW raw, NEW h, IsFrame(raw, h)
  PROVE  Write(ParsedFrame(raw, h)) = raw
<1>1. PICK v \in ScalefactorSeqs(raw, h) \X SampleSeqs(raw, h) :
          ParsedFrame(raw, h) = Valued(raw, h, v[1], v[2])
  BY ParsedVaries DEF Variants
<1> DEFINE sf == v[1]
           sa == v[2]
           c == ScfsiEnd(raw, h)
           d == ScalefactorEnd(raw, h)
           e == SampleEnd(raw, h)
           out == Write(ParsedFrame(raw, h))
<1>2. sf \in ScalefactorSeqs(raw, h) /\ sa \in SampleSeqs(raw, h)
  OBVIOUS
<1>3. Written(raw, h, sf, sa, out)
  BY <1>1, <1>2, WrittenIs
<1>4. sf = SubSeq(raw, c + 1, d) /\ sa = SubSeq(raw, d + 1, e)
  BY <1>1 DEF ParsedFrame, Valued, Frame
<1> HIDE DEF sf, sa, out
<1>5. /\ raw \in Seq(Cell) /\ Len(raw) = h.size /\ h.size \in Nat
      /\ c \in Nat /\ d \in Nat /\ e \in Nat
  BY FrameEnds
<1>6. c <= d /\ d <= e /\ e <= Len(raw)
  BY FrameEnds
<1> HIDE DEF c, d, e
<1>7. Len(sf) = d - (c + 1) + 1 /\ \A k \in 1 .. d - (c + 1) + 1 : sf[k] = raw[(c + 1) + k - 1]
  BY SMTT(20), <1>4, <1>5, <1>6, SeqSlice
<1>8. Len(sa) = e - (d + 1) + 1 /\ \A k \in 1 .. e - (d + 1) + 1 : sa[k] = raw[(d + 1) + k - 1]
  BY SMTT(20), <1>4, <1>5, <1>6, SeqSlice
<1>9. /\ out \in Seq(Cell) /\ Len(out) = Len(raw)
      /\ \A k \in 1 .. c : out[k] = raw[k]
      /\ \A k \in 1 .. Len(sf) : out[c + k] = sf[k]
      /\ \A k \in 1 .. Len(sa) : out[d + k] = sa[k]
      /\ \A k \in e + 1 .. Len(raw) : out[k] = raw[k]
  BY <1>3, <1>5 DEF Written, c, d, e
<1>10. \A k \in 1 .. Len(raw) : out[k] = raw[k]
  <2> TAKE k \in 1 .. Len(raw)
  <2>1. CASE k <= c
    BY <1>5, <1>9, <2>1
  <2>2. CASE k > c /\ k <= d
    <3> DEFINE i == k - c
    <3>1. i \in 1 .. d - (c + 1) + 1 /\ (c + 1) + i - 1 = k /\ c + i = k
      BY <1>5, <2>2
    <3> HIDE DEF i
    <3>2. sf[i] = raw[k] /\ out[k] = sf[i]
      BY <1>7, <1>9, <3>1
    <3> QED BY <3>2
  <2>3. CASE k > d /\ k <= e
    <3> DEFINE i == k - d
    <3>1. i \in 1 .. e - (d + 1) + 1 /\ (d + 1) + i - 1 = k /\ d + i = k
      BY <1>5, <2>3
    <3> HIDE DEF i
    <3>2. sa[i] = raw[k] /\ out[k] = sa[i]
      BY <1>8, <1>9, <3>1
    <3> QED BY <3>2
  <2>4. CASE k > e
    BY <1>5, <1>9, <2>4
  <2>5. k <= c \/ (k > c /\ k <= d) \/ (k > d /\ k <= e) \/ k > e
    BY <1>5, <1>6
  <2> QED BY <2>1, <2>2, <2>3, <2>4, <2>5
<1>11. out = raw
  BY <1>5, <1>9, <1>10, SeqSame
<1> QED BY <1>11 DEF out

\* Values moved within their ranges.
Shift(x, by, rs) == [i \in DOMAIN x |-> Shifted(x[i], by, rs[i])]
Within(x, rs) == \A i \in DOMAIN x : x[i] < rs[i]

LEMMA ShiftTyped ==
  ASSUME NEW x \in Seq(Cell), NEW rs, \A i \in 1 .. Len(x) : rs[i] \in Span, NEW by \in Int
  PROVE  /\ Shift(x, by, rs) \in Seq(Cell) /\ Len(Shift(x, by, rs)) = Len(x)
         /\ Within(Shift(x, by, rs), rs)
         /\ Within(x, rs) => Shift(Shift(x, by, rs), -by, rs) = x
<1> DEFINE n == Len(x)
           y == Shift(x, by, rs)
           w == Shift(y, -by, rs)
<1>1. n \in Nat /\ DOMAIN x = 1 .. n /\ \A i \in 1 .. n : x[i] \in Cell
  OBVIOUS
<1>2. ASSUME NEW i \in 1 .. n
      PROVE  /\ Shifted(x[i], by, rs[i]) \in 0 .. rs[i] - 1 /\ Shifted(x[i], by, rs[i]) \in Cell
             /\ rs[i] \in Nat
  <2>1. x[i] \in Int /\ rs[i] \in Span
    BY <1>1 DEF Cell
  <2>2. rs[i] \in Nat
    BY <2>1 DEF Span
  <2> QED BY <2>1, <2>2, ShiftedIn
<1>3. y = [i \in 1 .. n |-> Shifted(x[i], by, rs[i])]
  BY <1>1 DEF Shift
<1>4. y \in [1 .. n -> Cell] /\ \A i \in 1 .. n : y[i] = Shifted(x[i], by, rs[i])
  BY <1>2, <1>3
<1> HIDE DEF y, n
<1>5. y \in Seq(Cell) /\ Len(y) = n
  BY <1>1, <1>4
<1>6. Within(y, rs)
  <2> SUFFICES ASSUME NEW i \in 1 .. n PROVE y[i] < rs[i]
    BY <1>4 DEF Within
  <2>1. y[i] \in 0 .. rs[i] - 1 /\ rs[i] \in Nat
    BY <1>2, <1>4
  <2> QED BY <2>1
<1>7. ASSUME Within(x, rs)
      PROVE  w = x
  <2>1. ASSUME NEW i \in 1 .. n
        PROVE  Shifted(y[i], -by, rs[i]) = x[i]
    <3>1. x[i] < rs[i] /\ x[i] \in Nat /\ rs[i] \in Nat /\ rs[i] \in Span
      BY <1>1, <1>2, <1>7 DEF Within, Cell, n
    <3>2. x[i] \in 0 .. rs[i] - 1
      BY <3>1
    <3>3. Shifted(Shifted(x[i], by, rs[i]), -by, rs[i]) = x[i]
      BY <3>1, <3>2, ShiftedBack
    <3> QED BY <1>4, <3>3
  <2>2. w = [i \in 1 .. n |-> x[i]]
    BY <1>4, <2>1 DEF Shift
  <2>3. x = [i \in 1 .. n |-> x[i]]
    BY <1>1
  <2> QED BY <2>2, <2>3
<1> QED BY <1>5, <1>6, <1>7 DEF y, n

\* The ranges of a variant's values.
SampleRanges(raw, h) == SpansOf(h, AllocOf(raw, h))
ScalefactorRanges(sf) == [i \in 1 .. Len(sf) |-> ScalefactorLevels]

LEMMA VariantRanges ==
  ASSUME NEW raw, NEW h, IsFrame(raw, h),
         NEW sf \in ScalefactorSeqs(raw, h), NEW sa \in SampleSeqs(raw, h)
  PROVE  /\ sf \in Seq(Cell) /\ sa \in Seq(Cell)
         /\ Ranges(Valued(raw, h, sf, sa), "samples") = SampleRanges(raw, h)
         /\ Ranges(Valued(raw, h, sf, sa), "scalefactors") = ScalefactorRanges(sf)
         /\ \A i \in 1 .. Len(sa) : SampleRanges(raw, h)[i] \in Span
<1>1. sf \in Seq(Cell) /\ sa \in Seq(Cell) /\ Len(sa) = SampleEnd(raw, h) - ScalefactorEnd(raw, h)
  BY DEF ScalefactorSeqs, SampleSeqs, Of
<1>2. Ranges(Valued(raw, h, sf, sa), "samples") = SampleRanges(raw, h)
  BY DEF Ranges, Spans, SpansOf, SampleRanges, Valued, Frame
<1>3. Ranges(Valued(raw, h, sf, sa), "scalefactors") = ScalefactorRanges(sf)
  BY <1>1 DEF Ranges, Valued, Frame, ScalefactorRanges
<1>4. SampleRanges(raw, h) \in Seq(Span)
  <2>1. h.sblimit * h.channels \in Nat /\ AllocOf(raw, h) \in [1 .. h.sblimit * h.channels -> Cell]
    BY AllocTyped DEF IsFrame
  <2> QED BY <2>1, SpansTyped DEF SampleRanges
<1>5. Len(sa) = Len(SampleRanges(raw, h))
  <2>1. ScalefactorEnd(raw, h) \in Nat
    BY FrameEnds
  <2>2. Len(SampleRanges(raw, h)) \in Nat
    BY <1>4
  <2> QED BY <1>1, <2>1, <2>2 DEF SampleEnd, SampleRanges
<1>6. \A i \in 1 .. Len(sa) : SampleRanges(raw, h)[i] \in Span
  BY <1>4, <1>5
<1> QED BY <1>1, <1>2, <1>3, <1>6

\* One layer, by a shift that is the keystream's or its opposite.
Layered(f, x, b) == [f EXCEPT ![x] = [i \in DOMAIN @ |-> Shifted(@[i], b, Ranges(f, x)[i])]]

LEMMA OtherSamples ==
  ASSUME NEW h, NEW v, NEW head, NEW alloc, NEW scfsi, NEW scalefactors, NEW samples, NEW tail, NEW w
  PROVE  [Frame(h, v, head, alloc, scfsi, scalefactors, samples, tail) EXCEPT !["samples"] = w]
         = Frame(h, v, head, alloc, scfsi, scalefactors, w, tail)
BY DEF Frame

LEMMA OtherScalefactors ==
  ASSUME NEW h, NEW v, NEW head, NEW alloc, NEW scfsi, NEW scalefactors, NEW samples, NEW tail, NEW w
  PROVE  [Frame(h, v, head, alloc, scfsi, scalefactors, samples, tail) EXCEPT !["scalefactors"] = w]
         = Frame(h, v, head, alloc, scfsi, w, samples, tail)
BY DEF Frame

LEMMA SamplesLayer ==
  ASSUME NEW raw, NEW h, IsFrame(raw, h), NEW b \in Int,
         NEW sf \in ScalefactorSeqs(raw, h), NEW sa \in SampleSeqs(raw, h)
  PROVE  /\ Layered(Valued(raw, h, sf, sa), "samples", b)
            = Valued(raw, h, sf, Shift(sa, b, SampleRanges(raw, h)))
         /\ Shift(sa, b, SampleRanges(raw, h)) \in SampleSeqs(raw, h)
         /\ InRange(Valued(raw, h, sf, sa), "samples") <=> Within(sa, SampleRanges(raw, h))
<1> DEFINE f == Valued(raw, h, sf, sa)
           rs == SampleRanges(raw, h)
           w == Shift(sa, b, rs)
<1>1. f = Frame(h, "frame", SubSeq(raw, 1, AllocStart(h)), AllocOf(raw, h), ScfsiOf(raw, h), sf, sa,
                SubSeq(raw, SampleEnd(raw, h) + 1, h.size))
  BY DEF Valued
<1>2. Ranges(f, "samples") = rs /\ sa \in Seq(Cell) /\ \A i \in 1 .. Len(sa) : rs[i] \in Span
  BY VariantRanges
<1>3. f["samples"] = sa
  BY <1>1 DEF Frame
<1> HIDE DEF rs
<1>4. InRange(f, "samples") <=> Within(sa, rs)
  <2> HIDE DEF f
  <2> QED BY <1>2, <1>3 DEF InRange, Within
<1>5. w \in SampleSeqs(raw, h)
  <2>1. w \in Seq(Cell) /\ Len(w) = Len(sa)
    BY <1>2, ShiftTyped
  <2> QED BY <2>1 DEF SampleSeqs, Of
<1>6. Layered(f, "samples", b) = Valued(raw, h, sf, w)
  <2>1. Layered(f, "samples", b)
        = [f EXCEPT !["samples"] = [i \in DOMAIN f["samples"] |-> Shifted(f["samples"][i], b, rs[i])]]
    BY <1>2 DEF Layered
  <2>2. Layered(f, "samples", b) = [f EXCEPT !["samples"] = w]
    BY <1>3, <2>1 DEF Shift
  <2> HIDE DEF w
  <2>3. [f EXCEPT !["samples"] = w] = Valued(raw, h, sf, w)
    BY ONLY <1>1, OtherSamples DEF Valued
  <2> QED BY <2>2, <2>3
<1> QED BY <1>4, <1>5, <1>6 DEF rs

LEMMA ScalefactorRangesTyped ==
  ASSUME NEW sf \in Seq(Cell)
  PROVE  \A i \in 1 .. Len(sf) : ScalefactorRanges(sf)[i] \in Span
BY DEF Span, Sync, ScalefactorLevels, ScalefactorRanges

LEMMA ScalefactorsLayer ==
  ASSUME NEW raw, NEW h, IsFrame(raw, h), NEW b \in Int,
         NEW sf \in ScalefactorSeqs(raw, h), NEW sa \in SampleSeqs(raw, h)
  PROVE  /\ Layered(Valued(raw, h, sf, sa), "scalefactors", b)
            = Valued(raw, h, Shift(sf, b, ScalefactorRanges(sf)), sa)
         /\ Shift(sf, b, ScalefactorRanges(sf)) \in ScalefactorSeqs(raw, h)
         /\ InRange(Valued(raw, h, sf, sa), "scalefactors") <=> Within(sf, ScalefactorRanges(sf))
<1> DEFINE f == Valued(raw, h, sf, sa)
           rs == ScalefactorRanges(sf)
           w == Shift(sf, b, rs)
<1>1. f = Frame(h, "frame", SubSeq(raw, 1, AllocStart(h)), AllocOf(raw, h), ScfsiOf(raw, h), sf, sa,
                SubSeq(raw, SampleEnd(raw, h) + 1, h.size))
  BY DEF Valued
<1>2. Ranges(f, "scalefactors") = rs /\ sf \in Seq(Cell) /\ \A i \in 1 .. Len(sf) : rs[i] \in Span
  <2>1. Ranges(f, "scalefactors") = rs /\ sf \in Seq(Cell)
    BY VariantRanges
  <2> QED BY <2>1, ScalefactorRangesTyped
<1>3. f["scalefactors"] = sf
  BY <1>1 DEF Frame
<1> HIDE DEF rs
<1>4. InRange(f, "scalefactors") <=> Within(sf, rs)
  <2> HIDE DEF f
  <2> QED BY <1>2, <1>3 DEF InRange, Within
<1>5. w \in ScalefactorSeqs(raw, h)
  <2>1. w \in Seq(Cell) /\ Len(w) = Len(sf)
    BY <1>2, ShiftTyped
  <2> QED BY <2>1 DEF ScalefactorSeqs, Of
<1>6. Layered(f, "scalefactors", b) = Valued(raw, h, w, sa)
  <2>1. Layered(f, "scalefactors", b)
        = [f EXCEPT !["scalefactors"] = [i \in DOMAIN f["scalefactors"] |-> Shifted(f["scalefactors"][i], b, rs[i])]]
    BY <1>2 DEF Layered
  <2>2. Layered(f, "scalefactors", b) = [f EXCEPT !["scalefactors"] = w]
    BY <1>3, <2>1 DEF Shift
  <2> HIDE DEF w
  <2>3. [f EXCEPT !["scalefactors"] = w] = Valued(raw, h, w, sa)
    BY ONLY <1>1, OtherScalefactors DEF Valued
  <2> QED BY <2>2, <2>3
<1> QED BY <1>4, <1>5, <1>6 DEF rs

\* A layer puts its values into their ranges and keeps the others in theirs;
\* undone, it gives back what was within them.
LEMMA LayerUndone ==
  ASSUME NEW raw, NEW h, IsFrame(raw, h), NEW f \in Variants(raw, h),
         NEW x \in Features, NEW b \in Int
  PROVE  /\ Layered(f, x, b) \in Variants(raw, h)
         /\ InRange(Layered(f, x, b), x)
         /\ InRange(f, x) => Layered(Layered(f, x, b), x, -b) = f
         /\ \A y \in Features : InRange(f, y) => InRange(Layered(f, x, b), y)
<1>1. PICK v \in ScalefactorSeqs(raw, h) \X SampleSeqs(raw, h) : f = Valued(raw, h, v[1], v[2])
  BY DEF Variants
<1> DEFINE sf == v[1]
           sa == v[2]
           g == Layered(f, x, b)
<1>2. sf \in ScalefactorSeqs(raw, h) /\ sa \in SampleSeqs(raw, h) /\ f = Valued(raw, h, sf, sa)
  BY <1>1
<1> HIDE DEF sf, sa, g
<1>3. -b \in Int
  OBVIOUS
<1>4. \A p \in ScalefactorSeqs(raw, h), q \in SampleSeqs(raw, h) : Valued(raw, h, p, q) \in Variants(raw, h)
  <2> TAKE p \in ScalefactorSeqs(raw, h), q \in SampleSeqs(raw, h)
  <2>1. <<p, q>> \in ScalefactorSeqs(raw, h) \X SampleSeqs(raw, h)
    OBVIOUS
  <2> QED BY <2>1 DEF Variants
<1>5. CASE x = "samples"
  <2> DEFINE rs == SampleRanges(raw, h)
             sb == Shift(sa, b, rs)
  <2>1. sa \in Seq(Cell) /\ \A i \in 1 .. Len(sa) : rs[i] \in Span
    BY <1>2, VariantRanges
  <2>2. g = Valued(raw, h, sf, sb) /\ sb \in SampleSeqs(raw, h)
    BY <1>2, <1>5, SamplesLayer DEF g
  <2> HIDE DEF rs
  <2>3. Within(sb, rs) /\ (Within(sa, rs) => Shift(sb, -b, rs) = sa)
    BY <2>1, ShiftTyped
  <2> HIDE DEF sb
  <2>4. InRange(g, x)
    BY <1>2, <1>5, <2>2, <2>3, SamplesLayer DEF rs
  <2>5. InRange(f, "scalefactors") => InRange(g, "scalefactors")
    <3>1. InRange(f, "scalefactors") <=> Within(sf, ScalefactorRanges(sf))
      BY <1>2, ScalefactorsLayer
    <3>2. InRange(g, "scalefactors") <=> Within(sf, ScalefactorRanges(sf))
      BY <1>2, <2>2, ScalefactorsLayer
    <3> QED BY <3>1, <3>2
  <2>6. InRange(f, x) => Layered(g, x, -b) = f
    <3>1. Layered(g, x, -b) = Valued(raw, h, sf, Shift(sb, -b, rs))
      BY <1>2, <1>3, <1>5, <2>2, SamplesLayer DEF rs
    <3>2. InRange(f, x) <=> Within(sa, rs)
      BY <1>2, <1>5, SamplesLayer DEF rs
    <3> QED BY <1>2, <2>3, <3>1, <3>2
  <2>7. g \in Variants(raw, h)
    BY <1>2, <1>4, <2>2
  <2> QED BY <1>5, <2>4, <2>5, <2>6, <2>7 DEF Features, g
<1>6. CASE x = "scalefactors"
  <2> DEFINE rs == ScalefactorRanges(sf)
             sb == Shift(sf, b, rs)
  <2>1. sf \in Seq(Cell) /\ \A i \in 1 .. Len(sf) : rs[i] \in Span
    <3>1. sf \in Seq(Cell)
      BY <1>2, VariantRanges
    <3> QED BY <3>1, ScalefactorRangesTyped
  <2>2. g = Valued(raw, h, sb, sa) /\ sb \in ScalefactorSeqs(raw, h)
    BY <1>2, <1>6, ScalefactorsLayer DEF g
  <2>3. ScalefactorRanges(sb) = rs
    <3>1. Len(sb) = Len(sf)
      BY <1>2, <2>2 DEF ScalefactorSeqs, Of
    <3> HIDE DEF sb
    <3> QED BY <3>1 DEF ScalefactorRanges
  <2> HIDE DEF rs
  <2>4. Within(sb, rs) /\ (Within(sf, rs) => Shift(sb, -b, rs) = sf)
    BY <2>1, ShiftTyped
  <2> HIDE DEF sb
  <2>5. InRange(g, x)
    BY <1>2, <1>6, <2>2, <2>3, <2>4, ScalefactorsLayer
  <2>6. InRange(f, "samples") => InRange(g, "samples")
    <3>1. InRange(f, "samples") <=> Within(sa, SampleRanges(raw, h))
      BY <1>2, SamplesLayer
    <3>2. InRange(g, "samples") <=> Within(sa, SampleRanges(raw, h))
      BY <1>2, <2>2, SamplesLayer
    <3> QED BY <3>1, <3>2
  <2>7. InRange(f, x) => Layered(g, x, -b) = f
    <3>1. Layered(g, x, -b) = Valued(raw, h, Shift(sb, -b, rs), sa)
      BY <1>2, <1>3, <1>6, <2>2, <2>3, ScalefactorsLayer
    <3>2. InRange(f, x) <=> Within(sf, rs)
      BY <1>2, <1>6, ScalefactorsLayer DEF rs
    <3> QED BY <1>2, <2>4, <3>1, <3>2
  <2>8. g \in Variants(raw, h)
    BY <1>2, <1>4, <2>2
  <2> QED BY <1>6, <2>5, <2>6, <2>7, <2>8 DEF Features, g
<1> QED BY <1>5, <1>6 DEF Features

\* The layers one after another.
LayersOver(f, p, order, index, forward) ==
    FoldLeft(LAMBDA u, x : TransformLayer(u, x, p[x][index], forward), f, order)

Laid(g, V, f, p, order, index, forward) ==
    /\ g \in [0 .. Len(order) -> V] /\ g[0] = f
    /\ \A k \in 1 .. Len(order) :
          g[k] = TransformLayer(g[k - 1], order[k], p[order[k]][index], forward)
    /\ LayersOver(f, p, order, index, forward) = g[Len(order)]

LayersStay(V, p, index, forward) ==
    \A u \in V, x \in Features : TransformLayer(u, x, p[x][index], forward) \in V

LEMMA LayerSteps ==
  ASSUME NEW V, NEW f \in V, NEW order \in Seq(Features), NEW p, NEW index, NEW forward,
         LayersStay(V, p, index, forward)
  PROVE  \E g : Laid(g, V, f, p, order, index, forward)
<1> DEFINE n == Len(order)
           Lay(u, x) == TransformLayer(u, x, p[x][index], forward)
           step == [q \in V \X (1 .. n) |-> Lay(q[1], order[q[2]])]
           iter[t \in SUBSET DOMAIN order] ==
               IF t = {} THEN f ELSE Lay(iter[t \ {Max(t)}], order[Max(t)])
<1>1. LayersOver(f, p, order, index, forward) = iter[DOMAIN order]
  BY DEF LayersOver, FoldLeft, MapThenFoldSet
<1>2. n \in Nat /\ DOMAIN order = 1 .. n /\ \A k \in 1 .. n : order[k] \in Features
  OBVIOUS
<1> HIDE DEF n
<1>3. \A u \in V, x \in Features : Lay(u, x) \in V
  BY DEF LayersStay
<1>a. \A u, x : Lay(u, x) = TransformLayer(u, x, p[x][index], forward)
  OBVIOUS
<1> HIDE DEF Lay
<1>4. step \in [V \X (1 .. n) -> V] /\ \A u \in V, k \in 1 .. n : step[<<u, k>>] = Lay(u, order[k])
  BY <1>2, <1>3
<1> HIDE DEF step
<1>5. PICK g : Steps(g, n, V, f, step)
  BY ONLY f \in V, <1>2, <1>4, StepRecursion
<1>6. PICK h : Unfolds(h, n, V, f, step)
  BY ONLY f \in V, <1>2, <1>4, FoldRecursion
<1>7. h = [t \in SUBSET DOMAIN order |-> IF t = {} THEN f ELSE Lay(h[t \ {Max(t)}], order[Max(t)])]
  <2>1. h \in [SUBSET (1 .. n) -> V]
    BY <1>6 DEF Unfolds
  <2>2. ASSUME NEW t \in SUBSET (1 .. n), t # {}
        PROVE  h[t] = Lay(h[t \ {Max(t)}], order[Max(t)])
    <3>1. Max(t) \in t
      BY <1>2, <2>2, BoundedMax
    <3>2. h[t] = step[<<h[t \ {Max(t)}], Max(t)>>]
      BY <1>6, <2>2 DEF Unfolds
    <3>3. h[t \ {Max(t)}] \in V
      BY <2>1
    <3> QED BY <1>4, <3>1, <3>2, <3>3
  <2>3. h[{}] = f
    BY <1>6 DEF Unfolds
  <2> QED BY <1>2, <2>1, <2>2, <2>3
<1>8. iter = [t \in SUBSET DOMAIN order |-> IF t = {} THEN f ELSE Lay(iter[t \ {Max(t)}], order[Max(t)])]
  BY <1>7
<1> HIDE DEF iter
<1>9. iter[{}] = f
  BY <1>2, <1>8
<1>10. FoldSteps(iter, n, V, step)
  <2> SUFFICES ASSUME NEW k \in 1 .. n, iter[1 .. k - 1] \in V
               PROVE  iter[1 .. k] = step[<<iter[1 .. k - 1], k>>]
    BY DEF FoldSteps
  <2>1. k \in Nat \ {0} /\ 1 .. k \in SUBSET (1 .. n)
    BY <1>2
  <2>2. 1 .. k # {} /\ Max(1 .. k) = k /\ (1 .. k) \ {Max(1 .. k)} = 1 .. k - 1
    BY <2>1, IntervalMax
  <2>3. iter[1 .. k] = Lay(iter[1 .. k - 1], order[k])
    BY <1>2, <1>8, <2>1, <2>2
  <2> QED BY <1>4, <2>3
<1>11. iter[1 .. n] = g[n]
  <2>1. \A k \in 0 .. n : iter[1 .. k] = g[k]
    BY ONLY <1>2, <1>5, <1>9, <1>10, FoldOfInterval
  <2> QED BY <1>2, <2>1
<1>12. /\ g \in [0 .. n -> V] /\ g[0] = f
       /\ \A k \in 1 .. n : g[k] = Lay(g[k - 1], order[k])
  <2>1. g \in [0 .. n -> V] /\ g[0] = f /\ \A k \in 1 .. n : g[k] = step[<<g[k - 1], k>>]
    BY <1>5 DEF Steps
  <2>2. \A k \in 1 .. n : g[k - 1] \in V
    BY <1>2, <2>1
  <2> QED BY <1>4, <2>1, <2>2
<1>13. Laid(g, V, f, p, order, index, forward)
  BY <1>1, <1>2, <1>a, <1>11, <1>12 DEF n, Laid
<1> QED BY <1>13

Forth(g, V, f, p, ls, index) ==
    /\ g \in [0 .. Len(ls) -> V] /\ g[0] = f /\ TransformFrame(f, p, ls, index, TRUE) = g[Len(ls)]
    /\ \A k \in 1 .. Len(ls) : g[k] = Layered(g[k - 1], ls[k], p[ls[k]][index])

Back(g, V, f, p, ls, index) ==
    /\ g \in [0 .. Len(ls) -> V] /\ g[0] = f /\ TransformFrame(f, p, ls, index, FALSE) = g[Len(ls)]
    /\ \A k \in 1 .. Len(ls) :
          g[k] = Layered(g[k - 1], ls[Len(ls) - k + 1], - p[ls[Len(ls) - k + 1]][index])

LEMMA TransformLayers ==
  ASSUME NEW V, NEW f \in V, NEW ls \in Seq(Features), NEW p, NEW index,
         \A u \in V, x \in Features : Layered(u, x, p[x][index]) \in V
  PROVE  \E g : Forth(g, V, f, p, ls, index)
<1>1. \A u, x : TransformLayer(u, x, p[x][index], TRUE) = Layered(u, x, p[x][index])
  BY DEF TransformLayer, Layered
<1>2. PICK g : Laid(g, V, f, p, ls, index, TRUE)
  <2>1. LayersStay(V, p, index, TRUE)
    BY <1>1 DEF LayersStay
  <2> QED BY <2>1, LayerSteps
<1>3. TransformFrame(f, p, ls, index, TRUE) = LayersOver(f, p, ls, index, TRUE)
  BY DEF TransformFrame, LayersOver
<1>4. \A k \in 1 .. Len(ls) : g[k] = Layered(g[k - 1], ls[k], p[ls[k]][index])
  BY <1>1, <1>2 DEF Laid
<1>5. Forth(g, V, f, p, ls, index)
  BY <1>2, <1>3, <1>4 DEF Laid, Forth
<1> QED BY <1>5

LEMMA TransformLayersBack ==
  ASSUME NEW V, NEW f \in V, NEW ls \in Seq(Features), NEW p, NEW index,
         \A u \in V, x \in Features : Layered(u, x, - p[x][index]) \in V
  PROVE  \E g : Back(g, V, f, p, ls, index)
<1> DEFINE n == Len(ls)
           order == Reverse(ls)
<1>0. n \in Nat
  OBVIOUS
<1>1. \A u, x : TransformLayer(u, x, p[x][index], FALSE) = Layered(u, x, - p[x][index])
  BY DEF TransformLayer, Layered
<1>2. order \in Seq(Features) /\ Len(order) = n /\ \A k \in 1 .. n : order[k] = ls[n - k + 1]
  BY DEF Reverse
<1>3. TransformFrame(f, p, ls, index, FALSE) = LayersOver(f, p, order, index, FALSE)
  BY DEF TransformFrame, LayersOver
<1> HIDE DEF order
<1>4. PICK g : Laid(g, V, f, p, order, index, FALSE)
  <2>1. LayersStay(V, p, index, FALSE)
    BY <1>1 DEF LayersStay
  <2> QED BY <1>2, <2>1, LayerSteps
<1>5. \A k \in 1 .. n : g[k] = Layered(g[k - 1], ls[n - k + 1], - p[ls[n - k + 1]][index])
  <2> TAKE k \in 1 .. n
  <2>1. order[k] = ls[n - k + 1] /\ Len(order) = n
    BY <1>2
  <2>2. g[k] = TransformLayer(g[k - 1], order[k], p[order[k]][index], FALSE)
    BY <1>4, <2>1 DEF Laid
  <2> QED BY <1>1, <2>1, <2>2
<1>6. Back(g, V, f, p, ls, index)
  BY <1>2, <1>3, <1>4, <1>5 DEF Laid, Back
<1> QED BY <1>6


\* A frame's layers, done and undone.
Keys(p, index) == \A x \in Features : p[x][index] \in Int
AllInRange(f, ls) == \A l \in 1 .. Len(ls) : InRange(f, ls[l])

LEMMA FrameLocked ==
  ASSUME NEW raw, NEW h, IsFrame(raw, h), NEW f \in Variants(raw, h),
         NEW p, NEW index, Keys(p, index), NEW ls \in Seq(Features)
  PROVE  /\ TransformFrame(f, p, ls, index, TRUE) \in Variants(raw, h)
         /\ TransformFrame(f, p, ls, index, FALSE) \in Variants(raw, h)
         /\ AllInRange(TransformFrame(f, p, ls, index, TRUE), ls)
         /\ AllInRange(f, ls)
            => TransformFrame(TransformFrame(f, p, ls, index, TRUE), p, ls, index, FALSE) = f
<1> DEFINE V == Variants(raw, h)
           n == Len(ls)
           e == TransformFrame(f, p, ls, index, TRUE)
           by(k) == p[ls[k]][index]
<1>0. n \in Nat /\ \A k \in 1 .. n : ls[k] \in Features
  OBVIOUS
<1>1. \A k \in 1 .. n : by(k) \in Int
  BY <1>0 DEF Keys
<1> HIDE DEF by
<1>2. \A u \in V, x \in Features, b \in Int : Layered(u, x, b) \in V /\ InRange(Layered(u, x, b), x)
  BY LayerUndone
<1>b. \A u \in V, x \in Features, b \in Int : InRange(u, x) => Layered(Layered(u, x, b), x, -b) = u
  BY LayerUndone
<1>c. \A u \in V, x \in Features, b \in Int :
         \A y \in Features : InRange(u, y) => InRange(Layered(u, x, b), y)
  BY LayerUndone
<1> HIDE DEF V
<1>3. \A u \in V, x \in Features : Layered(u, x, p[x][index]) \in V
  BY <1>2 DEF Keys
<1>4. \A u \in V, x \in Features : Layered(u, x, - p[x][index]) \in V
  <2>1. \A x \in Features : - p[x][index] \in Int
    BY DEF Keys
  <2> QED BY <1>2, <2>1
<1>5. PICK g : Forth(g, V, f, p, ls, index)
  <2>1. f \in V
    BY DEF V
  <2> QED BY ONLY <2>1, ls \in Seq(Features), <1>3, TransformLayers
<1>6. /\ g[0] = f /\ e = g[n] /\ \A k \in 0 .. n : g[k] \in V
      /\ \A k \in 1 .. n : g[k] = Layered(g[k - 1], ls[k], by(k))
  BY <1>0, <1>5 DEF Forth, by
<1> HIDE DEF e, n
<1>7. e \in V
  BY <1>0, <1>6
<1>8. \A k \in 0 .. n : \A l \in 1 .. k : InRange(g[k], ls[l])
  <2> DEFINE S == {k \in Nat : k <= n => \A l \in 1 .. k : InRange(g[k], ls[l])}
  <2>1. 0 \in S
    OBVIOUS
  <2>2. ASSUME NEW k \in Nat, k \in S
        PROVE  k + 1 \in S
    <3> SUFFICES ASSUME k + 1 <= n, NEW l \in 1 .. k + 1
                 PROVE  InRange(g[k + 1], ls[l])
      OBVIOUS
    <3>1. k + 1 \in 1 .. n /\ k \in 0 .. n /\ (k + 1) - 1 = k /\ l \in 1 .. n
      BY <1>0
    <3>2. g[k + 1] = Layered(g[k], ls[k + 1], by(k + 1))
      BY <1>6, <3>1
    <3>3. g[k] \in V /\ ls[k + 1] \in Features /\ by(k + 1) \in Int /\ ls[l] \in Features
      BY <1>0, <1>1, <1>6, <3>1
    <3>4. CASE l = k + 1
      BY <1>2, <3>2, <3>3, <3>4
    <3>5. CASE l # k + 1
      <4>1. InRange(g[k], ls[l])
        BY <2>2, <3>1, <3>5
      <4> QED BY <1>c, <3>2, <3>3, <4>1
    <3> QED BY <3>4, <3>5
  <2> HIDE DEF S
  <2>3. \A k \in Nat : k \in S
    BY <2>1, <2>2, Inductively
  <2> QED BY <1>0, <2>3 DEF S
<1>9. AllInRange(e, ls)
  BY <1>0, <1>6, <1>8 DEF AllInRange, n
<1>10. PICK w : Back(w, V, f, p, ls, index)
  <2>1. f \in V
    BY DEF V
  <2> QED BY ONLY <2>1, ls \in Seq(Features), <1>4, TransformLayersBack
<1>11. TransformFrame(f, p, ls, index, FALSE) \in V
  <2>1. w \in [0 .. Len(ls) -> V]
    BY ONLY <1>10 DEF Back
  <2>2. TransformFrame(f, p, ls, index, FALSE) = w[Len(ls)]
    BY ONLY <1>10 DEF Back
  <2>3. Len(ls) \in 0 .. Len(ls)
    BY <1>0 DEF n
  <2> QED BY <2>1, <2>2, <2>3
<1>12. ASSUME AllInRange(f, ls)
       PROVE  TransformFrame(e, p, ls, index, FALSE) = f
  <2>1. PICK b : Back(b, V, e, p, ls, index)
    BY ONLY <1>7, ls \in Seq(Features), <1>4, TransformLayersBack
  <2>2. /\ b[0] = e /\ TransformFrame(e, p, ls, index, FALSE) = b[n]
        /\ \A k \in 1 .. n : b[k] = Layered(b[k - 1], ls[n - k + 1], - by(n - k + 1))
    BY <1>0, <2>1 DEF Back, n, by
  <2>3. \A k \in 0 .. n : \A l \in 1 .. n : InRange(g[k], ls[l])
    <3> DEFINE S == {k \in Nat : k <= n => \A l \in 1 .. n : InRange(g[k], ls[l])}
    <3>1. 0 \in S
      BY <1>6, <1>12 DEF AllInRange, n
    <3>2. ASSUME NEW k \in Nat, k \in S
          PROVE  k + 1 \in S
      <4> SUFFICES ASSUME k + 1 <= n, NEW l \in 1 .. n
                   PROVE  InRange(g[k + 1], ls[l])
        OBVIOUS
      <4>1. k + 1 \in 1 .. n /\ k \in 0 .. n /\ (k + 1) - 1 = k
        BY <1>0
      <4>2. g[k + 1] = Layered(g[k], ls[k + 1], by(k + 1))
        BY <1>6, <4>1
      <4>3. g[k] \in V /\ ls[k + 1] \in Features /\ by(k + 1) \in Int /\ ls[l] \in Features
        BY <1>0, <1>1, <1>6, <4>1
      <4>4. InRange(g[k], ls[l])
        BY <3>2, <4>1
      <4> QED BY <1>c, <4>2, <4>3, <4>4
    <3> HIDE DEF S
    <3>3. \A k \in Nat : k \in S
      BY <3>1, <3>2, Inductively
    <3> QED BY <1>0, <3>3 DEF S
  <2>4. \A k \in 0 .. n : b[k] = g[n - k]
    <3> DEFINE S == {k \in Nat : k <= n => b[k] = g[n - k]}
    <3>1. 0 \in S
      BY <1>0, <1>6, <2>2
    <3>2. ASSUME NEW k \in Nat, k \in S
          PROVE  k + 1 \in S
      <4> SUFFICES ASSUME k + 1 <= n
                   PROVE  b[k + 1] = g[n - (k + 1)]
        OBVIOUS
      <4> DEFINE m == n - k
      <4>1. /\ m \in 1 .. n /\ m - 1 \in 0 .. n /\ k + 1 \in 1 .. n /\ (k + 1) - 1 = k
            /\ n - (k + 1) + 1 = m /\ n - (k + 1) = m - 1
        BY <1>0
      <4>2. b[k] = g[m]
        BY <1>0, <3>2
      <4> HIDE DEF m
      <4>3. b[k + 1] = Layered(g[m], ls[m], - by(m))
        BY <2>2, <4>1, <4>2
      <4>4. g[m] = Layered(g[m - 1], ls[m], by(m))
        BY <1>6, <4>1
      <4>5. g[m - 1] \in V /\ ls[m] \in Features /\ by(m) \in Int /\ InRange(g[m - 1], ls[m])
        BY <1>0, <1>1, <1>6, <2>3, <4>1
      <4>6. Layered(Layered(g[m - 1], ls[m], by(m)), ls[m], - by(m)) = g[m - 1]
        BY <1>b, <4>5
      <4> QED BY <4>1, <4>3, <4>4, <4>6
    <3> HIDE DEF S
    <3>3. \A k \in Nat : k \in S
      BY <3>1, <3>2, Inductively
    <3> QED BY <1>0, <3>3 DEF S
  <2>5. b[n] = g[0]
    <3>1. n \in 0 .. n /\ n - n = 0
      BY <1>0
    <3> QED BY <2>4, <3>1
  <2> QED BY <1>6, <2>2, <2>5
<1> QED BY <1>7, <1>9, <1>11, <1>12 DEF V, e

-----------------------------------------------------------------------------
(* The whole stream: every frame in its place, and nothing else touched.      *)
\* The pieces w stand at c, the k-th ends at e[k].
Layout(s, c, e, w, n) ==
    /\ s \in Seq(Cell) /\ n \in Nat
    /\ e[0] = 0
    /\ \A k \in 0 .. n : e[k] \in Nat /\ e[k] <= Len(s)
    /\ \A k \in 1 .. n : /\ c[k] \in Nat /\ w[k] \in Seq(Cell)
                         /\ e[k - 1] < c[k] /\ e[k] = c[k] + Len(w[k]) - 1

\* x is s to the cell len with the first k pieces in it.
Placed(x, c, w, k, len) ==
    \A m \in 1 .. k : /\ c[m] + Len(w[m]) - 1 <= len
                      /\ \A i \in 1 .. Len(w[m]) : x[c[m] + i - 1] = w[m][i]

Beside(x, s, c, w, k, len) ==
    \A j \in 1 .. len :
        (\A m \in 1 .. k : j < c[m] \/ j > c[m] + Len(w[m]) - 1) => x[j] = s[j]

Filled(x, s, c, w, k, len) ==
    x \in Seq(Cell) /\ Len(x) = len /\ Placed(x, c, w, k, len) /\ Beside(x, s, c, w, k, len)

LEMMA LayoutIs ==
  ASSUME NEW s, NEW c, NEW e, NEW w, NEW n, Layout(s, c, e, w, n)
  PROVE  /\ s \in Seq(Cell) /\ Len(s) \in Nat /\ n \in Nat /\ e[0] = 0
         /\ \A k \in 0 .. n : e[k] \in Nat /\ e[k] <= Len(s)
         /\ \A k \in 1 .. n : /\ c[k] \in Nat /\ c[k] >= 1 /\ e[k - 1] \in Nat /\ e[k - 1] <= c[k] - 1
                              /\ w[k] \in Seq(Cell) /\ Len(w[k]) \in Nat
                              /\ e[k] = c[k] + Len(w[k]) - 1 /\ c[k] - 1 <= e[k]
<1>1. s \in Seq(Cell) /\ n \in Nat /\ e[0] = 0 /\ \A k \in 0 .. n : e[k] \in Nat /\ e[k] <= Len(s)
  BY DEF Layout
<1>2. Len(s) \in Nat
  BY <1>1, LenInNat
<1>3. ASSUME NEW k \in 1 .. n
      PROVE  /\ c[k] \in Nat /\ c[k] >= 1 /\ e[k - 1] \in Nat /\ e[k - 1] <= c[k] - 1
             /\ w[k] \in Seq(Cell) /\ Len(w[k]) \in Nat
             /\ e[k] = c[k] + Len(w[k]) - 1 /\ c[k] - 1 <= e[k]
  <2>1. c[k] \in Nat /\ w[k] \in Seq(Cell) /\ e[k - 1] < c[k] /\ e[k] = c[k] + Len(w[k]) - 1
    BY DEF Layout
  <2>2. Len(w[k]) \in Nat
    BY <2>1, LenInNat
  <2>3. k - 1 \in 0 .. n
    BY <1>1
  <2>4. e[k - 1] \in Nat
    BY <1>1, <2>3
  <2> QED BY <2>1, <2>2, <2>4
<1> QED BY <1>1, <1>2, <1>3

LEMMA FilledFurther ==
  ASSUME NEW s, NEW c, NEW e, NEW w, NEW n, Layout(s, c, e, w, n), NEW k \in 0 .. n,
         NEW x, Filled(x, s, c, w, k, e[k]), NEW d \in Nat, e[k] <= d, d <= Len(s)
  PROVE  Filled(x \o SubSeq(s, e[k] + 1, d), s, c, w, k, d)
<1> DEFINE a == e[k]
           y == SubSeq(s, a + 1, d)
           z == x \o y
<1>1. /\ s \in Seq(Cell) /\ Len(s) \in Nat /\ a \in Nat /\ a <= d /\ d \in Nat
      /\ x \in Seq(Cell) /\ Len(x) = a
      /\ \A m \in 1 .. k : c[m] \in Nat /\ c[m] >= 1 /\ w[m] \in Seq(Cell) /\ Len(w[m]) \in Nat
  <2>1. s \in Seq(Cell) /\ Len(s) \in Nat /\ n \in Nat /\ a \in Nat
    BY LayoutIs
  <2>2. x \in Seq(Cell) /\ Len(x) = a
    BY DEF Filled
  <2>3. \A m \in 1 .. k : c[m] \in Nat /\ c[m] >= 1 /\ w[m] \in Seq(Cell) /\ Len(w[m]) \in Nat
    <3> TAKE m \in 1 .. k
    <3>1. m \in 1 .. n
      BY <2>1
    <3> QED BY <3>1, LayoutIs
  <2> QED BY <2>1, <2>2, <2>3
<1>2. y \in Seq(Cell) /\ Len(y) = d - a /\ \A i \in 1 .. d - a : y[i] = s[a + i]
  <2>1. /\ y \in Seq(Cell) /\ Len(y) = d - (a + 1) + 1
        /\ \A i \in 1 .. d - (a + 1) + 1 : y[i] = s[(a + 1) + i - 1]
    <3>1. a + 1 \in Nat /\ 1 <= a + 1 /\ a + 1 <= d + 1
      BY <1>1
    <3>2. d <= Len(s)
      OBVIOUS
    <3> HIDE DEF a
    <3> QED BY ONLY <1>1, <3>1, <3>2, SeqSlice
  <2>2. d - (a + 1) + 1 = d - a /\ \A i \in 1 .. d - a : (a + 1) + i - 1 = a + i
    BY <1>1
  <2> QED BY <2>1, <2>2
<1> HIDE DEF a, y
<1>3. /\ z \in Seq(Cell) /\ Len(z) = d /\ \A i \in 1 .. a : z[i] = x[i]
      /\ \A i \in a + 1 .. d : z[i] = s[i]
  <2>1. a = Len(x) /\ d = a + Len(y)
    BY <1>1, <1>2
  <2>2. /\ z \in Seq(Cell) /\ Len(z) = d /\ \A i \in 1 .. a : z[i] = x[i]
        /\ \A i \in a + 1 .. d : z[i] = y[i - a]
    <3>1. x \in Seq(Cell) /\ y \in Seq(Cell) /\ a = Len(x) /\ d = a + Len(y)
      BY <1>1, <1>2, <2>1
    <3> QED BY ONLY <3>1, Places
  <2> HIDE DEF z
  <2>3. ASSUME NEW i \in a + 1 .. d
        PROVE  z[i] = s[i]
    <3>1. i - a \in 1 .. d - a /\ a + (i - a) = i
      BY <1>1
    <3>2. z[i] = y[i - a]
      BY <2>2
    <3> QED BY <1>2, <3>1, <3>2
  <2> QED BY <2>2, <2>3
<1> HIDE DEF z
<1>4. Placed(z, c, w, k, d)
  <2> SUFFICES ASSUME NEW m \in 1 .. k
               PROVE  /\ c[m] + Len(w[m]) - 1 <= d
                      /\ \A i \in 1 .. Len(w[m]) : z[c[m] + i - 1] = w[m][i]
    BY DEF Placed
  <2>1. c[m] + Len(w[m]) - 1 <= a /\ \A i \in 1 .. Len(w[m]) : x[c[m] + i - 1] = w[m][i]
    BY DEF Filled, Placed, a
  <2>2. a <= d /\ c[m] \in Nat /\ c[m] >= 1 /\ Len(w[m]) \in Nat /\ a \in Nat /\ d \in Nat
    BY <1>1
  <2>3. c[m] + Len(w[m]) - 1 <= d
    BY <2>1, <2>2
  <2>4. ASSUME NEW i \in 1 .. Len(w[m])
        PROVE  z[c[m] + i - 1] = w[m][i]
    <3>1. c[m] + i - 1 \in 1 .. a
      BY SMTT(20), <2>1, <2>2
    <3> QED BY <1>3, <2>1, <3>1
  <2> QED BY <2>3, <2>4
<1>5. Beside(z, s, c, w, k, d)
  <2> SUFFICES ASSUME NEW j \in 1 .. d, \A m \in 1 .. k : j < c[m] \/ j > c[m] + Len(w[m]) - 1
               PROVE  z[j] = s[j]
    BY DEF Beside
  <2>1. CASE j \in 1 .. a
    <3>1. x[j] = s[j]
      BY <2>1 DEF Filled, Beside, a
    <3> QED BY <1>3, <2>1, <3>1
  <2>2. CASE j \in a + 1 .. d
    BY <1>3, <2>2
  <2> QED BY <1>1, <2>1, <2>2
<1> QED BY <1>3, <1>4, <1>5 DEF Filled, z, y, a

LEMMA FilledMore ==
  ASSUME NEW s, NEW c, NEW e, NEW w, NEW n, Layout(s, c, e, w, n),
         NEW k \in 0 .. n, NEW l \in 1 .. n, l = k + 1,
         NEW x, Filled(x, s, c, w, k, c[l] - 1)
  PROVE  Filled(x \o w[l], s, c, w, l, e[l])
<1> DEFINE b == c[l]
           a == b - 1
           y == w[l]
           z == x \o y
           d == e[l]
<1>0. k \in Nat /\ n \in Nat /\ l \in Nat /\ 1 .. k \subseteq 1 .. n
  <2>1. n \in Nat
    BY LayoutIs
  <2> QED BY <2>1
<1>1. b \in Nat /\ b >= 1 /\ y \in Seq(Cell) /\ Len(y) \in Nat /\ d = b + Len(y) - 1
  BY LayoutIs
<1> HIDE DEF b, d
<1>2. a \in Nat /\ b = a + 1 /\ d = a + Len(y) /\ d \in Nat
  BY <1>1
<1>3. x \in Seq(Cell) /\ Len(x) = a
  BY DEF Filled, b
<1>4. \A m \in 1 .. k : c[m] \in Nat /\ c[m] >= 1 /\ Len(w[m]) \in Nat
  <2> TAKE m \in 1 .. k
  <2>1. m \in 1 .. n
    BY <1>0
  <2> QED BY <2>1, LayoutIs
<1>5. Placed(x, c, w, k, a) /\ Beside(x, s, c, w, k, a)
  BY DEF Filled, b
<1> HIDE DEF a, y
<1>6. /\ z \in Seq(Cell) /\ Len(z) = d /\ \A i \in 1 .. a : z[i] = x[i]
      /\ \A i \in a + 1 .. d : z[i] = y[i - a]
  <2>1. x \in Seq(Cell) /\ y \in Seq(Cell) /\ a = Len(x) /\ d = a + Len(y)
    BY <1>1, <1>2, <1>3
  <2> QED BY ONLY <2>1, Places
<1> HIDE DEF z
<1>7. \A i \in 1 .. Len(y) : z[b + i - 1] = y[i]
  <2> TAKE i \in 1 .. Len(y)
  <2>1. b + i - 1 \in a + 1 .. d /\ (b + i - 1) - a = i
    BY <1>1, <1>2
  <2> QED BY <1>6, <2>1
<1>8. Placed(z, c, w, l, d)
  <2> SUFFICES ASSUME NEW m \in 1 .. l
               PROVE  /\ c[m] + Len(w[m]) - 1 <= d
                      /\ \A i \in 1 .. Len(w[m]) : z[c[m] + i - 1] = w[m][i]
    BY DEF Placed
  <2>1. CASE m \in 1 .. k
    <3>1. c[m] + Len(w[m]) - 1 <= a /\ \A i \in 1 .. Len(w[m]) : x[c[m] + i - 1] = w[m][i]
      BY <1>5, <2>1 DEF Placed
    <3>2. ASSUME NEW i \in 1 .. Len(w[m])
          PROVE  z[c[m] + i - 1] = w[m][i]
      <4>1. c[m] \in Nat /\ c[m] >= 1 /\ Len(w[m]) \in Nat
        BY <1>4, <2>1
      <4>2. c[m] + i - 1 \in 1 .. a
        BY SMTT(20), <1>2, <3>1, <4>1
      <4> QED BY <1>6, <3>1, <4>2
    <3>3. c[m] + Len(w[m]) - 1 <= d
      <4>1. c[m] \in Nat /\ Len(w[m]) \in Nat
        BY <1>4, <2>1
      <4> QED BY <1>1, <1>2, <3>1, <4>1
    <3> QED BY <3>2, <3>3
  <2>2. CASE m = l
    <3>1. c[m] = b /\ w[m] = y
      BY <2>2 DEF b, y
    <3>2. c[m] + Len(w[m]) - 1 <= d
      BY <1>1, <1>2, <3>1
    <3> QED BY <1>7, <3>1, <3>2
  <2> QED BY <1>0, <2>1, <2>2
<1>9. Beside(z, s, c, w, l, d)
  <2> SUFFICES ASSUME NEW j \in 1 .. d,
                      \A m \in 1 .. l : j < c[m] \/ j > c[m] + Len(w[m]) - 1
               PROVE  z[j] = s[j]
    BY DEF Beside
  <2>1. j \in 1 .. a
    <3>1. l \in 1 .. l
      BY <1>0
    <3>2. j < b \/ j > b + Len(y) - 1
      BY <3>1 DEF b, y
    <3> QED BY <1>1, <1>2, <3>2
  <2>2. x[j] = s[j]
    <3>1. \A m \in 1 .. k : j < c[m] \/ j > c[m] + Len(w[m]) - 1
      BY <1>0
    <3> QED BY <1>5, <2>1, <3>1 DEF Beside
  <2> QED BY <1>6, <2>1, <2>2
<1> QED BY <1>6, <1>8, <1>9 DEF Filled, z, y, d

LEMMA JoinedTwice ==
  ASSUME NEW S, NEW x \in Seq(S), NEW y \in Seq(S), NEW z \in Seq(S)
  PROVE  (x \o y) \o z = x \o (y \o z)
OBVIOUS

LEMMA Assembled ==
  ASSUME NEW s, NEW c, NEW e, NEW w, NEW n, Layout(s, c, e, w, n)
  PROVE  Filled(FlattenSeq([k \in 1 .. n |-> SubSeq(s, e[k - 1] + 1, c[k] - 1) \o w[k]])
                \o SubSeq(s, e[n] + 1, Len(s)), s, c, w, n, Len(s))
<1> DEFINE unit(k) == SubSeq(s, e[k - 1] + 1, c[k] - 1) \o w[k]
           units == [k \in 1 .. n |-> unit(k)]
<1>1. /\ s \in Seq(Cell) /\ Len(s) \in Nat /\ n \in Nat /\ e[0] = 0
      /\ \A k \in 0 .. n : e[k] \in Nat /\ e[k] <= Len(s)
      /\ \A k \in 1 .. n : /\ c[k] \in Nat /\ c[k] >= 1 /\ e[k - 1] \in Nat /\ w[k] \in Seq(Cell)
                           /\ e[k - 1] <= c[k] - 1 /\ c[k] - 1 <= Len(s)
  <2>1. s \in Seq(Cell) /\ Len(s) \in Nat /\ n \in Nat /\ e[0] = 0 /\ \A k \in 0 .. n : e[k] \in Nat /\ e[k] <= Len(s)
    BY LayoutIs
  <2>2. ASSUME NEW k \in 1 .. n
        PROVE  /\ c[k] \in Nat /\ c[k] >= 1 /\ e[k - 1] \in Nat /\ w[k] \in Seq(Cell)
               /\ e[k - 1] <= c[k] - 1 /\ c[k] - 1 <= Len(s)
    <3>1. /\ c[k] \in Nat /\ c[k] >= 1 /\ e[k - 1] \in Nat /\ w[k] \in Seq(Cell)
          /\ e[k - 1] <= c[k] - 1 /\ c[k] - 1 <= e[k]
      BY LayoutIs
    <3>2. e[k] \in Nat /\ e[k] <= Len(s)
      <4>1. k \in 0 .. n
        BY <2>1
      <4> QED BY <2>1, <4>1
    <3> QED BY <2>1, <3>1, <3>2
  <2> QED BY <2>1, <2>2
<1>2. units \in Seq(Seq(Cell)) /\ Len(units) = n /\ \A k \in 1 .. n : units[k] = unit(k)
  <2>1. \A k \in 1 .. n : unit(k) \in Seq(Cell)
    <3> TAKE k \in 1 .. n
    <3> DEFINE a == e[k - 1] + 1
               b == c[k] - 1
    <3>1. a \in Nat /\ b \in Nat /\ 1 <= a /\ a <= b + 1 /\ b <= Len(s)
      BY <1>1
    <3> HIDE DEF a, b
    <3>2. SubSeq(s, a, b) \in Seq(Cell)
      BY ONLY <1>1, <3>1, SeqSlice
    <3> QED BY <1>1, <3>2 DEF a, b
  <2> HIDE DEF unit
  <2> QED BY <1>1, <2>1
<1> HIDE DEF units
<1>3. PICK f : Joins(f, Cell, units) /\ FlattenSeq(units) = f[Len(units)]
  BY ONLY <1>2, FlattenJoins
<1>4. /\ \A k \in 0 .. n : f[k] \in Seq(Cell)
      /\ f[0] = <<>> /\ FlattenSeq(units) = f[n]
      /\ \A k \in 1 .. n : f[k] = f[k - 1] \o unit(k)
  <2> HIDE DEF unit
  <2> QED BY <1>2, <1>3 DEF Joins
<1>5. \A k \in 0 .. n : Filled(f[k], s, c, w, k, e[k])
  <2> DEFINE S == {k \in Nat : k <= n => Filled(f[k], s, c, w, k, e[k])}
  <2>1. 0 \in S
    BY <1>1, <1>4 DEF Filled, Placed, Beside
  <2>2. ASSUME NEW k \in Nat, k \in S
        PROVE  k + 1 \in S
    <3> SUFFICES ASSUME k + 1 <= n
                 PROVE  Filled(f[k + 1], s, c, w, k + 1, e[k + 1])
      OBVIOUS
    <3> DEFINE b == c[k + 1] - 1
               x == f[k]
               y == SubSeq(s, e[k] + 1, b)
    <3>1. k \in 0 .. n /\ k + 1 \in 1 .. n /\ (k + 1) - 1 = k /\ Filled(x, s, c, w, k, e[k])
      BY <1>1, <2>2
    <3>2. b \in Nat /\ e[k] <= b /\ b <= Len(s) /\ e[k] \in Nat
      BY <1>1, <3>1
    <3>3. Filled(x \o y, s, c, w, k, b)
      <4> HIDE DEF x, b
      <4> QED BY ONLY Layout(s, c, e, w, n), <3>1, <3>2, FilledFurther
    <3>4. Filled((x \o y) \o w[k + 1], s, c, w, k + 1, e[k + 1])
      <4> DEFINE l == k + 1
                 z == x \o y
      <4>1. l \in 1 .. n /\ l = k + 1 /\ k \in 0 .. n
        BY <3>1
      <4>2. Filled(z, s, c, w, k, c[l] - 1)
        BY <3>3
      <4> HIDE DEF l, z
      <4>3. Filled(z \o w[l], s, c, w, l, e[l])
        BY ONLY Layout(s, c, e, w, n), <4>1, <4>2, FilledMore
      <4> QED BY <4>3 DEF l, z
    <3>5. (x \o y) \o w[k + 1] = x \o (y \o w[k + 1])
      <4>1. y \in Seq(Cell)
        <5> DEFINE a == e[k] + 1
        <5>1. a \in Nat /\ 1 <= a /\ a <= b + 1
          BY <3>2
        <5> HIDE DEF a, b
        <5>2. SubSeq(s, a, b) \in Seq(Cell)
          BY ONLY <1>1, <3>2, <5>1, SeqSlice
        <5> QED BY <5>2 DEF a
      <4> DEFINE v == w[k + 1]
      <4>2. x \in Seq(Cell) /\ v \in Seq(Cell)
        BY <1>1, <1>4, <3>1
      <4> HIDE DEF x, y, v
      <4>3. (x \o y) \o v = x \o (y \o v)
        BY ONLY SMTT(20), <4>1, <4>2, JoinedTwice
      <4> QED BY <4>3 DEF v
    <3>6. f[k + 1] = x \o (y \o w[k + 1])
      BY <1>4, <3>1
    <3> QED BY <3>4, <3>5, <3>6
  <2> HIDE DEF S
  <2>3. \A k \in Nat : k \in S
    BY <2>1, <2>2, Inductively
  <2> QED BY <1>1, <2>3 DEF S
<1>6. Filled(f[n] \o SubSeq(s, e[n] + 1, Len(s)), s, c, w, n, Len(s))
  <2> DEFINE x == f[n]
             d == Len(s)
  <2>1. n \in 0 .. n /\ d \in Nat /\ e[n] <= d /\ d <= Len(s) /\ Filled(x, s, c, w, n, e[n])
    BY <1>1, <1>5
  <2> HIDE DEF x, d
  <2>2. Filled(x \o SubSeq(s, e[n] + 1, d), s, c, w, n, d)
    BY ONLY Layout(s, c, e, w, n), <2>1, FilledFurther
  <2> QED BY <2>2 DEF x, d
<1> QED BY <1>4, <1>6 DEF units

LEMMA VariantWritten ==
  ASSUME NEW raw, NEW h, IsFrame(raw, h), NEW f \in Variants(raw, h)
  PROVE  /\ Write(f) \in Seq(Cell) /\ Len(Write(f)) = h.size
         /\ \A k \in 1 .. h.size : k <= ScfsiEnd(raw, h) => Write(f)[k] = raw[k]
         /\ IsFrame(Write(f), h) /\ Parse(Write(f), h) = f
<1>1. PICK v \in ScalefactorSeqs(raw, h) \X SampleSeqs(raw, h) : f = Valued(raw, h, v[1], v[2])
  BY DEF Variants
<1> DEFINE sf == v[1]
           sa == v[2]
           out == Write(f)
<1>2. sf \in ScalefactorSeqs(raw, h) /\ sa \in SampleSeqs(raw, h) /\ f = Valued(raw, h, sf, sa)
  BY <1>1
<1> HIDE DEF sf, sa
<1>3. Written(raw, h, sf, sa, out)
  BY <1>2, WrittenIs
<1> HIDE DEF out
<1>4. IsFrame(out, h) /\ Parse(out, h) = Valued(raw, h, sf, sa)
  <2>1. sf \in ScalefactorSeqs(raw, h) /\ sa \in SampleSeqs(raw, h) /\ IsFrame(raw, h)
    BY <1>2
  <2> QED BY ONLY <2>1, <1>3, Reparsed
<1>5. out \in Seq(Cell) /\ Len(out) = h.size /\ \A k \in 1 .. ScfsiEnd(raw, h) : out[k] = raw[k]
  BY <1>3 DEF Written
<1>6. \A k \in 1 .. h.size : k <= ScfsiEnd(raw, h) => k \in 1 .. ScfsiEnd(raw, h)
  BY FrameEnds
<1> QED BY <1>2, <1>4, <1>5, <1>6 DEF out

\* The k-th frame of a stream: where it begins and ends, and what is written
\* in its place.
StartOf(s, k) == Whole(s).starts[k]
EndOf(s, k) == IF k = 0 THEN 0 ELSE Past(s, StartOf(s, k)) - 1
HeaderOf(s, k) == Header(s, StartOf(s, k))
RawOf(s, k) == Raw(s, StartOf(s, k))
Changed(s, p, ls, forward, k) ==
    TransformFrame(Parse(RawOf(s, k), HeaderOf(s, k)), p, ls, k, forward)
Count(s) == Len(Whole(s).starts)

LEMMA FrameStands ==
  ASSUME NEW s \in Seq(Cell), NEW k \in 1 .. Count(s)
  PROVE  /\ StartOf(s, k) \in 1 .. Len(s) /\ StartOf(s, k) \in Nat
         /\ HeaderOf(s, k) # None /\ IsFrame(RawOf(s, k), HeaderOf(s, k))
         /\ EndOf(s, k) = StartOf(s, k) + HeaderOf(s, k).size - 1
         /\ EndOf(s, k) \in Nat /\ EndOf(s, k) <= Len(s)
         /\ EndOf(s, k - 1) \in Nat /\ EndOf(s, k - 1) < StartOf(s, k)
<1> DEFINE r == Whole(s)
           n == Count(s)
           j == StartOf(s, k)
           h == HeaderOf(s, k)
           raw == RawOf(s, k)
<1>1. Searched(s, TRUE, r, Len(s)) /\ Len(s) \in Nat
  BY ScanIs, LenInNat DEF Whole
<1> HIDE DEF r
<1>2. n = Len(r.starts) /\ n \in Nat /\ j = r.starts[k] /\ h = Header(s, j) /\ raw = Raw(s, j)
  <2>1. r.starts \in Seq(Nat)
    BY <1>1 DEF Searched, Scans
  <2>2. Len(r.starts) \in Nat
    BY <2>1
  <2> QED BY <2>2 DEF r, Count, StartOf, HeaderOf, RawOf
<1> HIDE DEF n, j, h, raw
<1>3. Found(s, TRUE, r, k)
  BY <1>1, <1>2 DEF Searched, n
<1>4. Status(s, j, TRUE) = "frame"
  BY <1>2, <1>3 DEF Found
<1>5. \A i \in 1 .. Len(r.starts) :
        /\ r.starts[i] \in 1 .. Len(s) /\ Header(s, r.starts[i]) \in Headers
        /\ Len(Raw(s, r.starts[i])) = Header(s, r.starts[i]).size
        /\ r.starts[i] >= Starting(s, r, i - 1)
        /\ Starting(s, r, i) = r.starts[i] + Header(s, r.starts[i]).size
        /\ Starting(s, r, i) <= Len(s) + 1
  BY <1>1, FramesTyped
<1>6. j \in 1 .. Len(s) /\ j \in Nat /\ h \in Headers /\ Len(raw) = h.size
      /\ j >= Starting(s, r, k - 1) /\ Starting(s, r, k) = j + h.size /\ Starting(s, r, k) <= Len(s) + 1
  <2>1. k \in 1 .. Len(r.starts)
    BY <1>2 DEF n
  <2>2. j \in 1 .. Len(s) /\ h \in Headers /\ Len(raw) = h.size
        /\ j >= Starting(s, r, k - 1) /\ Starting(s, r, k) = j + h.size /\ Starting(s, r, k) <= Len(s) + 1
    BY <1>2, <1>5, <2>1
  <2> QED BY <2>2
<1>7. h # None /\ j + h.size - 1 <= Len(s) /\ Verdict(raw, h) = "frame"
  BY <1>2, <1>4, <1>6, StatusIs
<1>8. raw \in Seq(Cell)
  BY <1>2, <1>6, <1>7, RawTyped
<1>9. IsFrame(raw, h)
  BY <1>6, <1>7, <1>8 DEF IsFrame
<1>10. h.size \in Nat /\ h.size > 0
  BY <1>6, HeaderTyped, Product DEF HeaderCells
<1>11. \A i \in 0 .. n : EndOf(s, i) = Starting(s, r, i) - 1
  BY DEF EndOf, Starting, StartOf, r
<1>12. k \in 0 .. n /\ k - 1 \in 0 .. n
  BY <1>2 DEF n
<1>13. Starting(s, r, k - 1) \in Nat /\ Starting(s, r, k - 1) >= 1
  <2>1. CASE k = 1
    BY <2>1 DEF Starting
  <2>2. CASE k # 1
    <3> DEFINE i == k - 1
    <3>1. i \in 1 .. Len(r.starts)
      BY <1>2, <2>2 DEF n
    <3>2. Header(s, r.starts[i]) \in Headers /\ r.starts[i] \in 1 .. Len(s)
          /\ Starting(s, r, i) = r.starts[i] + Header(s, r.starts[i]).size
      BY <1>5, <3>1
    <3>3. Header(s, r.starts[i]).size \in Nat
      BY <3>2, HeaderTyped
    <3> QED BY <3>2, <3>3
  <2> QED BY <2>1, <2>2
<1>14. EndOf(s, k) = j + h.size - 1 /\ EndOf(s, k) \in Nat /\ EndOf(s, k) <= Len(s)
  <2>1. EndOf(s, k) = j + h.size - 1
    BY <1>6, <1>11, <1>12
  <2> QED BY <1>1, <1>6, <1>7, <1>10, <2>1
<1>15. EndOf(s, k - 1) \in Nat /\ EndOf(s, k - 1) < j
  BY <1>6, <1>11, <1>12, <1>13
<1> QED BY <1>6, <1>7, <1>9, <1>14, <1>15 DEF j, h, raw

LEMMA CountFits ==
  ASSUME NEW s \in Seq(Cell)
  PROVE  Count(s) \in Nat /\ \A k \in 1 .. Count(s) : k <= Len(s)
<1> DEFINE n == Count(s)
<1>1. n \in Nat /\ Len(s) \in Nat
  <2>1. Whole(s) \in Scans
    BY ScanIs DEF Whole, Searched
  <2> QED BY <2>1, LenInNat DEF Scans, Count
<1>2. \A k \in 1 .. n : /\ StartOf(s, k) \in Nat /\ EndOf(s, k) \in Nat /\ EndOf(s, k) <= Len(s)
                        /\ EndOf(s, k - 1) \in Nat /\ EndOf(s, k - 1) < EndOf(s, k)
  <2> TAKE k \in 1 .. n
  <2>1. /\ StartOf(s, k) \in Nat /\ IsFrame(RawOf(s, k), HeaderOf(s, k))
        /\ EndOf(s, k) = StartOf(s, k) + HeaderOf(s, k).size - 1
        /\ EndOf(s, k) \in Nat /\ EndOf(s, k) <= Len(s)
        /\ EndOf(s, k - 1) \in Nat /\ EndOf(s, k - 1) < StartOf(s, k)
    BY FrameStands
  <2>2. HeaderOf(s, k).size \in Nat /\ HeaderOf(s, k).size >= 1
    BY <2>1, HeaderTyped, Product DEF IsFrame, HeaderCells
  <2> QED BY <2>1, <2>2
<1> DEFINE S == {k \in Nat : k <= n => EndOf(s, k) \in Nat /\ EndOf(s, k) >= k}
<1>3. 0 \in S
  BY DEF EndOf
<1>4. ASSUME NEW k \in Nat, k \in S
      PROVE  k + 1 \in S
  <2> SUFFICES ASSUME k + 1 <= n
               PROVE  EndOf(s, k + 1) \in Nat /\ EndOf(s, k + 1) >= k + 1
    OBVIOUS
  <2> DEFINE l == k + 1
  <2>1. l \in 1 .. n /\ l - 1 = k
    BY <1>1
  <2>2. EndOf(s, k) \in Nat /\ EndOf(s, k) >= k
    BY <1>1, <1>4
  <2>3. EndOf(s, l) \in Nat /\ EndOf(s, k) < EndOf(s, l)
    BY <1>2, <2>1
  <2> QED BY <2>2, <2>3
<1> HIDE DEF S
<1>5. \A k \in Nat : k \in S
  BY <1>3, <1>4, Inductively
<1>6. ASSUME NEW k \in 1 .. n
      PROVE  k <= Len(s)
  <2>1. EndOf(s, k) \in Nat /\ EndOf(s, k) >= k
    BY <1>1, <1>5 DEF S
  <2>2. EndOf(s, k) <= Len(s)
    BY <1>2
  <2> QED BY <1>1, <2>1, <2>2
<1> QED BY <1>1, <1>6

\* A keystream that is long enough.
Planned(p, s) == \A x \in Features : p[x] \in Seq(Int) /\ Len(s) <= Len(p[x])

LEMMA FrameChanged ==
  ASSUME NEW s \in Seq(Cell), NEW p, Planned(p, s), NEW ls \in Seq(Features),
         NEW forward \in BOOLEAN, NEW k \in 1 .. Count(s)
  PROVE  /\ Keys(p, k)
         /\ Changed(s, p, ls, forward, k) \in Variants(RawOf(s, k), HeaderOf(s, k))
<1>1. k \in Nat /\ k >= 1 /\ k <= Len(s) /\ Len(s) \in Nat
  BY CountFits, LenInNat
<1>2. Keys(p, k)
  <2> SUFFICES ASSUME NEW x \in Features
               PROVE  p[x][k] \in Int
    BY DEF Keys
  <2>1. p[x] \in Seq(Int) /\ Len(s) <= Len(p[x])
    BY DEF Planned
  <2>2. Len(p[x]) \in Nat
    BY <2>1
  <2>3. k \in 1 .. Len(p[x])
    BY <1>1, <2>1, <2>2
  <2> QED BY <2>1, <2>3
<1> DEFINE raw == RawOf(s, k)
           h == HeaderOf(s, k)
           f == Parse(raw, h)
<1>3. IsFrame(raw, h)
  BY FrameStands
<1> HIDE DEF raw, h
<1>4. f \in Variants(raw, h)
  BY <1>3, ParsedVaries
<1> HIDE DEF f
<1>5. TransformFrame(f, p, ls, k, TRUE) \in Variants(raw, h)
      /\ TransformFrame(f, p, ls, k, FALSE) \in Variants(raw, h)
  BY <1>2, <1>3, <1>4, FrameLocked
<1>6. TransformFrame(f, p, ls, k, forward) \in Variants(raw, h)
  <2>1. CASE forward = TRUE
    BY <1>5, <2>1
  <2>2. CASE forward = FALSE
    BY <1>5, <2>2
  <2> QED BY <2>1, <2>2
<1> QED BY <1>2, <1>6 DEF Changed, f, raw, h

\* The rewritten stream is as long, has the changed frames in their places and
\* is the same beside them.
Pieces(s, p, ls, forward) == [k \in 1 .. Count(s) |-> Write(Changed(s, p, ls, forward, k))]

LEMMA Transformed ==
  ASSUME NEW s \in Seq(Cell), NEW p, Planned(p, s), NEW ls \in Seq(Features),
         NEW forward \in BOOLEAN
  PROVE  Filled(TransformStream(s, p, ls, forward), s, Whole(s).starts,
                Pieces(s, p, ls, forward), Count(s), Len(s))
<1> DEFINE n == Count(s)
           c == Whole(s).starts
           w == Pieces(s, p, ls, forward)
           e == [k \in 0 .. n |-> EndOf(s, k)]
           part(k) == SubSeq(s, e[k - 1] + 1, c[k] - 1) \o w[k]
<1>1. n \in Nat /\ DOMAIN c = 1 .. n /\ \A k \in 1 .. n : c[k] = StartOf(s, k)
  <2>1. c \in Seq(Nat)
    BY ScanIs DEF Whole, Searched, Scans
  <2> QED BY <2>1 DEF Count, StartOf
<1> HIDE DEF n, c
<1>2. ASSUME NEW k \in 1 .. n
      PROVE  w[k] = Write(Changed(s, p, ls, forward, k)) /\ w[k] \in Seq(Cell)
             /\ Len(w[k]) = HeaderOf(s, k).size
  <2>1. w[k] = Write(Changed(s, p, ls, forward, k))
    BY DEF Pieces, n
  <2>2. IsFrame(RawOf(s, k), HeaderOf(s, k))
    BY FrameStands DEF n
  <2>3. Changed(s, p, ls, forward, k) \in Variants(RawOf(s, k), HeaderOf(s, k))
    BY FrameChanged DEF n
  <2> QED BY <2>1, <2>2, <2>3, VariantWritten
<1>3. \A k \in 0 .. n : e[k] = EndOf(s, k)
  OBVIOUS
<1> HIDE DEF w, e
<1>4. Layout(s, c, e, w, n)
  <2>1. e[0] = 0
    BY <1>1, <1>3 DEF EndOf
  <2>2. ASSUME NEW k \in 1 .. n
        PROVE  /\ c[k] \in Nat /\ w[k] \in Seq(Cell) /\ e[k - 1] < c[k]
               /\ e[k] = c[k] + Len(w[k]) - 1 /\ e[k] \in Nat /\ e[k] <= Len(s)
    <3>1. /\ StartOf(s, k) \in Nat /\ EndOf(s, k) = StartOf(s, k) + HeaderOf(s, k).size - 1
          /\ EndOf(s, k) \in Nat /\ EndOf(s, k) <= Len(s) /\ EndOf(s, k - 1) < StartOf(s, k)
      BY FrameStands DEF n
    <3>2. e[k] = EndOf(s, k) /\ e[k - 1] = EndOf(s, k - 1) /\ c[k] = StartOf(s, k)
      <4>1. k \in 0 .. n /\ k - 1 \in 0 .. n
        BY <1>1
      <4> QED BY <1>1, <1>3, <4>1
    <3> QED BY <1>2, <3>1, <3>2
  <2>3. \A k \in 0 .. n : e[k] \in Nat /\ e[k] <= Len(s)
    <3> TAKE k \in 0 .. n
    <3>1. CASE k = 0
      BY <2>1, <3>1, LenInNat
    <3>2. CASE k # 0
      BY <1>1, <2>2, <3>2
    <3> QED BY <3>1, <3>2
  <2> QED BY <1>1, <2>1, <2>2, <2>3 DEF Layout
<1>5. Filled(FlattenSeq([k \in 1 .. n |-> part(k)]) \o SubSeq(s, e[n] + 1, Len(s)), s, c, w, n, Len(s))
  BY <1>4, Assembled
<1>6. TransformStream(s, p, ls, forward)
      = FlattenSeq([k \in 1 .. n |-> part(k)]) \o SubSeq(s, e[n] + 1, Len(s))
  <2> DEFINE End(k) == IF k = 0 THEN 0 ELSE Past(s, c[k]) - 1
             Unit(k) == SubSeq(s, End(k - 1) + 1, c[k] - 1)
                        \o Write(TransformFrame(Parse(Raw(s, c[k]), Header(s, c[k])), p, ls, k, forward))
  <2>1. TransformStream(s, p, ls, forward)
        = FlattenSeq([k \in DOMAIN c |-> Unit(k)]) \o SubSeq(s, End(Len(c)) + 1, Len(s))
    BY DEF TransformStream, Rewritten, c
  <2>2. \A k \in 0 .. n : End(k) = e[k]
    BY <1>3 DEF EndOf, StartOf, c
  <2>3. ASSUME NEW k \in 1 .. n
        PROVE  Unit(k) = part(k)
    <3>1. w[k] = Write(TransformFrame(Parse(Raw(s, c[k]), Header(s, c[k])), p, ls, k, forward))
      BY <1>2 DEF Changed, RawOf, HeaderOf, StartOf, c
    <3>2. End(k - 1) = e[k - 1]
      <4>1. k - 1 \in 0 .. n
        BY <1>1
      <4> QED BY <2>2, <4>1
    <3> QED BY <3>1, <3>2
  <2>4. Len(c) = n /\ End(n) = e[n]
    <3>1. n \in 0 .. n
      BY <1>1
    <3> QED BY <2>2, <3>1 DEF n, c, Count
  <2> HIDE DEF Unit, part, End
  <2>5. [k \in DOMAIN c |-> Unit(k)] = [k \in 1 .. n |-> part(k)]
    BY <1>1, <2>3
  <2> QED BY <2>1, <2>4, <2>5
<1> QED BY <1>5, <1>6 DEF n, c, w

-----------------------------------------------------------------------------
(* The reader.                                                              *)
Fed(t, a) == SubSeq(t, 1, a)

LEMMA FedIs ==
  ASSUME NEW t \in Seq(Cell), NEW a \in 0 .. Len(t)
  PROVE  /\ Fed(t, a) \in Seq(Cell) /\ Len(Fed(t, a)) = a
         /\ \A j \in 1 .. a : Fed(t, a)[j] = t[j]
<1>1. Len(t) \in Nat /\ a \in Nat
  BY LenInNat
<1>2. /\ SubSeq(t, 1, a) \in Seq(Cell) /\ Len(SubSeq(t, 1, a)) = a - 1 + 1
      /\ \A k \in 1 .. a - 1 + 1 : SubSeq(t, 1, a)[k] = t[1 + k - 1]
  BY <1>1, SeqSlice
<1> QED BY <1>1, <1>2 DEF Fed

LEMMA FedSettled ==
  ASSUME NEW t \in Seq(Cell), NEW a \in 0 .. Len(t), NEW final \in BOOLEAN
  PROVE  Settled(t, Fed(t, a), final)
<1> DEFINE s == Fed(t, a)
<1>1. /\ s \in Seq(Cell) /\ Len(s) = a /\ Len(t) \in Nat /\ a \in Nat
      /\ \A j \in 1 .. a : s[j] = t[j]
  BY FedIs, LenInNat
<1> HIDE DEF s
<1> SUFFICES ASSUME NEW j \in 1 .. Len(s), Status(s, j, FALSE) # "more"
             PROVE  /\ Status(t, j, final) = Status(s, j, FALSE)
                    /\ Status(s, j, FALSE) = "frame" => Past(t, j) = Past(s, j) /\ Raw(t, j) = Raw(s, j)
  BY DEF Settled, s
<1>2. Window(s, j, t, j)
  BY <1>1 DEF Window
<1>3. j \in 1 .. Len(t)
  BY <1>1
<1>4. /\ Status(t, j, final) = Status(s, j, FALSE)
      /\ Status(s, j, FALSE) = "frame" => Header(t, j) = Header(s, j) /\ Raw(t, j) = Raw(s, j)
  BY <1>1, <1>2, <1>3, StatusStays
<1> QED BY <1>4 DEF Past

\* An error in what was fed is an error of the whole stream.
LEMMA RaiseStays ==
  ASSUME NEW t \in Seq(Cell), NEW a \in 0 .. Len(t), Scan(Fed(t, a), FALSE).status = "raise"
  PROVE  Raises(t)
<1> DEFINE s == Fed(t, a)
           r == Scan(s, FALSE)
           m == Len(r.starts)
<1>1. s \in Seq(Cell) /\ Len(s) = a /\ Len(t) \in Nat /\ a \in Nat /\ a <= Len(t)
  BY FedIs, LenInNat
<1>2. Settled(t, s, TRUE)
  BY FedSettled
<1>3. r.status = "raise"
  OBVIOUS
<1> HIDE DEF s
<1>4. Searched(s, FALSE, r, Len(s))
  BY <1>1, ScanIs
<1> HIDE DEF r
<1>5. /\ r \in Scans /\ r.starts \in Seq(Nat) /\ m \in Nat /\ r.from \in Nat
      /\ r.from = Starting(s, r, m) /\ r.from \in 1 .. Len(s) + 1
      /\ r.stop \in r.from .. Len(s) /\ Status(s, r.stop, FALSE) = "raise"
      /\ Junk(s, FALSE, r.from, r.stop - 1)
      /\ \A k \in 1 .. m : r.starts[k] \in 1 .. Len(s) /\ Found(s, FALSE, r, k)
  <2>1. r \in Scans
    BY <1>4 DEF Searched
  <2>2. r.starts \in Seq(Nat) /\ m \in Nat /\ r.from \in Nat
    BY <2>1 DEF Scans
  <2>3. r.from = Starting(s, r, m) /\ r.from \in 1 .. Len(s) + 1
    BY <1>4 DEF Searched
  <2>4. /\ r.stop \in r.from .. Len(s) /\ Status(s, r.stop, FALSE) = "raise"
        /\ Junk(s, FALSE, r.from, r.stop - 1)
    BY <1>3, <1>4 DEF Searched
  <2>5. \A k \in 1 .. m : r.starts[k] \in 1 .. Len(s) /\ Found(s, FALSE, r, k)
    BY <1>4 DEF Searched
  <2> QED BY <2>1, <2>2, <2>3, <2>4, <2>5
<1> HIDE DEF m
<1>6. \A j \in 1 .. Len(s) : Status(s, j, FALSE) # "more" => Status(t, j, TRUE) = Status(s, j, FALSE)
  BY <1>2 DEF Settled
<1>7. \A x, y \in Nat : (x >= 1 /\ y <= Len(s) /\ Junk(s, FALSE, x, y)) => Junk(t, TRUE, x, y)
  <2> TAKE x, y \in Nat
  <2> HAVE x >= 1 /\ y <= Len(s) /\ Junk(s, FALSE, x, y)
  <2> SUFFICES ASSUME NEW j \in x .. y
               PROVE  Status(t, j, TRUE) = "junk"
    BY DEF Junk
  <2>1. j \in 1 .. Len(s)
    BY <1>1
  <2>2. Status(s, j, FALSE) = "junk"
    BY DEF Junk
  <2> QED BY <1>6, <2>1, <2>2
<1>8. \A k \in 1 .. m : Status(s, r.starts[k], FALSE) = "frame"
  BY <1>5 DEF Found
<1>9. \A k \in 1 .. m : Past(t, r.starts[k]) = Past(s, r.starts[k]) /\ Past(s, r.starts[k]) \in Nat
                        /\ Past(s, r.starts[k]) >= 1
  <2> TAKE k \in 1 .. m
  <2>1. r.starts[k] \in 1 .. Len(s) /\ Status(s, r.starts[k], FALSE) = "frame"
    BY <1>5, <1>8
  <2>2. Past(t, r.starts[k]) = Past(s, r.starts[k])
    BY <1>2, <2>1 DEF Settled
  <2>3. Past(s, r.starts[k]) \in r.starts[k] + 1 .. Len(s) + 1
    BY <1>1, <2>1, StatusIs
  <2> QED BY <1>1, <2>1, <2>2, <2>3
<1>10. \A k \in 0 .. m : /\ Starting(t, r, k) = Starting(s, r, k)
                         /\ Starting(s, r, k) \in Nat /\ Starting(s, r, k) >= 1
  <2> TAKE k \in 0 .. m
  <2>1. k = 0 \/ k \in 1 .. m
    BY <1>5
  <2> QED BY <1>9, <2>1 DEF Starting
<1>11. ASSUME NEW k \in 1 .. m
       PROVE  r.starts[k] \in 1 .. Len(t) /\ Found(t, TRUE, r, k)
  <2> DEFINE j == r.starts[k]
             x == Starting(s, r, k - 1)
  <2>1. j \in 1 .. Len(s) /\ j >= x /\ Status(s, j, FALSE) = "frame" /\ Junk(s, FALSE, x, j - 1)
    BY <1>5 DEF Found
  <2>2. k - 1 \in 0 .. m
    BY <1>5
  <2>3. x = Starting(t, r, k - 1) /\ x \in Nat /\ x >= 1
    BY <1>10, <2>2
  <2> HIDE DEF x, j
  <2>4. Status(t, j, TRUE) = "frame"
    BY <1>6, <2>1
  <2>5. Junk(t, TRUE, x, j - 1)
    <3>1. j - 1 \in Nat /\ j - 1 <= Len(s)
      BY <1>1, <2>1
    <3> QED BY <1>7, <2>1, <2>3, <3>1
  <2>6. j \in 1 .. Len(t)
    BY <1>1, <2>1
  <2> QED BY <2>1, <2>3, <2>4, <2>5, <2>6 DEF Found, j
<1>12. Status(t, r.stop, TRUE) = "raise" /\ r.stop \in r.from .. Len(t)
  <2>1. r.stop \in 1 .. Len(s) /\ r.stop \in r.from .. Len(t)
    BY <1>1, <1>5
  <2>2. Status(t, r.stop, TRUE) = Status(s, r.stop, FALSE)
    BY <1>5, <1>6, <2>1
  <2> QED BY <1>5, <2>1, <2>2
<1>13. Junk(t, TRUE, r.from, r.stop - 1)
  <2>1. r.stop - 1 \in Nat /\ r.stop - 1 <= Len(s) /\ r.from >= 1
    BY <1>1, <1>5
  <2> QED BY <1>5, <1>7, <2>1
<1>14. r.from = Starting(t, r, m) /\ r.from \in 1 .. Len(t) + 1
  <2>1. m \in 0 .. m
    BY <1>5
  <2> QED BY <1>1, <1>5, <1>10, <2>1
<1>15. Searched(t, TRUE, r, Len(t))
  BY <1>3, <1>5, <1>11, <1>12, <1>13, <1>14 DEF Searched, m
<1>16. r = Scan(t, TRUE)
  BY <1>15, ScanUnique
<1> QED BY <1>3, <1>16 DEF Raises, Whole

LEMMA DrainCounts ==
  ASSUME NEW d \in Nat, NEW l \in Nat, NEW k \in Nat, NEW c \in Nat, NEW n \in Nat,
         NEW x \in Nat, NEW y \in Nat, NEW z,
         d + l = c, c <= n, 1 <= y, k <= y - 1, y <= x, x <= n - c + 1, z = x + c
  PROVE  /\ d + x - 1 - k \in 0 .. n /\ d + y - 1 - k \in 0 .. n
         /\ d + x - 1 - k + (l + k) = z - 1
OBVIOUS

\* What a drain gives, keeps and drops, all in terms of what was fed.
Drains(t, s, r, b, final, d, q, given) ==
    /\ Scan(t, final).status = q.status
    /\ FramesAt(s, r.starts) \o given = FramesAt(t, Scan(t, final).starts)
    /\ Kept(b, q) = SubSeq(t, Scan(t, final).stop, Len(t))
    /\ d + q.stop - 1 - Len(FlattenSeq(given)) \in 0 .. Len(t)
    /\ d + q.stop - 1 - Len(FlattenSeq(given)) + Len(FlattenSeq(FramesAt(s, r.starts) \o given))
          = Scan(t, final).stop - 1
    /\ d + q.from - 1 - Len(FlattenSeq(given)) \in 0 .. Len(t)

LEMMA Drained ==
  ASSUME NEW t, NEW s, NEW r, NEW b, Goes(t, s, r, b), NEW final \in BOOLEAN,
         NEW d \in Nat, d + Len(FlattenSeq(FramesAt(s, r.starts))) = r.stop - 1,
         NEW q, q = Scan(b, final), NEW given, given = FramesAt(b, q.starts)
  PROVE  Drains(t, s, r, b, final, d, q, given)
<1> DEFINE w == Scan(t, final)
           p == FramesAt(s, r.starts)
           l == Len(FlattenSeq(p))
           k == Len(FlattenSeq(given))
           c == r.stop - 1
<1>1. /\ t \in Seq(Cell) /\ Len(t) \in Nat /\ s \in Seq(Cell) /\ b \in Seq(Cell)
      /\ c \in Nat /\ r.stop = c + 1 /\ c <= Len(t) /\ Len(b) = Len(t) - c /\ Len(b) \in Nat
  <2>1. t \in Seq(Cell)
    BY DEF Goes
  <2>2. s \in Seq(Cell) /\ Len(s) \in Nat /\ Len(t) \in Nat /\ Len(s) <= Len(t)
    BY ONLY Goes(t, s, r, b), GoesOn
  <2>3. r.stop \in Nat /\ r.stop >= 1 /\ r.stop - 1 <= Len(s)
    BY ONLY Goes(t, s, r, b), GoesOn
  <2>4. b \in Seq(Cell) /\ Len(b) = Len(t) - (r.stop - 1)
    BY ONLY Goes(t, s, r, b), GoesOn
  <2> QED BY SMTT(20), <2>1, <2>2, <2>3, <2>4
<1>2. w = Continued(r, q)
  BY Continues
<1>3. FramesAt(t, w.starts) = p \o given
  BY Continues
<1>4. w.stop = q.stop + c /\ w.status = q.status
  BY <1>2 DEF Continued
<1>5. Searched(b, final, q, Len(b))
  BY <1>1, ScanIs
<1>6. k <= q.from - 1 /\ q.from \in 1 .. Len(b) + 1 /\ q.stop \in q.from .. Len(b) + 1
  BY <1>1, <1>5, FramesFit
<1>7. p \in Seq(Seq(Cell)) /\ given \in Seq(Seq(Cell))
  <2>1. Searched(s, FALSE, r, Len(s))
    BY DEF Goes
  <2>2. p \in Seq(Seq(Cell))
    BY <1>1, <2>1, FramesTyped
  <2>3. FramesAt(b, q.starts) \in Seq(Seq(Cell))
    BY <1>1, <1>5, FramesTyped
  <2> QED BY <2>2, <2>3
<1> HIDE DEF p
<1>8. /\ FlattenSeq(p) \in Seq(Cell) /\ FlattenSeq(given) \in Seq(Cell) /\ l \in Nat /\ k \in Nat
      /\ FlattenSeq(p \o given) = FlattenSeq(p) \o FlattenSeq(given)
  <2>1. FlattenSeq(p) \in Seq(Cell) /\ l \in Nat
    BY <1>7, FlattenTyped
  <2>2. FlattenSeq(given) \in Seq(Cell) /\ k \in Nat
    BY <1>7, FlattenTyped
  <2>3. FlattenSeq(p \o given) = FlattenSeq(p) \o FlattenSeq(given)
    BY <1>7, FlattenJoined
  <2> QED BY <2>1, <2>2, <2>3
<1>9. Len(FlattenSeq(p \o given)) = l + k
  BY <1>8
<1>10. d + l = c
  BY <1>1 DEF p
<1> HIDE DEF w, l, k, c
<1>11. /\ d + q.stop - 1 - k \in 0 .. Len(t) /\ d + q.from - 1 - k \in 0 .. Len(t)
       /\ d + q.stop - 1 - k + (l + k) = w.stop - 1
  <2> DEFINE x == q.stop
             y == q.from
             z == w.stop
             n == Len(t)
  <2>1. x \in Nat /\ y \in Nat /\ n \in Nat /\ 1 <= y /\ k <= y - 1 /\ y <= x
    BY <1>1, <1>6
  <2>2. x <= n - c + 1
    BY <1>1, <1>6
  <2>3. z = x + c
    BY <1>4
  <2>4. c <= n /\ c \in Nat
    BY <1>1
  <2> HIDE DEF x, y, z, n
  <2>5. /\ d + x - 1 - k \in 0 .. n /\ d + y - 1 - k \in 0 .. n
        /\ d + x - 1 - k + (l + k) = z - 1
    BY <1>8, <1>10, <2>1, <2>2, <2>3, <2>4, DrainCounts
  <2> QED BY <2>5 DEF x, y, z, n
<1>12. Kept(b, q) = SubSeq(t, w.stop, Len(t))
  <2>1. b = SubSeq(t, c + 1, Len(t))
    BY <1>1 DEF Goes
  <2> DEFINE e == Len(t)
             f == Len(b)
             x == q.stop
             y == c + 1
  <2>2. /\ y \in Nat /\ e \in Nat /\ x \in Nat /\ f \in Nat /\ 1 <= y /\ y <= e + 1 /\ e <= Len(t)
        /\ 1 <= x /\ x <= f + 1 /\ f <= e - y + 1
    BY <1>1, <1>6
  <2>3. y + x - 1 = w.stop
    <3>1. w.stop = x + c
      BY <1>4
    <3> HIDE DEF x
    <3> QED BY <1>1, <2>2, <3>1
  <2>5. y + f - 1 = e
    <3>1. f = e - c
      BY <1>1
    <3> HIDE DEF f, e
    <3> QED BY <1>1, <2>2, <3>1
  <2> HIDE DEF e, f, x, y
  <2>4. SubSeq(SubSeq(t, y, e), x, f) = SubSeq(t, y + x - 1, y + f - 1)
    BY ONLY <1>1, <2>2, SeqSliceOfSlice
  <2> QED BY <2>1, <2>3, <2>4, <2>5 DEF Kept, e, f, x, y
<1> QED BY <1>3, <1>4, <1>9, <1>11, <1>12 DEF Drains, w, p, l, k

\* A reading reader has given the frames of what it was fed, and holds the
\* cells behind them that are not judged yet.
Reading ==
    LET s == Fed(text, at)
        r == Scan(s, FALSE)
    IN  /\ r.status # "raise" /\ frames = FramesAt(s, r.starts) /\ buf = Kept(s, r)
        /\ dropped + Len(FlattenSeq(frames)) = r.stop - 1

\* The file is the carrier, or a carrier that could be locked, locked.
Carried ==
    /\ stream \in Streams /\ locked \in BOOLEAN
    /\ ~ locked => text = stream
    /\ locked => /\ plan \in Plans /\ layers \in Layers
                 /\ ~ Raises(stream) /\ ~ Refused(stream, layers)
                 /\ text = TransformStream(stream, plan, layers, TRUE)

FramesInv ==
    /\ pc \in {"read", "framed", "raised", "refused", "done"}
    /\ Carried
    /\ at \in 0 .. Len(text) /\ dropped \in 0 .. at
    /\ pc = "read" => Reading
    /\ pc = "framed" => /\ ~ Raises(text) /\ frames = Frames(text)
                        /\ dropped + Len(FlattenSeq(frames)) = Len(text)
    /\ pc = "raised" => Raises(text)
    /\ pc = "done" => /\ locked /\ ~ Raises(text)
                      /\ restored = TransformStream(text, plan, layers, FALSE)

LEMMA Assumed ==
  ASSUME NEW s \in Streams
  PROVE  /\ s \in Seq(Cell) /\ \A p \in Plans : Planned(p, s) /\ \A l \in Layers : l \in Seq(Features)
BY Mp2Assumption DEF Planned

LEMMA CarriedTyped ==
  ASSUME Carried
  PROVE  /\ stream \in Seq(Cell) /\ text \in Seq(Cell) /\ Len(text) = Len(stream) /\ Len(text) \in Nat
         /\ locked => /\ Planned(plan, stream) /\ Planned(plan, text) /\ layers \in Seq(Features)
<1>1. stream \in Streams /\ stream \in Seq(Cell) /\ Len(stream) \in Nat
  BY Assumed, LenInNat DEF Carried
<1>2. CASE ~ locked
  BY <1>1, <1>2 DEF Carried
<1>3. CASE locked
  <2>1. plan \in Plans /\ layers \in Layers /\ text = TransformStream(stream, plan, layers, TRUE)
    BY <1>3 DEF Carried
  <2>2. Planned(plan, stream) /\ layers \in Seq(Features)
    BY <1>1, <2>1, Assumed
  <2>3. text \in Seq(Cell) /\ Len(text) = Len(stream)
    BY <1>1, <2>1, <2>2, Transformed DEF Filled
  <2>4. Planned(plan, text)
    BY <2>2, <2>3 DEF Planned
  <2> QED BY <1>1, <2>2, <2>3, <2>4
<1> QED BY <1>1, <1>2, <1>3 DEF Carried

\* Nothing fed, nothing given.
LEMMA NothingRead ==
  ASSUME NEW t \in Seq(Cell)
  PROVE  /\ Fed(t, 0) = <<>> /\ Scan(<<>>, FALSE).status # "raise"
         /\ Scan(<<>>, FALSE).stop = 1 /\ Scan(<<>>, FALSE).starts = <<>>
         /\ FramesAt(<<>>, <<>>) = <<>> /\ SubSeq(<<>>, 1, 0) = <<>>
<1> DEFINE s == <<>>
           r == Scan(s, FALSE)
<1>1. Len(t) \in Nat /\ 0 \in 0 .. Len(t)
  BY LenInNat
<1>2. Fed(t, 0) = <<>>
  <2>1. Fed(t, 0) \in Seq(Cell) /\ Len(Fed(t, 0)) = 0
    BY <1>1, FedIs
  <2> QED BY <2>1
<1>3. s \in Seq(Cell) /\ Len(s) = 0
  OBVIOUS
<1> HIDE DEF s
<1>4. Searched(s, FALSE, r, 0)
  BY <1>3, ScanIs
<1> HIDE DEF r
<1>5. r \in Scans /\ r.from \in 1 .. Len(s) + 1 /\ r.status \in {"exhausted", "more", "raise"}
  BY <1>4 DEF Searched, Scans
<1>6. r.status = "exhausted" /\ r.stop = 1
  <2>1. CASE r.status # "exhausted"
    <3>1. r.stop \in r.from .. 0
      BY <1>4, <2>1 DEF Searched
    <3> QED BY <1>3, <1>5, <3>1
  <2>2. CASE r.status = "exhausted"
    BY <1>3, <1>4, <2>2 DEF Searched
  <2> QED BY <2>1, <2>2
<1>7. r.starts = <<>>
  <2>1. r.starts \in Seq(Nat) /\ \A k \in 1 .. Len(r.starts) : r.starts[k] \in 1 .. 0
    BY <1>4, <1>5 DEF Searched, Scans
  <2>2. Len(r.starts) = 0
    BY <2>1
  <2> QED BY <2>1, <2>2
<1>8. FramesAt(<<>>, <<>>) = <<>> /\ SubSeq(<<>>, 1, 0) = <<>>
  BY DEF FramesAt
<1> QED BY <1>2, <1>6, <1>7, <1>8 DEF r, s

LEMMA InitFrames == Init => FramesInv
<1> SUFFICES ASSUME Init PROVE FramesInv
  OBVIOUS
<1>1. /\ stream \in Streams /\ text = stream /\ locked = FALSE /\ pc = "read" /\ at = 0
      /\ buf = <<>> /\ dropped = 0 /\ frames = <<>>
  BY DEF Init
<1>2. Carried
  BY <1>1 DEF Carried
<1>3. text \in Seq(Cell) /\ Len(text) \in Nat
  BY <1>2, CarriedTyped
<1>4. Reading
  <2> DEFINE r == Scan(<<>>, FALSE)
  <2>1. Fed(text, at) = <<>>
    BY <1>1, <1>3, NothingRead
  <2>2. r.status # "raise" /\ r.stop = 1 /\ r.starts = <<>>
        /\ FramesAt(<<>>, <<>>) = <<>> /\ SubSeq(<<>>, 1, 0) = <<>>
    BY <1>3, NothingRead
  <2> HIDE DEF r
  <2>3. frames = FramesAt(<<>>, r.starts)
    BY <1>1, <2>2
  <2>4. buf = Kept(<<>>, r)
    BY <1>1, <2>2 DEF Kept
  <2>5. dropped + Len(FlattenSeq(frames)) = r.stop - 1
    BY <1>1, <2>2, FlattenEmpty
  <2> QED BY <2>1, <2>2, <2>3, <2>4, <2>5 DEF Reading, r
<1> QED BY <1>1, <1>2, <1>3, <1>4 DEF FramesInv

\* What the reader holds and what comes next, as one slice of what was fed.
LEMMA HeldNext ==
  ASSUME NEW t \in Seq(Cell), NEW a \in 0 .. Len(t), NEW c \in a .. Len(t),
         NEW r, r = Scan(Fed(t, a), FALSE), r.status # "raise"
  PROVE  Goes(Fed(t, c), Fed(t, a), r, Kept(Fed(t, a), r) \o SubSeq(t, a + 1, c))
<1> DEFINE s == Fed(t, a)
           u == Fed(t, c)
           x == r.stop
           b == Kept(s, r) \o SubSeq(t, a + 1, c)
<1>1. Len(t) \in Nat /\ a \in Nat /\ c \in Nat /\ a <= c /\ c <= Len(t) /\ c \in 0 .. Len(t)
  BY LenInNat
<1>2. s \in Seq(Cell) /\ Len(s) = a /\ u \in Seq(Cell) /\ Len(u) = c
  BY <1>1, FedIs
<1>3. Searched(s, FALSE, r, Len(s))
  BY <1>2, ScanIs
<1>4. x \in Nat /\ 1 <= x /\ x <= a + 1
  <2> DEFINE y == r.from
  <2>1. y \in 1 .. a + 1 /\ x \in y .. a + 1
    BY <1>2, <1>3, FramesFit
  <2> HIDE DEF x, y
  <2> QED BY <1>1, <2>1
<1> HIDE DEF x
<1>5. s = SubSeq(u, 1, a)
  <2> DEFINE i == 1
  <2>1. i \in Nat /\ 1 <= i /\ i <= c + 1 /\ a <= c - i + 1 /\ i <= a + 1 /\ i + i - 1 = i /\ i + a - 1 = a
    BY <1>1
  <2>2. SubSeq(SubSeq(t, i, c), i, a) = SubSeq(t, i + i - 1, i + a - 1)
    <3> HIDE DEF i
    <3> QED BY ONLY t \in Seq(Cell), <1>1, <2>1, SeqSliceOfSlice
  <2>3. SubSeq(SubSeq(t, i, c), i, a) = SubSeq(t, i, a)
    <3> HIDE DEF i
    <3> QED BY <2>1, <2>2
  <2> QED BY <2>3 DEF Fed
<1>6. Kept(s, r) = SubSeq(t, x, a)
  <2> DEFINE i == 1
  <2>1. i \in Nat /\ 1 <= i /\ i <= a + 1 /\ a <= a - i + 1 /\ a <= Len(t) /\ i + x - 1 = x /\ i + a - 1 = a
    BY <1>1, <1>4
  <2>2. SubSeq(SubSeq(t, i, a), x, a) = SubSeq(t, i + x - 1, i + a - 1)
    <3> HIDE DEF i
    <3> QED BY ONLY t \in Seq(Cell), <1>1, <1>4, <2>1, SeqSliceOfSlice
  <2>3. SubSeq(SubSeq(t, i, a), x, a) = SubSeq(t, x, a)
    <3> HIDE DEF i
    <3> QED BY <2>1, <2>2
  <2> QED BY <1>2, <2>3 DEF Kept, Fed, x
<1>7. b = SubSeq(t, x, c)
  <2>1. SubSeq(t, x, a) \o SubSeq(t, a + 1, c) = SubSeq(t, x, c)
    BY ONLY t \in Seq(Cell), <1>1, <1>4, SeqSlicesMeet
  <2> QED BY <1>6, <2>1
<1>8. SubSeq(u, x, c) = SubSeq(t, x, c)
  <2> DEFINE i == 1
  <2>1. i \in Nat /\ 1 <= i /\ i <= c + 1 /\ c <= c - i + 1 /\ i + x - 1 = x /\ i + c - 1 = c /\ x <= c + 1
    BY <1>1, <1>4
  <2>2. SubSeq(SubSeq(t, i, c), x, c) = SubSeq(t, i + x - 1, i + c - 1)
    <3> HIDE DEF i
    <3> QED BY ONLY t \in Seq(Cell), <1>1, <1>4, <2>1, SeqSliceOfSlice
  <2>3. SubSeq(SubSeq(t, i, c), x, c) = SubSeq(t, x, c)
    <3> HIDE DEF i
    <3> QED BY <2>1, <2>2
  <2> QED BY <2>3 DEF Fed
<1>9. b = SubSeq(u, r.stop, Len(u))
  BY <1>2, <1>7, <1>8 DEF x
<1>10. \E i \in 0 .. Len(u) : s = SubSeq(u, 1, i)
  <2>1. a \in 0 .. Len(u)
    BY <1>1, <1>2
  <2> QED BY <1>5, <2>1
<1> HIDE DEF s, u, b
<1>11. Goes(u, s, r, b)
  BY <1>2, <1>3, <1>9, <1>10 DEF Goes
<1> QED BY <1>11 DEF s, u, b

LEMMA FedAll ==
  ASSUME NEW t \in Seq(Cell)
  PROVE  Fed(t, Len(t)) = t
<1>1. Len(t) \in Nat /\ Len(t) \in 0 .. Len(t)
  BY LenInNat
<1>2. Fed(t, Len(t)) \in Seq(Cell) /\ Len(Fed(t, Len(t))) = Len(t) /\ \A j \in 1 .. Len(t) : Fed(t, Len(t))[j] = t[j]
  BY <1>1, FedIs
<1> QED BY <1>2, SeqSame

LEMMA FeedKeeps ==
  ASSUME FramesInv, Feed
  PROVE  FramesInv'
<1>1. /\ pc = "read" /\ UNCHANGED <<stream, plan, layers, text, locked, restored>>
  BY DEF Feed
<1>2. PICK n \in 1 .. MaxChunk :
         /\ at + n <= Len(text) /\ at' = at + n
         /\ Take(buf \o SubSeq(text, at + 1, at + n), FALSE)
  BY DEF Feed
<1>3. /\ Carried /\ at \in 0 .. Len(text) /\ dropped \in Nat /\ Reading
  BY <1>1 DEF FramesInv
<1>4. text \in Seq(Cell) /\ Len(text) \in Nat
  BY <1>3, CarriedTyped
<1> DEFINE c == at + n
           s == Fed(text, at)
           r == Scan(s, FALSE)
           u == Fed(text, c)
           b == buf \o SubSeq(text, at + 1, c)
           q == Scan(b, FALSE)
           given == FramesAt(b, q.starts)
           w == Scan(u, FALSE)
           k == Len(FlattenSeq(given))
<1>5. c \in at .. Len(text) /\ c \in 0 .. Len(text) /\ c = at'
  BY <1>2, <1>3, <1>4
<1>6. r.status # "raise" /\ frames = FramesAt(s, r.starts) /\ buf = Kept(s, r)
      /\ dropped + Len(FlattenSeq(frames)) = r.stop - 1
  BY <1>3 DEF Reading
<1> HIDE DEF c
<1>7. Goes(u, s, r, b)
  BY <1>3, <1>4, <1>5, <1>6, HeldNext
<1>8. Taken(b, FALSE, q, given)
  BY <1>2 DEF Take, c
<1>9. u \in Seq(Cell) /\ Len(u) = c
  BY <1>4, <1>5, FedIs
<1> HIDE DEF s, r, u, b, q, given
<1>10. /\ w.status = q.status
       /\ frames \o given = FramesAt(u, w.starts)
       /\ Kept(b, q) = SubSeq(u, w.stop, Len(u))
       /\ dropped + q.stop - 1 - k \in 0 .. Len(u)
       /\ dropped + q.stop - 1 - k + Len(FlattenSeq(frames \o given)) = w.stop - 1
       /\ dropped + q.from - 1 - k \in 0 .. Len(u)
  <2>1. q = Scan(b, FALSE) /\ given = FramesAt(b, q.starts)
    BY DEF q, given
  <2>2. dropped \in Nat /\ dropped + Len(FlattenSeq(FramesAt(s, r.starts))) = r.stop - 1
    BY <1>3, <1>6
  <2> DEFINE p == FramesAt(s, r.starts)
  <2>3. FALSE \in BOOLEAN /\ Goes(u, s, r, b)
    BY <1>7
  <2>11. Drains(u, s, r, b, FALSE, dropped, q, given)
    BY ONLY <2>1, <2>2, <2>3, Drained
  <2>4. w.status = q.status
    BY <2>11 DEF Drains
  <2>5. p \o given = FramesAt(u, w.starts)
    BY <2>11 DEF Drains
  <2>6. dropped + q.stop - 1 - k \in 0 .. Len(u)
    BY <2>11 DEF Drains
  <2>7. dropped + q.stop - 1 - k + Len(FlattenSeq(p \o given)) = w.stop - 1
    BY <2>11 DEF Drains
  <2>8. dropped + q.from - 1 - k \in 0 .. Len(u)
    BY <2>11 DEF Drains
  <2>9. Kept(b, q) = SubSeq(u, w.stop, Len(u))
    BY <2>11 DEF Drains
  <2>10. frames = p
    BY <1>6
  <2> HIDE DEF p, w, k
  <2> QED BY <2>4, <2>5, <2>6, <2>7, <2>8, <2>9, <2>10
<1>11. Carried' /\ Len(text') = Len(text)
  BY <1>1, <1>3 DEF Carried
<1>12. at' \in 0 .. Len(text')
  BY <1>5, <1>11
<1>13. CASE q.status = "raise"
  <2>1. pc' = "raised" /\ dropped' = dropped + q.from - 1 - k
    BY <1>8, <1>13 DEF Taken
  <2>2. dropped' \in 0 .. at'
    BY <1>5, <1>9, <1>10, <2>1
  <2>3. Raises(text)
    <3>1. Scan(Fed(text, c), FALSE).status = "raise"
      BY <1>10, <1>13 DEF u
    <3> QED BY <1>4, <1>5, <3>1, RaiseStays
  <2>4. Raises(text')
    BY <1>1, <2>3
  <2> QED BY <1>11, <1>12, <2>1, <2>2, <2>4 DEF FramesInv
<1>14. CASE q.status # "raise"
  <2>1. /\ pc' = "read" /\ frames' = frames \o given /\ buf' = Kept(b, q)
        /\ dropped' = dropped + q.stop - 1 - k
    BY <1>8, <1>14 DEF Taken
  <2>2. dropped' \in 0 .. at'
    BY <1>5, <1>9, <1>10, <2>1
  <2>3. u = Fed(text', at')
    BY <1>1, <1>5 DEF u
  <2>4. /\ w.status # "raise" /\ frames' = FramesAt(u, w.starts)
        /\ dropped' + Len(FlattenSeq(frames')) = w.stop - 1
    BY <1>10, <1>14, <2>1
  <2>5. buf' = Kept(u, w)
    BY <1>10, <2>1 DEF Kept
  <2>6. Reading'
    BY <2>3, <2>4, <2>5 DEF Reading
  <2> QED BY <1>11, <1>12, <2>1, <2>2, <2>6 DEF FramesInv
<1> QED BY <1>13, <1>14

LEMMA FlushKeeps ==
  ASSUME FramesInv, Flush
  PROVE  FramesInv'
<1>1. /\ pc = "read" /\ at = Len(text) /\ Take(buf, TRUE)
      /\ UNCHANGED <<stream, plan, layers, text, locked, at, restored>>
  BY DEF Flush
<1>3. /\ Carried /\ at \in 0 .. Len(text) /\ dropped \in Nat /\ Reading
  BY <1>1 DEF FramesInv
<1>4. text \in Seq(Cell) /\ Len(text) \in Nat
  BY <1>3, CarriedTyped
<1> DEFINE s == Fed(text, at)
           r == Scan(s, FALSE)
           q == Scan(buf, TRUE)
           given == FramesAt(buf, q.starts)
           w == Scan(text, TRUE)
           k == Len(FlattenSeq(given))
<1>5. s = text
  BY <1>1, <1>4, FedAll
<1>6. r.status # "raise" /\ frames = FramesAt(s, r.starts) /\ buf = Kept(s, r)
      /\ dropped + Len(FlattenSeq(frames)) = r.stop - 1
  BY <1>3 DEF Reading
<1>7. Goes(text, s, r, buf)
  <2>1. Searched(s, FALSE, r, Len(s))
    BY <1>4, <1>5, ScanIs
  <2>2. at \in 0 .. Len(text) /\ s = SubSeq(text, 1, at)
    BY <1>3 DEF Fed
  <2>3. buf = SubSeq(text, r.stop, Len(text))
    BY <1>5, <1>6 DEF Kept
  <2> HIDE DEF s, r
  <2> QED BY <1>4, <1>6, <2>1, <2>2, <2>3 DEF Goes
<1>8. Taken(buf, TRUE, q, given)
  BY <1>1 DEF Take
<1>9. buf \in Seq(Cell)
  BY ONLY <1>7, GoesOn
<1>10. Searched(buf, TRUE, q, Len(buf))
  BY <1>9, ScanIs
<1> HIDE DEF s, r, q, given
<1>11. /\ w.status = q.status
       /\ frames \o given = FramesAt(text, w.starts)
       /\ dropped + q.stop - 1 - k \in 0 .. Len(text)
       /\ dropped + q.stop - 1 - k + Len(FlattenSeq(frames \o given)) = w.stop - 1
       /\ dropped + q.from - 1 - k \in 0 .. Len(text)
  <2>1. q = Scan(buf, TRUE) /\ given = FramesAt(buf, q.starts)
    BY DEF q, given
  <2>2. dropped \in Nat /\ dropped + Len(FlattenSeq(FramesAt(s, r.starts))) = r.stop - 1
    BY <1>3, <1>6
  <2> DEFINE p == FramesAt(s, r.starts)
  <2>3. TRUE \in BOOLEAN /\ Goes(text, s, r, buf)
    BY <1>7
  <2>11. Drains(text, s, r, buf, TRUE, dropped, q, given)
    BY ONLY <2>1, <2>2, <2>3, Drained
  <2>4. w.status = q.status
    BY <2>11 DEF Drains
  <2>5. p \o given = FramesAt(text, w.starts)
    BY <2>11 DEF Drains
  <2>6. dropped + q.stop - 1 - k \in 0 .. Len(text)
    BY <2>11 DEF Drains
  <2>7. dropped + q.stop - 1 - k + Len(FlattenSeq(p \o given)) = w.stop - 1
    BY <2>11 DEF Drains
  <2>8. dropped + q.from - 1 - k \in 0 .. Len(text)
    BY <2>11 DEF Drains
  <2>10. frames = p
    BY <1>6
  <2> HIDE DEF p, w, k
  <2> QED BY <2>4, <2>5, <2>6, <2>7, <2>8, <2>10
<1>12. Carried' /\ Len(text') = Len(text) /\ at' \in 0 .. Len(text') /\ at' = Len(text)
  BY <1>1, <1>3 DEF Carried
<1>13. CASE q.status = "raise"
  <2>1. pc' = "raised" /\ dropped' = dropped + q.from - 1 - k
    BY <1>8, <1>13 DEF Taken
  <2>2. dropped' \in 0 .. at'
    BY <1>11, <1>12, <2>1
  <2>3. Raises(text')
    BY <1>1, <1>11, <1>13 DEF Raises, Whole
  <2> QED BY <1>12, <2>1, <2>2, <2>3 DEF FramesInv
<1>14. CASE q.status # "raise"
  <2>1. /\ pc' = "framed" /\ frames' = frames \o given /\ dropped' = dropped + q.stop - 1 - k
    BY <1>8, <1>14 DEF Taken
  <2>2. dropped' \in 0 .. at'
    BY <1>11, <1>12, <2>1
  <2>3. Searched(text, TRUE, w, Len(text))
    BY <1>4, ScanIs
  <2>4. w.status = "exhausted"
    <3>1. w \in Scans
      BY <2>3 DEF Searched
    <3>2. w.status \in {"exhausted", "more", "raise"}
      BY <3>1 DEF Scans
    <3>3. w.status # "more"
      <4> SUFFICES ASSUME w.status = "more"
                   PROVE  FALSE
        OBVIOUS
      <4>1. w.stop \in w.from .. Len(text) /\ Status(text, w.stop, TRUE) = "more" /\ w.from \in 1 .. Len(text) + 1
        BY <2>3 DEF Searched
      <4> DEFINE j == w.stop
      <4>2. j \in 1 .. Len(text)
        <5> DEFINE i == w.from
        <5>1. j \in i .. Len(text) /\ i \in 1 .. Len(text) + 1
          BY <4>1
        <5> HIDE DEF i, j
        <5> QED BY <1>4, <5>1
      <4> HIDE DEF j
      <4>3. Status(text, j, TRUE) # "more"
        BY <1>4, <4>2, StatusIs
      <4> QED BY <4>1, <4>3 DEF j
    <3> QED BY <1>11, <1>14, <3>2, <3>3
  <2>5. w.stop = Len(text) + 1
    BY <2>3, <2>4 DEF Searched
  <2>6. ~ Raises(text')
    BY <1>1, <2>4 DEF Raises, Whole
  <2>7. frames' = Frames(text')
    BY <1>1, <1>11, <2>1 DEF Frames, Whole
  <2>8. dropped' + Len(FlattenSeq(frames')) = Len(text')
    <3>1. dropped' + Len(FlattenSeq(frames')) = w.stop - 1
      BY <1>11, <2>1
    <3>2. w.stop - 1 = Len(text)
      <4> DEFINE j == w.stop
      <4>1. j = Len(text) + 1
        BY <2>5
      <4> HIDE DEF j
      <4>2. j - 1 = Len(text)
        BY <1>4, <4>1
      <4> QED BY <4>2 DEF j
    <3> QED BY <1>12, <3>1, <3>2
  <2> QED BY <1>12, <2>1, <2>2, <2>6, <2>7, <2>8 DEF FramesInv
<1> QED BY <1>13, <1>14

LEMMA LockKeeps ==
  ASSUME FramesInv, Lock
  PROVE  FramesInv'
<1>1. pc = "framed" /\ ~ locked /\ UNCHANGED <<stream, restored>>
  BY DEF Lock
<1>2. Carried /\ at \in 0 .. Len(text) /\ dropped \in 0 .. at /\ ~ Raises(text)
  BY <1>1 DEF FramesInv
<1>3. text = stream /\ stream \in Streams
  BY <1>1, <1>2 DEF Carried
<1>4. PICK ls \in Layers :
         /\ layers' = ls
         /\ \/ /\ Refused(text, ls) /\ pc' = "refused"
               /\ UNCHANGED <<plan, text, locked, at, buf, dropped, frames>>
            \/ /\ ~ Refused(text, ls) /\ plan' \in Plans
               /\ text' = TransformStream(text, plan', ls, TRUE) /\ locked' = TRUE
               /\ pc' = "read" /\ at' = 0 /\ buf' = <<>> /\ dropped' = 0 /\ frames' = <<>>
  BY DEF Lock
<1>5. CASE pc' = "refused" /\ UNCHANGED <<plan, text, locked, at, buf, dropped, frames>>
  <2>1. Carried'
    <3>1. stream' \in Streams /\ text' = stream'
      BY <1>1, <1>3, <1>5
    <3>2. locked' \in BOOLEAN /\ ~ locked'
      BY <1>1, <1>2, <1>5 DEF Carried
    <3> QED BY <3>1, <3>2, Zenon DEF Carried
  <2>2. at' \in 0 .. Len(text') /\ dropped' \in 0 .. at'
    BY <1>2, <1>5
  <2>3. /\ pc' # "read" /\ pc' # "framed" /\ pc' # "raised" /\ pc' # "done"
        /\ pc' \in {"read", "framed", "raised", "refused", "done"}
    BY <1>5
  <2> QED BY <2>1, <2>2, <2>3, Zenon DEF FramesInv
<1>6. CASE /\ ~ Refused(text, ls) /\ plan' \in Plans
           /\ text' = TransformStream(text, plan', ls, TRUE) /\ locked' = TRUE
           /\ pc' = "read" /\ at' = 0 /\ buf' = <<>> /\ dropped' = 0 /\ frames' = <<>>
  <2>1. Carried'
    <3>1. stream' = stream /\ layers' = ls /\ locked' = TRUE /\ text = stream
      BY <1>1, <1>3, <1>4, <1>6
    <3>2. plan' \in Plans /\ layers' \in Layers /\ stream' \in Streams
      BY <1>3, <1>6, <3>1
    <3>3. ~ Raises(stream') /\ ~ Refused(stream', layers')
      BY <1>2, <1>6, <3>1
    <3>4. text' = TransformStream(stream', plan', layers', TRUE)
      BY <1>6, <3>1
    <3>5. /\ locked' \in BOOLEAN
          /\ ~ locked' => text' = stream'
          /\ locked' => /\ plan' \in Plans /\ layers' \in Layers
                        /\ ~ Raises(stream') /\ ~ Refused(stream', layers')
                        /\ text' = TransformStream(stream', plan', layers', TRUE)
      BY <3>1, <3>2, <3>3, <3>4
    <3> QED BY <3>2, <3>5, Zenon DEF Carried
  <2>2. text' \in Seq(Cell) /\ Len(text') \in Nat
    <3>1. text \in Seq(Cell) /\ Planned(plan', text) /\ ls \in Seq(Features)
      BY <1>3, <1>6, Assumed
    <3>2. text' \in Seq(Cell)
      BY <1>6, <3>1, Transformed DEF Filled
    <3> QED BY <3>2, LenInNat
  <2>3. Reading'
    <3> DEFINE r == Scan(<<>>, FALSE)
    <3>1. Fed(text', at') = <<>>
      BY <1>6, <2>2, NothingRead
    <3>2. r.status # "raise" /\ r.stop = 1 /\ r.starts = <<>>
          /\ FramesAt(<<>>, <<>>) = <<>> /\ SubSeq(<<>>, 1, 0) = <<>>
      BY <2>2, NothingRead
    <3> HIDE DEF r
    <3>3. frames' = FramesAt(<<>>, r.starts)
      BY <1>6, <3>2
    <3>4. buf' = Kept(<<>>, r)
      BY <1>6, <3>2 DEF Kept
    <3>5. dropped' + Len(FlattenSeq(frames')) = r.stop - 1
      BY <1>6, <3>2, FlattenEmpty
    <3> QED BY <3>1, <3>2, <3>3, <3>4, <3>5 DEF Reading, r
  <2>4. at' \in 0 .. Len(text') /\ dropped' \in 0 .. at'
    <3>1. at' = 0 /\ dropped' = 0
      BY <1>6
    <3> QED BY ONLY <2>2, <3>1
  <2>5. /\ pc' # "framed" /\ pc' # "raised" /\ pc' # "done"
        /\ pc' \in {"read", "framed", "raised", "refused", "done"}
    BY <1>6
  <2> QED BY <2>1, <2>3, <2>4, <2>5, Zenon DEF FramesInv
<1> QED BY <1>4, <1>5, <1>6

LEMMA UnlockKeeps ==
  ASSUME FramesInv, Unlock
  PROVE  FramesInv'
<1>1. /\ pc = "framed" /\ locked /\ restored' = TransformStream(text, plan, layers, FALSE) /\ pc' = "done"
      /\ UNCHANGED <<stream, plan, layers, text, locked, at, buf, dropped, frames>>
  BY DEF Unlock
<1>2. Carried /\ at \in 0 .. Len(text) /\ dropped \in 0 .. at /\ ~ Raises(text)
  BY <1>1 DEF FramesInv
<1>3. Carried'
  BY <1>1, <1>2 DEF Carried
<1>4. locked' /\ ~ Raises(text') /\ restored' = TransformStream(text', plan', layers', FALSE)
  BY <1>1, <1>2
<1>5. at' \in 0 .. Len(text') /\ dropped' \in 0 .. at'
  BY <1>1, <1>2
<1>6. pc' = "done"
  BY <1>1
<1>7. /\ pc' # "read" /\ pc' # "framed" /\ pc' # "raised"
      /\ pc' \in {"read", "framed", "raised", "refused", "done"}
  BY <1>6
<1> QED BY <1>3, <1>4, <1>5, <1>7, Zenon DEF FramesInv

LEMMA StutterKeeps ==
  ASSUME FramesInv, UNCHANGED vars
  PROVE  FramesInv'
BY DEF vars, FramesInv, Carried, Reading

LEMMA FramesInvariant == Spec => []FramesInv
<1>1. FramesInv /\ [Next]_vars => FramesInv'
  BY FeedKeeps, FlushKeeps, LockKeeps, UnlockKeeps, StutterKeeps DEF Next, Stopped
<1> QED BY <1>1, InitFrames, PTL DEF Spec

LEMMA PrefixOfJoin ==
  ASSUME NEW S, NEW x \in Seq(S), NEW y \in Seq(S)
  PROVE  IsPrefix(x, x \o y)
<1>1. /\ x \o y \in Seq(S) /\ Len(x \o y) = Len(x) + Len(y) /\ Len(x) \in Nat /\ Len(y) \in Nat
      /\ \A k \in 1 .. Len(x) : (x \o y)[k] = x[k]
  BY SeqJoined
<1>2. SubSeq(x, 1, Len(x)) = SubSeq(x \o y, 1, Len(x))
  <2> DEFINE z == x \o y
  <2> HIDE DEF z
  <2>1. z \in Seq(S) /\ Len(x) <= Len(z) /\ \A k \in 1 .. Len(x) : z[k] = x[k]
    BY <1>1 DEF z
  <2>2. SubSeq(x, 1, Len(x)) = SubSeq(z, 1, Len(x))
    BY <1>1, <2>1
  <2> QED BY <2>2 DEF z
<1> QED BY <1>1, <1>2 DEF IsPrefix

GoOn(t, s, r, b, final) ==
    FramesAt(t, Scan(t, final).starts) = FramesAt(s, r.starts) \o FramesAt(b, Scan(b, final).starts)

LEMMA FramesGoOn ==
  ASSUME NEW t, NEW s, NEW r, NEW b, Goes(t, s, r, b), NEW final \in BOOLEAN
  PROVE  GoOn(t, s, r, b, final)
BY Continues DEF GoOn

LEMMA ReadingFacts ==
  ASSUME FramesInv, pc = "read"
  PROVE  /\ IsPrefix(frames, Frames(text))
         /\ dropped + Len(FlattenSeq(frames)) + Len(buf) = at
         /\ Len(buf) < Max(Sizes)
<1>1. Carried /\ at \in 0 .. Len(text) /\ dropped \in Nat /\ Reading
  BY DEF FramesInv
<1>2. text \in Seq(Cell) /\ Len(text) \in Nat
  BY <1>1, CarriedTyped
<1> DEFINE t == text
           s == Fed(t, at)
           r == Scan(s, FALSE)
           b == buf \o SubSeq(t, at + 1, Len(t))
<1>3. r.status # "raise" /\ frames = FramesAt(s, r.starts) /\ buf = Kept(s, r)
      /\ dropped + Len(FlattenSeq(frames)) = r.stop - 1
  BY <1>1 DEF Reading
<1>4. s \in Seq(Cell) /\ Len(s) = at /\ at \in Nat
  BY <1>1, <1>2, FedIs
<1>5. Searched(s, FALSE, r, Len(s))
  BY <1>4, ScanIs
<1>6. Goes(t, s, r, b)
  <2>1. Len(t) \in at .. Len(t)
    BY <1>1, <1>2
  <2>2. Goes(Fed(t, Len(t)), s, r, b)
    BY <1>1, <1>2, <1>3, <2>1, HeldNext
  <2> QED BY <1>2, <2>2, FedAll
<1> HIDE DEF s, r, b
<1>7. IsPrefix(frames, Frames(t))
  <2> DEFINE q == Scan(b, TRUE)
             given == FramesAt(b, q.starts)
  <2>1. FramesAt(t, Scan(t, TRUE).starts) = FramesAt(s, r.starts) \o given
    <3>1. TRUE \in BOOLEAN /\ Goes(t, s, r, b)
      BY <1>6
    <3>2. GoOn(t, s, r, b, TRUE)
      BY ONLY <3>1, FramesGoOn
    <3> QED BY <3>2 DEF GoOn
  <2>2. b \in Seq(Cell)
    BY ONLY <1>6, GoesOn
  <2>3. given \in Seq(Seq(Cell))
    <3>1. Searched(b, TRUE, q, Len(b))
      BY <2>2, ScanIs
    <3> QED BY <2>2, <3>1, FramesTyped
  <2>4. frames \in Seq(Seq(Cell))
    BY <1>3, <1>4, <1>5, FramesTyped
  <2> HIDE DEF given
  <2>5. IsPrefix(frames, frames \o given)
    BY <2>3, <2>4, PrefixOfJoin
  <2>6. Frames(t) = frames \o given
    BY <1>3, <2>1 DEF Frames, Whole
  <2> QED BY <2>5, <2>6
<1>8. Len(buf) = at - (r.stop - 1) /\ r.stop - 1 \in Nat
  <2> DEFINE x == r.stop
             y == r.from
  <2>1. y \in 1 .. at + 1 /\ x \in y .. at + 1
    BY <1>4, <1>5, FramesFit
  <2> HIDE DEF x, y
  <2>2. x \in Nat /\ 1 <= x /\ x <= at + 1
    BY <1>4, <2>1
  <2>3. Len(SubSeq(s, x, at)) = at - x + 1
    <3>1. at <= Len(s)
      BY <1>4
    <3> QED BY <1>4, <2>2, <3>1, SeqSlice
  <2>4. buf = SubSeq(s, x, at)
    BY <1>3, <1>4 DEF Kept, x
  <2>5. Len(buf) = at - (x - 1) /\ x - 1 \in Nat
    BY <1>4, <2>2, <2>3, <2>4
  <2> QED BY <2>5 DEF x
<1>9. dropped + Len(FlattenSeq(frames)) + Len(buf) = at
  <2> DEFINE c == r.stop - 1
             l == dropped + Len(FlattenSeq(frames))
  <2>1. Len(buf) = at - c /\ c \in Nat /\ l = c
    BY <1>3, <1>8
  <2> HIDE DEF c, l
  <2>2. l + Len(buf) = at
    BY <1>4, <2>1
  <2> QED BY <2>2 DEF l
<1>10. Len(buf) < Max(Sizes)
  BY <1>3, <1>4, <1>5, KeptShort
<1> QED BY <1>7, <1>9, <1>10

\* The reader gives the frames iter_units finds, however the stream is cut into
\* chunks, raises where it raises, and accounts for every cell.
THEOREM ReadsAsWhole == Spec => []ReaderLikeWhole
<1>1. FramesInv => ReaderLikeWhole
  <2> SUFFICES ASSUME FramesInv PROVE ReaderLikeWhole
    OBVIOUS
  <2>1. pc = "read" => /\ IsPrefix(frames, Frames(text))
                       /\ dropped + Len(FlattenSeq(frames)) + Len(buf) = at
    BY ReadingFacts
  <2>2. /\ pc = "framed" => /\ ~ Raises(text) /\ frames = Frames(text)
                            /\ dropped + Len(FlattenSeq(frames)) = Len(text)
        /\ pc = "raised" => Raises(text)
    BY DEF FramesInv
  <2> QED BY <2>1, <2>2, Zenon DEF ReaderLikeWhole
<1> QED BY <1>1, FramesInvariant, PTL

\* Locking and unlocking keep the length of the file, the reader never drops
\* more than it was fed and holds less than a frame.
THEOREM FramesAreTyped == Spec => []TypeOK
<1>1. FramesInv => TypeOK
  <2> SUFFICES ASSUME FramesInv PROVE TypeOK
    OBVIOUS
  <2>1. /\ pc \in {"read", "framed", "raised", "refused", "done"} /\ Carried
        /\ at \in 0 .. Len(text) /\ dropped \in 0 .. at
    BY DEF FramesInv
  <2>2. text \in Seq(Cell) /\ Len(text) = Len(stream)
    BY <2>1, CarriedTyped
  <2>3. pc = "done" => restored \in Seq(Cell)
    <3> SUFFICES ASSUME pc = "done" PROVE restored \in Seq(Cell)
      OBVIOUS
    <3>1. locked /\ restored = TransformStream(text, plan, layers, FALSE)
      BY DEF FramesInv
    <3>2. Planned(plan, text) /\ layers \in Seq(Features)
      BY <2>1, <3>1, CarriedTyped
    <3> QED BY <2>2, <3>1, <3>2, Transformed DEF Filled
  <2>4. pc = "read" => Len(buf) < Max({Formats[k].size : k \in DOMAIN Formats})
    BY ReadingFacts DEF Sizes
  <2> QED BY <2>1, <2>2, <2>3, <2>4, Zenon DEF TypeOK
<1> QED BY <1>1, FramesInvariant, PTL

-----------------------------------------------------------------------------
(* What a lock leaves in the place of a frame, and of everything else.        *)
LEMMA FrameRewritten ==
  ASSUME NEW s \in Seq(Cell), NEW p, Planned(p, s), NEW ls \in Seq(Features),
         NEW forward \in BOOLEAN, NEW k \in 1 .. Count(s),
         NEW u, u = TransformStream(s, p, ls, forward)
  PROVE  /\ u \in Seq(Cell) /\ Len(u) = Len(s)
         /\ u[StartOf(s, k)] = s[StartOf(s, k)]
         /\ Header(u, StartOf(s, k)) = HeaderOf(s, k)
         /\ Raw(u, StartOf(s, k)) = Write(Changed(s, p, ls, forward, k))
<1> DEFINE j == StartOf(s, k)
           h == HeaderOf(s, k)
           raw == RawOf(s, k)
           f == Changed(s, p, ls, forward, k)
           out == Write(f)
           w == Pieces(s, p, ls, forward)
           c == Whole(s).starts
           z == h.size
<1>1. Filled(u, s, c, w, Count(s), Len(s))
  BY Transformed
<1>2. u \in Seq(Cell) /\ Len(u) = Len(s) /\ Len(s) \in Nat
  BY <1>1, LenInNat DEF Filled
<1>3. w[k] = out /\ c[k] = j
  BY DEF Pieces, StartOf
<1>4. \A i \in 1 .. Len(w[k]) : u[c[k] + i - 1] = w[k][i]
  BY <1>1 DEF Filled, Placed
<1>5. /\ j \in 1 .. Len(s) /\ j \in Nat /\ h # None /\ IsFrame(raw, h)
      /\ EndOf(s, k) = j + h.size - 1 /\ EndOf(s, k) <= Len(s)
  BY FrameStands
<1>6. f \in Variants(raw, h)
  BY FrameChanged
<1> HIDE DEF c, w
<1>7. /\ out \in Seq(Cell) /\ Len(out) = z
      /\ \A i \in 1 .. z : i <= ScfsiEnd(raw, h) => out[i] = raw[i]
  BY <1>5, <1>6, VariantWritten
<1>8. /\ z \in Nat /\ z >= 2 /\ ScfsiEnd(raw, h) \in Nat /\ ScfsiEnd(raw, h) >= 2
      /\ raw \in Seq(Cell) /\ Len(raw) = z /\ h \in Headers
  <2>1. /\ h \in Headers /\ raw \in Seq(Cell) /\ Len(raw) = h.size /\ h.size \in Nat
        /\ AllocStart(h) \in Nat /\ AllocStart(h) >= HeaderCells /\ AllocCells(h) \in Nat
        /\ AllocEnd(h) \in Nat /\ AllocEnd(h) = AllocStart(h) + AllocCells(h)
        /\ ScfsiEnd(raw, h) \in Nat /\ AllocEnd(h) <= ScfsiEnd(raw, h)
    BY <1>5, FrameEnds
  <2>2. h.size > HeaderCells + 1 + h.sblimit * h.channels /\ h.sblimit * h.channels \in Nat
    BY <2>1, HeaderTyped
  <2>3. z >= 2
    BY <2>1, <2>2 DEF HeaderCells
  <2> QED BY <2>1, <2>3 DEF HeaderCells
<1> HIDE DEF out
<1>9. \A i \in 1 .. z : u[j + i - 1] = out[i]
  BY <1>3, <1>4, <1>7
<1>10. j + z - 1 <= Len(s)
  BY <1>5
<1> HIDE DEF z
<1>11. /\ j + 1 <= Len(s) /\ s[j] = Sync /\ s[j + 1] \in DOMAIN Formats /\ h = Formats[s[j + 1]]
  BY <1>5, HeaderFound DEF HeaderOf
<1>12. \A i \in 1 .. z : raw[i] = s[j + i - 1]
  <2>1. /\ Header(s, j) # None /\ j + Header(s, j).size - 1 <= Len(s)
    BY <1>5, <1>10 DEF HeaderOf, z
  <2>2. \A i \in 1 .. Header(s, j).size : Raw(s, j)[i] = s[j + i - 1]
    BY <1>5, <2>1, RawTyped
  <2> QED BY <2>2 DEF RawOf, HeaderOf, z
<1>13. u[j] = s[j] /\ u[j + 1] = s[j + 1]
  <2>1. 1 \in 1 .. z /\ 2 \in 1 .. z /\ j + 1 - 1 = j /\ j + 2 - 1 = j + 1
    BY <1>5, <1>8
  <2>2. out[1] = raw[1] /\ out[2] = raw[2]
    BY <1>7, <1>8, <2>1
  <2>3. u[j + 1 - 1] = out[1] /\ u[j + 2 - 1] = out[2] /\ raw[1] = s[j + 1 - 1] /\ raw[2] = s[j + 2 - 1]
    BY <1>9, <1>12, <2>1
  <2> QED BY <2>1, <2>2, <2>3
<1>14. Header(u, j) = h
  BY <1>2, <1>11, <1>13 DEF Header
<1>15. Raw(u, j) = out
  <2> DEFINE e == j + z - 1
  <2>1. e \in Nat /\ j \in Nat /\ 1 <= j /\ j <= e + 1 /\ e <= Len(u) /\ e - j + 1 = z
    BY <1>2, <1>5, <1>8, <1>10
  <2>2. Raw(u, j) = SubSeq(u, j, e)
    BY <1>14 DEF Raw, z
  <2> HIDE DEF e
  <2>3. /\ SubSeq(u, j, e) \in Seq(Cell) /\ Len(SubSeq(u, j, e)) = e - j + 1
        /\ \A i \in 1 .. e - j + 1 : SubSeq(u, j, e)[i] = u[j + i - 1]
    BY ONLY <1>2, <2>1, SeqSlice
  <2>4. \A i \in 1 .. z : SubSeq(u, j, e)[i] = out[i]
    BY <1>9, <2>1, <2>3
  <2>5. Len(SubSeq(u, j, e)) = z /\ Len(out) = z /\ SubSeq(u, j, e) \in Seq(Cell) /\ out \in Seq(Cell)
    BY <1>7, <2>1, <2>3 DEF z
  <2>6. SubSeq(u, j, e) = out
    BY <2>4, <2>5, SeqSame
  <2> QED BY <2>2, <2>6
<1> QED BY <1>2, <1>13, <1>14, <1>15 DEF out, f, j, h

\* A frame without its values.
Emptied(f) == [f EXCEPT !.samples = <<>>, !.scalefactors = <<>>]

LEMMA FrameEmptied ==
  ASSUME NEW h, NEW v, NEW head, NEW alloc, NEW scfsi, NEW scalefactors, NEW samples, NEW tail
  PROVE  Emptied(Frame(h, v, head, alloc, scfsi, scalefactors, samples, tail))
         = Frame(h, v, head, alloc, scfsi, <<>>, <<>>, tail)
<1> DEFINE f == Frame(h, v, head, alloc, scfsi, scalefactors, samples, tail)
           g == [f EXCEPT !["samples"] = <<>>]
<1>1. Emptied(f) = [g EXCEPT !["scalefactors"] = <<>>]
  BY DEF Emptied
<1>2. g = Frame(h, v, head, alloc, scfsi, scalefactors, <<>>, tail)
  BY OtherSamples
<1>3. [Frame(h, v, head, alloc, scfsi, scalefactors, <<>>, tail) EXCEPT !["scalefactors"] = <<>>]
      = Frame(h, v, head, alloc, scfsi, <<>>, <<>>, tail)
  BY OtherScalefactors
<1> QED BY <1>1, <1>2, <1>3

LEMMA VariantsAgree ==
  ASSUME NEW raw, NEW h, NEW f \in Variants(raw, h), NEW g \in Variants(raw, h)
  PROVE  Emptied(f) = Emptied(g)
<1>1. PICK v \in ScalefactorSeqs(raw, h) \X SampleSeqs(raw, h) : f = Valued(raw, h, v[1], v[2])
  BY DEF Variants
<1>2. PICK x \in ScalefactorSeqs(raw, h) \X SampleSeqs(raw, h) : g = Valued(raw, h, x[1], x[2])
  BY DEF Variants
<1>3. \A a, b : Emptied(Valued(raw, h, a, b)) = Valued(raw, h, <<>>, <<>>)
  BY FrameEmptied DEF Valued
<1> QED BY <1>1, <1>2, <1>3

\* A locked frame has the carrier's header, allocation and scfsi, and values
\* within their ranges.
THEOREM LocksLegally == Spec => []LockedFramesAreLegal
<1>1. FramesInv => LockedFramesAreLegal
  <2> SUFFICES ASSUME FramesInv, locked, NEW j \in ToSet(Whole(stream).starts)
               PROVE  /\ Header(text, j) = Header(stream, j)
                      /\ \A l \in DOMAIN layers : InRange(Parse(Raw(text, j), Header(stream, j)), layers[l])
                      /\ Emptied(Parse(Raw(text, j), Header(stream, j)))
                         = Emptied(Parse(Raw(stream, j), Header(stream, j)))
    BY DEF LockedFramesAreLegal, Emptied
  <2>1. Carried /\ text = TransformStream(stream, plan, layers, TRUE)
    BY DEF FramesInv, Carried
  <2>2. stream \in Seq(Cell) /\ Planned(plan, stream) /\ layers \in Seq(Features)
    BY <2>1, CarriedTyped
  <2>3. PICK k \in 1 .. Count(stream) : j = StartOf(stream, k)
    <3>1. Whole(stream) \in Scans
      BY <2>2, ScanIs DEF Whole, Searched
    <3>2. Whole(stream).starts \in Seq(Nat)
      BY <3>1 DEF Scans
    <3> QED BY <3>2 DEF ToSet, Count, StartOf
  <2> DEFINE h == HeaderOf(stream, k)
             raw == RawOf(stream, k)
             f == Changed(stream, plan, layers, TRUE, k)
             g == Parse(raw, h)
  <2>4. Header(text, j) = h /\ Raw(text, j) = Write(f) /\ h = Header(stream, j) /\ raw = Raw(stream, j)
    <3>1. Header(text, j) = h /\ Raw(text, j) = Write(f)
      BY <2>1, <2>2, <2>3, FrameRewritten
    <3> QED BY <2>3, <3>1 DEF HeaderOf, RawOf
  <2>5. IsFrame(raw, h)
    BY <2>2, FrameStands
  <2>6. f \in Variants(raw, h) /\ Keys(plan, k)
    BY <2>2, FrameChanged
  <2>7. f = TransformFrame(g, plan, layers, k, TRUE)
    BY DEF Changed
  <2> HIDE DEF h, raw, f
  <2>8. Parse(Write(f), h) = f
    BY <2>5, <2>6, VariantWritten
  <2>9. g \in Variants(raw, h)
    BY <2>5, ParsedVaries
  <2> HIDE DEF g
  <2>10. AllInRange(f, layers)
    <3>1. AllInRange(TransformFrame(g, plan, layers, k, TRUE), layers)
      BY <2>2, <2>5, <2>6, <2>9, FrameLocked
    <3> QED BY <2>7, <3>1
  <2>11. \A l \in DOMAIN layers : InRange(f, layers[l])
    BY <2>2, <2>10 DEF AllInRange
  <2>12. Emptied(f) = Emptied(g)
    BY <2>6, <2>9, VariantsAgree
  <2> QED BY <2>4, <2>8, <2>11, <2>12 DEF g
<1> QED BY <1>1, FramesInvariant, PTL

-----------------------------------------------------------------------------
(* Where the unlock looks for frames.                                        *)
\* Every parse, refused or not, has the header and the allocation it opened.
Shaped(f, h, alloc) ==
    \E v, head, scfsi, scalefactors, samples, tail :
        f = Frame(h, v, head, alloc, scfsi, scalefactors, samples, tail)

LEMMA ReadShaped ==
  ASSUME NEW f, NEW h, NEW alloc, Shaped(f, h, alloc), NEW n, NEW short
  PROVE  /\ Shaped(Read(f, "scfsi", n, short), h, alloc)
         /\ Shaped(Read(f, "scalefactors", n, short), h, alloc)
         /\ Shaped(Read(f, "samples", n, short), h, alloc)
<1>1. PICK v, head, scfsi, scalefactors, samples, tail :
         f = Frame(h, v, head, alloc, scfsi, scalefactors, samples, tail)
  BY DEF Shaped
<1>2. f.verdict = v /\ f.tail = tail
  BY <1>1 DEF Frame
<1>3. CASE v # "frame"
  BY <1>2, <1>3 DEF Read
<1>4. CASE v = "frame" /\ n > Len(tail)
  <2>1. \A part : Read(f, part, n, short) = Frame(h, short, head, alloc, scfsi, scalefactors, samples, tail)
    BY <1>1, <1>4, ReadShort
  <2> QED BY <2>1 DEF Shaped
<1>5. CASE v = "frame" /\ ~ (n > Len(tail))
  <2> DEFINE x == SubSeq(tail, 1, n)
             y == SubSeq(tail, n + 1, Len(tail))
  <2>1. Read(f, "scfsi", n, short) = Frame(h, "frame", head, alloc, x, scalefactors, samples, y)
    BY <1>1, <1>5, ReadsScfsi
  <2>2. Read(f, "scalefactors", n, short) = Frame(h, "frame", head, alloc, scfsi, x, samples, y)
    BY <1>1, <1>5, ReadsScalefactors
  <2>3. Read(f, "samples", n, short) = Frame(h, "frame", head, alloc, scfsi, scalefactors, x, y)
    BY <1>1, <1>5, ReadsSamples
  <2> HIDE DEF x, y
  <2> QED BY <2>1, <2>2, <2>3 DEF Shaped
<1> QED BY <1>3, <1>4, <1>5

LEMMA ParsedShaped ==
  ASSUME NEW raw, NEW h
  PROVE  Parse(raw, h).header = h /\ Carrying(Parse(raw, h)) = CarryingOf(AllocOf(raw, h))
<1> DEFINE al == AllocOf(raw, h)
           f0 == Opened(raw, h)
           f1 == ReadScfsi(f0)
           f2 == ReadScalefactors(f1)
           f3 == ReadSamples(f2)
<1>1. Shaped(f0, h, al)
  BY DEF Shaped, Frame, Opened, AllocOf, Indices
<1> HIDE DEF f0, al
<1>2. Shaped(f1, h, al)
  BY <1>1, ReadShaped DEF ReadScfsi
<1> HIDE DEF f1
<1>3. Shaped(f2, h, al)
  BY <1>2, ReadShaped DEF ReadScalefactors
<1> HIDE DEF f2
<1>4. Shaped(f3, h, al)
  BY <1>3, ReadShaped DEF ReadSamples
<1>5. Parse(raw, h) = f3
  BY DEF Parse, f3, f2, f1, f0
<1> HIDE DEF f3
<1>6. f3.header = h /\ f3.alloc = al
  BY <1>4 DEF Shaped, Frame
<1> QED BY <1>5, <1>6 DEF Carrying, CarryingOf, al

\* The frames of a stream in order.
LEMMA InOrder ==
  ASSUME NEW s \in Seq(Cell)
  PROVE  \A k, m \in 1 .. Count(s) :
            /\ m < k => EndOf(s, m) <= EndOf(s, k - 1)
            /\ m > k => StartOf(s, m) > StartOf(s, k)
            /\ EndOf(s, m) <= EndOf(s, Count(s))
<1> DEFINE n == Count(s)
<1>1. n \in Nat /\ Len(s) \in Nat
  BY CountFits, LenInNat
<1>2. ASSUME NEW k \in 1 .. n
      PROVE  /\ StartOf(s, k) \in Nat /\ EndOf(s, k) \in Nat /\ EndOf(s, k - 1) \in Nat
             /\ EndOf(s, k - 1) < StartOf(s, k) /\ StartOf(s, k) <= EndOf(s, k)
  <2>1. /\ StartOf(s, k) \in Nat /\ IsFrame(RawOf(s, k), HeaderOf(s, k))
        /\ EndOf(s, k) = StartOf(s, k) + HeaderOf(s, k).size - 1
        /\ EndOf(s, k) \in Nat
        /\ EndOf(s, k - 1) \in Nat /\ EndOf(s, k - 1) < StartOf(s, k)
    BY FrameStands
  <2>2. HeaderOf(s, k).size \in Nat /\ HeaderOf(s, k).size >= 1
    BY <2>1, HeaderTyped, Product DEF IsFrame, HeaderCells
  <2> QED BY <2>1, <2>2
<1> DEFINE S == {k \in Nat : k <= n => \A m \in 1 .. k : EndOf(s, m) <= EndOf(s, k)}
<1>3. 0 \in S
  OBVIOUS
<1>4. ASSUME NEW k \in Nat, k \in S
      PROVE  k + 1 \in S
  <2> SUFFICES ASSUME k + 1 <= n, NEW m \in 1 .. k + 1
               PROVE  EndOf(s, m) <= EndOf(s, k + 1)
    OBVIOUS
  <2> DEFINE l == k + 1
  <2>1. l \in 1 .. n /\ l - 1 = k
    BY <1>1
  <2>2. EndOf(s, l) \in Nat /\ EndOf(s, k) \in Nat /\ EndOf(s, k) <= EndOf(s, l)
    <3>1. /\ StartOf(s, l) \in Nat /\ EndOf(s, l) \in Nat /\ EndOf(s, l - 1) \in Nat
          /\ EndOf(s, l - 1) < StartOf(s, l) /\ StartOf(s, l) <= EndOf(s, l)
      BY <1>2, <2>1
    <3> HIDE DEF l
    <3> QED BY <2>1, <3>1
  <2>3. CASE m = l
    BY <2>2, <2>3
  <2>4. CASE m \in 1 .. k
    <3>1. EndOf(s, m) <= EndOf(s, k)
      BY <1>1, <1>4, <2>4
    <3>2. EndOf(s, m) \in Nat
      <4>1. m \in 1 .. n
        BY <1>1, <2>1, <2>4
      <4> QED BY <1>2, <4>1
    <3> QED BY <2>2, <3>1, <3>2
  <2> QED BY <2>3, <2>4
<1> HIDE DEF S
<1>5. \A k \in Nat : k \in S
  BY <1>3, <1>4, Inductively
<1>6. \A k \in 1 .. n : \A m \in 1 .. k : EndOf(s, m) <= EndOf(s, k)
  BY <1>1, <1>5 DEF S
<1>7. ASSUME NEW k \in 1 .. n, NEW m \in 1 .. n, m < k
      PROVE  EndOf(s, m) <= EndOf(s, k - 1)
  <2> DEFINE l == k - 1
  <2>1. l \in 1 .. n /\ m \in 1 .. l
    BY <1>1, <1>7
  <2> HIDE DEF l
  <2>2. EndOf(s, m) <= EndOf(s, l)
    BY <1>6, <2>1
  <2> QED BY <2>2 DEF l
<1>8. ASSUME NEW k \in 1 .. n, NEW m \in 1 .. n, m > k
      PROVE  StartOf(s, m) > StartOf(s, k)
  <2>1. EndOf(s, k) <= EndOf(s, m - 1)
    BY <1>1, <1>7, <1>8
  <2>2. /\ StartOf(s, k) \in Nat /\ EndOf(s, k) \in Nat /\ StartOf(s, k) <= EndOf(s, k)
    BY <1>2
  <2>3. /\ StartOf(s, m) \in Nat /\ EndOf(s, m - 1) \in Nat /\ EndOf(s, m - 1) < StartOf(s, m)
    BY <1>2
  <2> QED BY <2>1, <2>2, <2>3
<1>9. ASSUME NEW m \in 1 .. n
      PROVE  EndOf(s, m) <= EndOf(s, n)
  <2>1. n \in 1 .. n
    BY <1>1
  <2> QED BY <1>6, <2>1
<1> QED BY <1>7, <1>8, <1>9

\* A cell in no frame, and one the parser looks at before it judges a header.
Outside(s, j) == \A k \in 1 .. Count(s) : j < StartOf(s, k) \/ j > EndOf(s, k)
Unread(s, u, j) == Header(s, j) # None => \A i \in Geometry(s, j) \cap DOMAIN s : u[i] = s[i]

\* u is s with frames in the places of frames, and the same outside them.
Kin(s, u) ==
    /\ u \in Seq(Cell) /\ Len(u) = Len(s)
    /\ \A j \in 1 .. Len(s) : Outside(s, j) => u[j] = s[j]
    /\ \A k \in 1 .. Count(s) : /\ u[StartOf(s, k)] = s[StartOf(s, k)]
                                /\ Header(u, StartOf(s, k)) = HeaderOf(s, k)
                                /\ IsFrame(Raw(u, StartOf(s, k)), HeaderOf(s, k))

LEMMA RewrittenKin ==
  ASSUME NEW s \in Seq(Cell), NEW p, Planned(p, s), NEW ls \in Seq(Features),
         NEW forward \in BOOLEAN, NEW u, u = TransformStream(s, p, ls, forward)
  PROVE  Kin(s, u)
<1> DEFINE w == Pieces(s, p, ls, forward)
           c == Whole(s).starts
<1>1. Filled(u, s, c, w, Count(s), Len(s))
  BY Transformed
<1>2. u \in Seq(Cell) /\ Len(u) = Len(s)
  BY <1>1 DEF Filled
<1>3. ASSUME NEW k \in 1 .. Count(s)
      PROVE  /\ u[StartOf(s, k)] = s[StartOf(s, k)]
             /\ Header(u, StartOf(s, k)) = HeaderOf(s, k)
             /\ IsFrame(Raw(u, StartOf(s, k)), HeaderOf(s, k))
             /\ c[k] = StartOf(s, k) /\ c[k] + Len(w[k]) - 1 = EndOf(s, k)
  <2> DEFINE f == Changed(s, p, ls, forward, k)
  <2>1. /\ u[StartOf(s, k)] = s[StartOf(s, k)]
        /\ Header(u, StartOf(s, k)) = HeaderOf(s, k)
        /\ Raw(u, StartOf(s, k)) = Write(f)
    BY FrameRewritten
  <2>2. IsFrame(RawOf(s, k), HeaderOf(s, k)) /\ EndOf(s, k) = StartOf(s, k) + HeaderOf(s, k).size - 1
    BY FrameStands
  <2>3. f \in Variants(RawOf(s, k), HeaderOf(s, k))
    BY FrameChanged
  <2>4. w[k] = Write(f) /\ c[k] = StartOf(s, k)
    BY DEF Pieces, StartOf
  <2> HIDE DEF f, w, c
  <2>5. IsFrame(Write(f), HeaderOf(s, k)) /\ Len(Write(f)) = HeaderOf(s, k).size
    BY <2>2, <2>3, VariantWritten
  <2> QED BY <2>1, <2>2, <2>4, <2>5
<1>4. ASSUME NEW j \in 1 .. Len(s), Outside(s, j)
      PROVE  u[j] = s[j]
  <2>1. Beside(u, s, c, w, Count(s), Len(s))
    BY <1>1 DEF Filled
  <2>2. \A m \in 1 .. Count(s) : j < c[m] \/ j > c[m] + Len(w[m]) - 1
    <3> HIDE DEF c, w
    <3> QED BY <1>3, <1>4 DEF Outside
  <2> HIDE DEF c, w
  <2> QED BY <2>1, <2>2 DEF Beside
<1> QED BY <1>2, <1>3, <1>4 DEF Kin

\* Between two frames and behind the last there is no frame.
LEMMA BetweenFrames ==
  ASSUME NEW s \in Seq(Cell), NEW j \in 1 .. Len(s)
  PROVE  /\ \A k \in 1 .. Count(s) : EndOf(s, k - 1) < j /\ j < StartOf(s, k) => Outside(s, j)
         /\ EndOf(s, Count(s)) < j => Outside(s, j)
<1>1. Count(s) \in Nat /\ j \in Nat
  BY CountFits
<1>2. \A m \in 1 .. Count(s) : StartOf(s, m) \in Nat /\ EndOf(s, m) \in Nat /\ EndOf(s, m - 1) \in Nat
  BY FrameStands
<1>3. ASSUME NEW k \in 1 .. Count(s), EndOf(s, k - 1) < j, j < StartOf(s, k), NEW m \in 1 .. Count(s)
      PROVE  j < StartOf(s, m) \/ j > EndOf(s, m)
  <2>1. CASE m < k
    <3>1. EndOf(s, m) <= EndOf(s, k - 1)
      BY <2>1, InOrder
    <3> QED BY <1>1, <1>2, <1>3, <3>1
  <2>2. CASE m = k
    BY <1>3, <2>2
  <2>3. CASE m > k
    <3>1. StartOf(s, m) > StartOf(s, k)
      BY <2>3, InOrder
    <3>2. StartOf(s, m) \in Nat /\ StartOf(s, k) \in Nat
      BY <1>2
    <3> QED BY <1>1, <1>3, <3>1, <3>2
  <2> QED BY <1>1, <2>1, <2>2, <2>3
<1>4. ASSUME EndOf(s, Count(s)) < j, NEW m \in 1 .. Count(s)
      PROVE  j > EndOf(s, m)
  <2>1. EndOf(s, m) <= EndOf(s, Count(s)) /\ EndOf(s, m) \in Nat
    BY <1>2, InOrder
  <2>2. EndOf(s, Count(s)) \in Nat
    <3>1. Count(s) \in 1 .. Count(s)
      BY <1>1
    <3> QED BY <1>2, <3>1
  <2> QED BY <1>1, <1>4, <2>1, <2>2
<1> QED BY <1>3, <1>4 DEF Outside

\* Outside the frames the headers are the same.
LEMMA HeaderStays ==
  ASSUME NEW s \in Seq(Cell), NEW u, Kin(s, u), NEW j \in 1 .. Len(s), Outside(s, j)
  PROVE  u[j] = s[j] /\ Header(u, j) = Header(s, j)
<1>1. u[j] = s[j] /\ Len(u) = Len(s) /\ Len(s) \in Nat
  BY LenInNat DEF Kin
<1>2. ASSUME j + 1 <= Len(s)
      PROVE  u[j + 1] = s[j + 1]
  <2> DEFINE i == j + 1
  <2>1. i \in 1 .. Len(s)
    BY <1>1, <1>2
  <2>2. CASE Outside(s, i)
    BY <2>1, <2>2 DEF Kin
  <2>3. CASE ~ Outside(s, i)
    <3>1. PICK k \in 1 .. Count(s) : ~ (i < StartOf(s, k)) /\ ~ (i > EndOf(s, k))
      BY <2>3 DEF Outside
    <3>2. StartOf(s, k) \in Nat /\ EndOf(s, k) \in Nat
      BY FrameStands
    <3>3. j < StartOf(s, k) \/ j > EndOf(s, k)
      BY DEF Outside
    <3>4. i = StartOf(s, k)
      BY <3>1, <3>2, <3>3
    <3>5. u[StartOf(s, k)] = s[StartOf(s, k)]
      BY DEF Kin
    <3> QED BY <3>4, <3>5
  <2> QED BY <2>2, <2>3
<1>3. Header(u, j) = Header(s, j)
  BY <1>1, <1>2 DEF Header
<1> QED BY <1>1, <1>3

\* What is no frame stays none: the parser looks at the same cells.
LEMMA RefusalStays ==
  ASSUME NEW s \in Seq(Cell), NEW u, Kin(s, u), NEW j \in 1 .. Len(s), Outside(s, j), Unread(s, u, j),
         Header(s, j) # None, j + Header(s, j).size - 1 <= Len(s),
         Parse(Raw(s, j), Header(s, j)).verdict = "refuse"
  PROVE  Parse(Raw(u, j), Header(u, j)).verdict = "refuse"
<1> DEFINE h == Header(s, j)
           z == h.size
           raw == Raw(s, j)
           out == Raw(u, j)
           e == ScfsiEnd(raw, h)
<1>1. u \in Seq(Cell) /\ Len(u) = Len(s) /\ Len(s) \in Nat /\ Header(u, j) = h
  BY HeaderStays, LenInNat DEF Kin
<1>2. h \in Headers /\ raw \in Seq(Cell) /\ Len(raw) = z /\ \A k \in 1 .. z : raw[k] = s[j + k - 1]
  <2>1. h \in Headers
    BY HeaderFound
  <2> QED BY <2>1, RawTyped
<1>3. out \in Seq(Cell) /\ Len(out) = z /\ \A k \in 1 .. z : out[k] = u[j + k - 1]
  <2>1. /\ j \in 1 .. Len(u) /\ Header(u, j) # None /\ j + Header(u, j).size - 1 <= Len(u)
    BY <1>1
  <2>2. /\ Raw(u, j) \in Seq(Cell) /\ Len(Raw(u, j)) = Header(u, j).size
        /\ \A k \in 1 .. Header(u, j).size : Raw(u, j)[k] = u[j + k - 1]
    BY <1>1, <2>1, RawTyped
  <2> QED BY <1>1, <2>2
<1>4. Geometry(s, j) = j .. j + e - 1
  <2>1. z \in Nat /\ j \in Nat
    BY <1>2, HeaderTyped
  <2>2. ~ (j + z - 1 > Len(s))
    BY <1>1, <2>1
  <2>3. Parse(raw, h).header = h /\ Carrying(Parse(raw, h)) = CarryingOf(AllocOf(raw, h))
    BY ParsedShaped
  <2>4. Geometry(s, j) = j .. j + AllocStart(h) + AllocCells(h) + CarryingOf(AllocOf(raw, h)) - 1
    BY <2>2, <2>3 DEF Geometry
  <2>5. AllocStart(h) \in Nat /\ AllocCells(h) \in Nat /\ CarryingOf(AllocOf(raw, h)) \in Nat
    <3>1. h.sblimit * h.channels \in Nat /\ AllocOf(raw, h) \in [1 .. h.sblimit * h.channels -> Cell]
      BY <1>2, AllocTyped
    <3>2. CarryingOf(AllocOf(raw, h)) \in Nat
      BY <3>1, CarryingCounts
    <3> QED BY <1>2, <3>2, AllocCellsUsed
  <2>6. e = AllocStart(h) + AllocCells(h) + CarryingOf(AllocOf(raw, h))
    BY DEF ScfsiEnd, AllocEnd
  <2> HIDE DEF h, raw, e
  <2>7. j + AllocStart(h) + AllocCells(h) + CarryingOf(AllocOf(raw, h)) - 1 = j + e - 1
    BY <2>1, <2>5, <2>6
  <2> QED BY <2>4, <2>7
<1>5. ASSUME NEW k \in 1 .. z, k <= e
      PROVE  out[k] = raw[k]
  <2> DEFINE i == j + k - 1
  <2>1. z \in Nat /\ e \in Nat /\ j \in Nat
    BY <1>2, HeaderTyped, EndsTyped
  <2>2. i \in DOMAIN s
    BY <1>1, <2>1
  <2>3. i \in j .. j + e - 1
    <3> HIDE DEF e, z
    <3> QED BY <1>5, <2>1
  <2> HIDE DEF i
  <2>4. u[i] = s[i]
    BY <1>4, <2>2, <2>3 DEF Unread
  <2> QED BY <1>2, <1>3, <2>4 DEF i
<1> HIDE DEF h, raw, out, e
<1>6. Verdict(out, h) = Verdict(raw, h)
  <2>1. h \in Headers /\ raw \in Seq(Cell) /\ Len(raw) = h.size /\ out \in Seq(Cell) /\ Len(out) = h.size
    BY <1>2, <1>3
  <2>2. \A k \in 1 .. h.size : k <= ScfsiEnd(raw, h) => out[k] = raw[k]
    BY <1>5 DEF e
  <2> QED BY <2>1, <2>2, SameGeometry
<1>7. Parse(raw, h).verdict = Verdict(raw, h) /\ Parse(out, h).verdict = Verdict(out, h)
  BY <1>2, <1>3, ParsedIs
<1>8. Parse(raw, h).verdict = "refuse"
  BY DEF raw, h
<1> QED BY <1>1, <1>6, <1>7, <1>8 DEF out

LEMMA JunkStays ==
  ASSUME NEW s \in Seq(Cell), NEW u, Kin(s, u), NEW j \in 1 .. Len(s), Outside(s, j), Unread(s, u, j),
         Status(s, j, TRUE) = "junk"
  PROVE  Status(u, j, TRUE) = "junk"
<1>1. Len(u) = Len(s) /\ Len(s) \in Nat /\ u[j] = s[j] /\ Header(u, j) = Header(s, j)
  BY HeaderStays, LenInNat DEF Kin
<1>2. CASE s[j] # Sync \/ j + HeaderCells - 1 > Len(s)
  BY <1>1, <1>2 DEF Status
<1>3. CASE s[j] = Sync /\ ~ (j + HeaderCells - 1 > Len(s))
  <2>1. CASE Header(s, j) = None
    BY <1>1, <1>3, <2>1 DEF Status
  <2>2. CASE Header(s, j) # None /\ j + Header(s, j).size - 1 > Len(s)
    BY <1>1, <1>3, <2>2 DEF Status
  <2>3. CASE Header(s, j) # None /\ ~ (j + Header(s, j).size - 1 > Len(s))
    <3>1. Parse(Raw(s, j), Header(s, j)).verdict \in {"refuse", "junk"}
      BY <1>3, <2>3 DEF Status
    <3>2. Header(s, j).size \in Nat /\ Header(s, j) \in Headers
      BY <2>3, HeaderFound
    <3>3. j + Header(s, j).size - 1 <= Len(s)
      BY <1>1, <2>3, <3>2
    <3>5. Parse(Raw(s, j), Header(s, j)).verdict \in {"raise", "refuse", "frame"}
      <4>1. Raw(s, j) \in Seq(Cell) /\ Len(Raw(s, j)) = Header(s, j).size
        BY <2>3, <3>3, RawTyped
      <4> QED BY <3>2, <4>1, ParsedIs, VerdictKinds
    <3>4. Parse(Raw(u, j), Header(u, j)).verdict = "refuse"
      BY <2>3, <3>1, <3>3, <3>5, RefusalStays
    <3> QED BY <1>1, <1>3, <2>3, <3>4 DEF Status
  <2> QED BY <2>1, <2>2, <2>3
<1> QED BY <1>2, <1>3

\* The frames of the rewritten stream are the stream's, in their places.
LEMMA SearchStays ==
  ASSUME NEW s \in Seq(Cell), NEW u, Kin(s, u), ~ Raises(s),
         \A j \in 1 .. Len(s) : Outside(s, j) => Unread(s, u, j)
  PROVE  Whole(u) = Whole(s)
<1> DEFINE r == Whole(s)
           n == Count(s)
<1>1. Searched(s, TRUE, r, Len(s)) /\ Len(s) \in Nat
  BY ScanIs, LenInNat DEF Whole
<1>2. u \in Seq(Cell) /\ Len(u) = Len(s)
  BY DEF Kin
<1>3. n \in Nat /\ n = Len(r.starts) /\ r \in Scans
  BY <1>1, CountFits DEF Count, Searched
<1>4. \A k \in 1 .. n : r.starts[k] = StartOf(s, k) /\ r.starts[k] \in 1 .. Len(s)
  BY <1>1, <1>3 DEF Searched, StartOf
<1>5. r.status = "exhausted"
  <2>1. r.status \in {"exhausted", "more"}
    BY <1>3 DEF Scans, Raises
  <2>2. ASSUME r.status = "more"
        PROVE  FALSE
    <3> HIDE DEF r
    <3>1. r.stop \in r.from .. Len(s) /\ Status(s, r.stop, TRUE) = "more" /\ r.from \in 1 .. Len(s) + 1
      BY <1>1, <2>2 DEF Searched
    <3> DEFINE j == r.stop
               i == r.from
    <3>2. j \in i .. Len(s) /\ i \in 1 .. Len(s) + 1
      BY <3>1
    <3> HIDE DEF i, j
    <3>3. j \in 1 .. Len(s)
      BY <1>1, <3>2
    <3>4. Status(s, j, TRUE) # "more"
      BY <3>3, StatusIs
    <3> QED BY <3>1, <3>4 DEF j
  <2> QED BY <2>1, <2>2
<1>6. \A k \in 0 .. n : Starting(u, r, k) = Starting(s, r, k) /\ EndOf(s, k) = Starting(s, r, k) - 1
  <2> TAKE k \in 0 .. n
  <2>1. CASE k = 0
    BY <2>1 DEF Starting, EndOf
  <2>2. CASE k # 0
    <3>1. k \in 1 .. n
      BY <1>3, <2>2
    <3>2. Header(u, StartOf(s, k)) = Header(s, StartOf(s, k))
      BY <3>1 DEF Kin, HeaderOf
    <3>3. Past(u, StartOf(s, k)) = Past(s, StartOf(s, k))
      BY <3>2 DEF Past
    <3> QED BY <1>4, <2>2, <3>1, <3>3 DEF Starting, EndOf
  <2> QED BY <2>1, <2>2
<1> HIDE DEF r, n
<1>7. ASSUME NEW k \in 1 .. n
      PROVE  Status(u, r.starts[k], TRUE) = "frame"
  <2> DEFINE j == StartOf(s, k)
             h == HeaderOf(s, k)
  <2>1. j \in 1 .. Len(s) /\ h # None /\ EndOf(s, k) = j + h.size - 1 /\ EndOf(s, k) <= Len(s)
        /\ h = Header(s, j)
    BY FrameStands DEF n, HeaderOf
  <2>2. u[j] = s[j] /\ Header(u, j) = h /\ IsFrame(Raw(u, j), h)
    BY DEF Kin, n
  <2> HIDE DEF j, h
  <2>3. Parse(Raw(u, j), h).verdict = "frame"
    <3>1. h \in Headers /\ Raw(u, j) \in Seq(Cell) /\ Len(Raw(u, j)) = h.size /\ Verdict(Raw(u, j), h) = "frame"
      BY <2>2 DEF IsFrame
    <3> QED BY <3>1, ParsedIs
  <2>4. h.size \in Nat /\ s[j] = Sync /\ j + 1 <= Len(s)
    BY <2>1, HeaderFound
  <2>5. ~ (j + HeaderCells - 1 > Len(u)) /\ ~ (j + h.size - 1 > Len(u))
    BY <1>1, <1>2, <2>1, <2>4 DEF HeaderCells
  <2>6. Status(u, j, TRUE) = "frame"
    BY <2>1, <2>2, <2>3, <2>4, <2>5 DEF Status
  <2> QED BY <1>4, <2>6 DEF j
<1>8. ASSUME NEW k \in 1 .. n
      PROVE  Found(u, TRUE, r, k)
  <2>1. Found(s, TRUE, r, k)
    BY <1>1, <1>3 DEF Searched
  <2>2. k - 1 \in 0 .. n
    BY <1>3
  <2> DEFINE a == Starting(s, r, k - 1)
  <2>3. Starting(u, r, k - 1) = a /\ EndOf(s, k - 1) = a - 1
    BY <1>6, <2>2
  <2>4. r.starts[k] >= a /\ Junk(s, TRUE, a, r.starts[k] - 1)
    BY <2>1 DEF Found
  <2>5. a \in Nat /\ a >= 1
    <3>1. EndOf(s, k - 1) \in Nat
      BY FrameStands DEF n
    <3>2. a \in Int
      <4>1. CASE k = 1
        BY <4>1 DEF Starting
      <4>2. CASE k # 1
        <5> DEFINE l == k - 1
        <5>1. l \in 1 .. n /\ l # 0
          BY <1>3, <4>2
        <5>2. a = Past(s, StartOf(s, l)) /\ StartOf(s, l) \in Nat
          BY <1>4, <5>1 DEF Starting
        <5>3. Header(s, StartOf(s, l)).size \in Nat
          <6>1. HeaderOf(s, l) # None /\ StartOf(s, l) \in 1 .. Len(s)
            BY <5>1, FrameStands DEF n
          <6> QED BY <6>1, HeaderFound DEF HeaderOf
        <5> QED BY <5>2, <5>3 DEF Past
      <4> QED BY <4>1, <4>2
    <3> HIDE DEF a
    <3> QED BY <2>3, <3>1, <3>2
  <2> HIDE DEF a
  <2>6. Junk(u, TRUE, a, r.starts[k] - 1)
    <3> SUFFICES ASSUME NEW j \in a .. r.starts[k] - 1
                 PROVE  Status(u, j, TRUE) = "junk"
      BY DEF Junk
    <3>1. Status(s, j, TRUE) = "junk"
      BY <2>4 DEF Junk
    <3>2. r.starts[k] = StartOf(s, k) /\ r.starts[k] \in 1 .. Len(s)
      BY <1>4
    <3>3. j \in 1 .. Len(s) /\ EndOf(s, k - 1) < j /\ j < StartOf(s, k)
      BY <1>1, <2>3, <2>5, <3>2
    <3>4. Outside(s, j)
      BY <3>3, BetweenFrames DEF n
    <3> QED BY <3>1, <3>3, <3>4, JunkStays
  <2> QED BY <1>7, <2>3, <2>4, <2>6 DEF Found
<1>9. r.from = Starting(s, r, n) /\ r.from \in 1 .. Len(s) + 1 /\ r.stop = Len(s) + 1
      /\ Junk(s, TRUE, r.from, Len(s))
  BY <1>1, <1>3, <1>5 DEF Searched
<1>10. Junk(u, TRUE, r.from, Len(u))
  <2> DEFINE a == r.from
  <2>1. a \in 1 .. Len(s) + 1 /\ EndOf(s, n) = a - 1
    <3>1. n \in 0 .. n
      BY <1>3
    <3> QED BY <1>6, <1>9, <3>1
  <2> HIDE DEF a
  <2> SUFFICES ASSUME NEW j \in a .. Len(s)
               PROVE  Status(u, j, TRUE) = "junk"
    BY <1>2 DEF Junk, a
  <2>2. Status(s, j, TRUE) = "junk"
    BY <1>9 DEF Junk, a
  <2>3. j \in 1 .. Len(s) /\ EndOf(s, n) < j
    BY <1>1, <2>1
  <2>4. Outside(s, j)
    BY <2>3, BetweenFrames DEF n
  <2> QED BY <2>2, <2>3, <2>4, JunkStays
<1>11. r.from = Starting(u, r, n)
  <2>1. n \in 0 .. n
    BY <1>3
  <2> QED BY <1>6, <1>9, <2>1
<1>12. Searched(u, TRUE, r, Len(u))
  BY <1>2, <1>3, <1>4, <1>5, <1>8, <1>9, <1>10, <1>11 DEF Searched
<1> QED BY <1>2, <1>12, ScanUnique DEF Whole, r

\* Rewritten, and its frames found again, a stream is undone: where every frame
\* had its values in their ranges it is what it was.
LEMMA StreamUndone ==
  ASSUME NEW s \in Seq(Cell), NEW p, Planned(p, s), NEW ls \in Seq(Features),
         NEW u, u = TransformStream(s, p, ls, TRUE), Whole(u) = Whole(s),
         \A k \in 1 .. Count(s) : AllInRange(Parse(RawOf(s, k), HeaderOf(s, k)), ls)
  PROVE  TransformStream(u, p, ls, FALSE) = s
<1> DEFINE v == TransformStream(u, p, ls, FALSE)
           n == Count(s)
           c == Whole(s).starts
           w == Pieces(u, p, ls, FALSE)
<1>1. u \in Seq(Cell) /\ Len(u) = Len(s) /\ Len(s) \in Nat /\ Kin(s, u)
  <2>1. Kin(s, u)
    BY RewrittenKin
  <2> QED BY <2>1, LenInNat DEF Kin
<1>2. Planned(p, u)
  BY <1>1 DEF Planned
<1>3. Filled(v, u, c, w, n, Len(s))
  <2>1. Filled(v, u, Whole(u).starts, w, Count(u), Len(u))
    BY <1>1, <1>2, Transformed
  <2> HIDE DEF v, w
  <2> QED BY <1>1, <2>1 DEF Count
<1>4. v \in Seq(Cell) /\ Len(v) = Len(s)
  BY <1>3 DEF Filled
<1>5. ASSUME NEW k \in 1 .. n
      PROVE  w[k] = RawOf(s, k) /\ c[k] = StartOf(s, k)
  <2> DEFINE j == StartOf(s, k)
             h == HeaderOf(s, k)
             raw == RawOf(s, k)
             g == Parse(raw, h)
             f == TransformFrame(g, p, ls, k, TRUE)
  <2>1. Raw(u, j) = Write(f) /\ Header(u, j) = h
    BY FrameRewritten DEF Changed
  <2>2. IsFrame(raw, h)
    BY FrameStands
  <2>3. Keys(p, k) /\ f \in Variants(raw, h)
    BY FrameChanged DEF Changed
  <2>4. w[k] = Write(TransformFrame(Parse(Raw(u, j), Header(u, j)), p, ls, k, FALSE))
    BY DEF Pieces, Changed, RawOf, HeaderOf, StartOf, Count
  <2>5. AllInRange(g, ls)
    OBVIOUS
  <2> HIDE DEF f, g, w
  <2>6. g = ParsedFrame(raw, h) /\ g \in Variants(raw, h)
    BY <2>2, ParsedVaries DEF g
  <2> HIDE DEF raw, h, j
  <2>7. Parse(Write(f), h) = f
    BY <2>2, <2>3, VariantWritten
  <2>8. TransformFrame(f, p, ls, k, FALSE) = g
    BY <2>2, <2>3, <2>5, <2>6, FrameLocked DEF f
  <2>9. Write(g) = raw
    BY <2>2, <2>6, WrittenUnchanged
  <2>10. w[k] = raw
    BY <2>1, <2>4, <2>7, <2>8, <2>9
  <2> QED BY <2>10 DEF raw, StartOf
<1> HIDE DEF v, w, c
<1>6. ASSUME NEW j \in 1 .. Len(s)
      PROVE  v[j] = s[j]
  <2>1. CASE Outside(s, j)
    <3>1. \A k \in 1 .. n : j < c[k] \/ j > c[k] + Len(w[k]) - 1
      <4> TAKE k \in 1 .. n
      <4>1. Len(w[k]) = HeaderOf(s, k).size /\ c[k] = StartOf(s, k)
        BY <1>5, FrameStands DEF IsFrame
      <4>2. EndOf(s, k) = StartOf(s, k) + HeaderOf(s, k).size - 1
        BY FrameStands
      <4>3. j < StartOf(s, k) \/ j > EndOf(s, k)
        BY <2>1 DEF Outside
      <4> QED BY <4>1, <4>2, <4>3
    <3>2. v[j] = u[j]
      BY <1>3, <3>1 DEF Filled, Beside
    <3> QED BY <1>1, <2>1, <3>2 DEF Kin
  <2>2. CASE ~ Outside(s, j)
    <3>1. PICK k \in 1 .. n : ~ (j < StartOf(s, k)) /\ ~ (j > EndOf(s, k))
      BY <2>2 DEF Outside
    <3> DEFINE a == StartOf(s, k)
               z == HeaderOf(s, k).size
               i == j - a + 1
    <3>2. /\ a \in 1 .. Len(s) /\ a \in Nat /\ HeaderOf(s, k) # None /\ z \in Nat
          /\ EndOf(s, k) = a + z - 1 /\ EndOf(s, k) <= Len(s) /\ Len(RawOf(s, k)) = z
      <4>1. /\ a \in 1 .. Len(s) /\ a \in Nat /\ HeaderOf(s, k) # None
            /\ IsFrame(RawOf(s, k), HeaderOf(s, k))
            /\ EndOf(s, k) = a + z - 1 /\ EndOf(s, k) <= Len(s)
        BY FrameStands
      <4> QED BY <4>1, FrameEnds
    <3> HIDE DEF a, z
    <3>3. i \in 1 .. z /\ a + i - 1 = j
      BY <3>1, <3>2 DEF a
    <3> HIDE DEF i
    <3>4. RawOf(s, k)[i] = s[a + i - 1]
      <4>1. Header(s, a) # None /\ Header(s, a).size = z /\ a + z - 1 <= Len(s)
        BY <3>2 DEF HeaderOf, a, z
      <4>2. \A l \in 1 .. z : Raw(s, a)[l] = s[a + l - 1]
        BY <3>2, <4>1, RawTyped
      <4> QED BY <3>3, <4>2 DEF RawOf, a
    <3>5. v[a + i - 1] = w[k][i]
      <4>1. \A l \in 1 .. Len(w[k]) : v[c[k] + l - 1] = w[k][l]
        BY <1>3 DEF Filled, Placed
      <4>2. c[k] = a /\ Len(w[k]) = z
        BY <1>5, <3>2 DEF a
      <4> QED BY <3>3, <4>1, <4>2
    <3>6. w[k] = RawOf(s, k)
      BY <1>5
    <3> QED BY <3>3, <3>4, <3>5, <3>6
  <2> QED BY <2>1, <2>2
<1>7. v = s
  BY <1>4, <1>6, SeqSame
<1> QED BY <1>7 DEF v

\* What was not refused has its values in their ranges.
LEMMA NotRefused ==
  ASSUME NEW s \in Seq(Cell), NEW ls \in Seq(Features), ~ Refused(s, ls), NEW k \in 1 .. Count(s)
  PROVE  AllInRange(Parse(RawOf(s, k), HeaderOf(s, k)), ls)
<1> DEFINE raw == RawOf(s, k)
           h == HeaderOf(s, k)
<1>1. raw \in ToSet(Frames(s))
  <2>1. Whole(s).starts \in Seq(Nat)
    BY ScanIs DEF Whole, Searched, Scans
  <2>2. k \in DOMAIN Frames(s) /\ Frames(s)[k] = raw
    BY <2>1 DEF Frames, FramesAt, Count, RawOf, StartOf
  <2> HIDE DEF raw
  <2> QED BY <2>2 DEF ToSet
<1>2. Header(raw, 1) = h
  <2> DEFINE j == StartOf(s, k)
  <2>1. j \in 1 .. Len(s) /\ h # None /\ IsFrame(raw, h) /\ h = Header(s, j) /\ raw = Raw(s, j)
        /\ EndOf(s, k) = j + h.size - 1 /\ EndOf(s, k) <= Len(s)
    BY FrameStands DEF HeaderOf, RawOf
  <2> HIDE DEF j, h, raw
  <2>2. /\ j + 1 <= Len(s) /\ s[j] = Sync /\ s[j + 1] \in DOMAIN Formats /\ h = Formats[s[j + 1]]
        /\ h.size \in Nat /\ h.size > HeaderCells
    BY <2>1, HeaderFound
  <2>3. Len(raw) = h.size /\ \A i \in 1 .. h.size : raw[i] = s[j + i - 1]
    BY <2>1, RawTyped
  <2>4. 1 \in 1 .. h.size /\ 2 \in 1 .. h.size /\ j + 1 - 1 = j /\ j + 2 - 1 = j + 1
    BY <2>1, <2>2 DEF HeaderCells
  <2>5. raw[1] = s[j + 1 - 1] /\ raw[2] = s[j + 2 - 1]
    BY <2>3, <2>4
  <2>6. raw[1] = Sync /\ raw[2] = s[j + 1] /\ 1 + 1 <= Len(raw)
    BY <2>2, <2>3, <2>4, <2>5 DEF HeaderCells
  <2> QED BY <2>2, <2>6 DEF Header
<1> HIDE DEF raw, h
<1>3. \A l \in DOMAIN ls : InRange(Parse(raw, Header(raw, 1)), ls[l])
  BY <1>1 DEF Refused
<1>4. AllInRange(Parse(raw, h), ls)
  BY <1>2, <1>3 DEF AllInRange
<1> QED BY <1>4 DEF raw, h

\* Unless the lock has written into what the framing looks at, the unlock finds
\* the frames where the lock found them and gives back the carrier.
THEOREM MisframesOnlyByOverlap == Spec => []MisframedOnlyByOverlap
<1>1. FramesInv => MisframedOnlyByOverlap
  <2> SUFFICES ASSUME FramesInv, locked, \A j \in DOMAIN stream : ~ Overlapped(j)
               PROVE  /\ Whole(text).starts = Whole(stream).starts /\ ~ Raises(text)
                      /\ pc = "done" => restored = stream
    BY DEF MisframedOnlyByOverlap
  <2>1. Carried /\ (pc = "done" => restored = TransformStream(text, plan, layers, FALSE))
    BY DEF FramesInv
  <2>2. text = TransformStream(stream, plan, layers, TRUE) /\ ~ Raises(stream) /\ ~ Refused(stream, layers)
    BY <2>1 DEF Carried
  <2>3. stream \in Seq(Cell) /\ Planned(plan, stream) /\ layers \in Seq(Features) /\ Len(stream) \in Nat
    BY <2>1, CarriedTyped
  <2>4. Kin(stream, text)
    BY <2>2, <2>3, RewrittenKin
  <2>5. ASSUME NEW j \in 1 .. Len(stream), Outside(stream, j)
        PROVE  Unread(stream, text, j)
    <3> SUFFICES ASSUME Header(stream, j) # None
                 PROVE  \A i \in Geometry(stream, j) \cap DOMAIN stream : text[i] = stream[i]
      BY DEF Unread
    <3>1. j \notin ToSet(Whole(stream).starts)
      <4> SUFFICES ASSUME j \in ToSet(Whole(stream).starts)
                   PROVE  FALSE
        OBVIOUS
      <4>1. Whole(stream).starts \in Seq(Nat)
        BY <2>3, ScanIs DEF Whole, Searched, Scans
      <4>2. PICK k \in 1 .. Count(stream) : j = StartOf(stream, k)
        BY <4>1 DEF ToSet, Count, StartOf
      <4>3. StartOf(stream, k) \in Nat /\ EndOf(stream, k) = StartOf(stream, k) + HeaderOf(stream, k).size - 1
            /\ IsFrame(RawOf(stream, k), HeaderOf(stream, k))
        BY <2>3, FrameStands
      <4>4. HeaderOf(stream, k).size \in Nat /\ HeaderOf(stream, k).size >= 1
        BY <4>3, HeaderTyped, Product DEF IsFrame, HeaderCells
      <4>5. ~ (j < StartOf(stream, k)) /\ ~ (j > EndOf(stream, k))
        BY <4>2, <4>3, <4>4
      <4> QED BY <2>5, <4>5 DEF Outside
    <3>2. j \in DOMAIN stream
      BY <2>3
    <3>3. ~ Overlapped(j)
      BY <3>2
    <3> QED BY <3>1, <3>3 DEF Overlapped
  <2>6. Whole(text) = Whole(stream)
    BY <2>2, <2>3, <2>4, <2>5, SearchStays
  <2>7. ~ Raises(text)
    BY <2>2, <2>6 DEF Raises
  <2>8. TransformStream(text, plan, layers, FALSE) = stream
    <3>1. \A k \in 1 .. Count(stream) :
             AllInRange(Parse(RawOf(stream, k), HeaderOf(stream, k)), layers)
      BY <2>2, <2>3, NotRefused
    <3> QED BY <2>2, <2>3, <2>6, <3>1, StreamUndone
  <2> QED BY <2>1, <2>6, <2>7, <2>8
<1> QED BY <1>1, FramesInvariant, PTL
=============================================================================
