------------------------ MODULE StreamSessionProofs ------------------------
(***************************************************************************)
(* Proof, for any numbers of transmissions, GOPs, losses and late starts,    *)
(* any GOP lengths and any --gops, that no label is used for two frames,      *)
(* that a receiver in step gets back what was sent, and that one out of step  *)
(* stays so.                                                                 *)
(*                                                                         *)
(* None of them is inductive: whether a label fits is decided by a count that *)
(* the receiver made from the numbers it has, against a label the sender      *)
(* wrote from its own.  The invariant relates both to one thing neither of    *)
(* them keeps, the place of a GOP in the transmission.  The label of the GOP  *)
(* at a place follows from the place (Numbered), and the place of what is     *)
(* received runs ahead of its position by what was missed (Received).  The    *)
(* arithmetic comes first: a count that starts in step gives a GOP its label   *)
(* exactly when the GOP is in its own place (RightInPlace), and one that       *)
(* starts at a later place never does (WrongWhenBehind).                      *)
(***************************************************************************)
EXTENDS StreamSession, FiniteSetTheorems, DataInduction

USE DEF senderVars, receiverVars

-----------------------------------------------------------------------------
(* A place in a transmission is one place in one segment.                     *)
LEMMA PlaceInSegment ==
  ASSUME NEW G \in Nat \ {0}, NEW p \in Nat \ {0}
  PROVE  \E q \in Nat, i \in 1 .. G : p = q * G + i
<1> DEFINE At(m) == \E q \in Nat, i \in 1 .. G : m + 1 = q * G + i
           S == {m \in Nat : At(m)}
<1>1. 0 \in S
  <2>1. 0 + 1 = 0 * G + 1 /\ 1 \in 1 .. G /\ 0 \in Nat
    OBVIOUS
  <2> QED BY <2>1
<1>2. ASSUME NEW m \in Nat, m \in S
      PROVE  m + 1 \in S
  <2>1. PICK q \in Nat, i \in 1 .. G : m + 1 = q * G + i
    BY <1>2
  <2>2. CASE i < G
    <3>1. i + 1 \in 1 .. G /\ (m + 1) + 1 = q * G + (i + 1)
      BY <2>1, <2>2
    <3>2. At(m + 1)
      BY <3>1, Zenon
    <3> HIDE DEF At
    <3> QED BY <3>2
  <2>3. CASE i = G
    <3>1. (q + 1) * G = q * G + G /\ q + 1 \in Nat
      OBVIOUS
    <3>2. (m + 1) + 1 = (q + 1) * G + 1 /\ 1 \in 1 .. G
      BY <2>1, <2>3, <3>1
    <3>3. q + 1 \in Nat
      OBVIOUS
    <3>4. At(m + 1)
      BY <3>2, <3>3, Zenon
    <3> HIDE DEF At
    <3> QED BY <3>4
  <2>4. i \in Nat /\ i <= G
    OBVIOUS
  <2> HIDE DEF S
  <2>5. i < G \/ i = G
    BY <2>4
  <2> QED BY <2>2, <2>3, <2>5
<1> HIDE DEF S
<1>3. p - 1 \in S
  BY <1>1, <1>2, Inductively
<1> QED BY <1>3 DEF S

LEMMA SamePlace ==
  ASSUME NEW G \in Nat \ {0}, NEW q \in Nat, NEW r \in Nat,
         NEW i \in 1 .. G, NEW j \in 1 .. G, q * G + i = r * G + j
  PROVE  q = r /\ i = j
<1>1. ASSUME NEW a \in Nat, NEW b \in Nat, a < b
      PROVE  a * G + G <= b * G
  <2>1. PICK d \in Nat : b = a + d + 1
    <3>1. b - a - 1 \in Nat /\ b = a + (b - a - 1) + 1
      BY <1>1
    <3> QED BY <3>1
  <2>2. b * G = a * G + d * G + G /\ d * G \in Nat /\ a * G \in Nat
    BY <2>1
  <2> QED BY <2>2
<1>2. q * G \in Nat /\ r * G \in Nat
  OBVIOUS
<1>3. ~ (q < r)
  BY <1>1, <1>2
<1>4. ~ (r < q)
  BY <1>1, <1>2
<1> QED BY <1>2, <1>3, <1>4

(* The labels a receiver derives for a segment of its own counting.  `seg` and *)
(* `frame` are what the sender put in the labels of its GOPs, `size` their      *)
(* frames; the receiver's segment holds the GOPs at `pos`, and `first` are the  *)
(* first frames it counts.                                                  *)
Labelled(G, c, seg, frame, size, start) ==
    /\ c \in Nat /\ seg \in [1 .. c -> Nat] /\ frame \in [1 .. c -> Nat]
    /\ size \in [1 .. c -> Nat \ {0}]
    /\ \A q \in Nat, i \in 1 .. G : q * G + i <= c =>
          /\ seg[q * G + i] = start + q
          /\ frame[q * G + i] =
                IF i = 1 THEN 0 ELSE frame[q * G + i - 1] + size[q * G + i - 1]
    /\ \A j, k \in 1 .. c : j < k /\ seg[j] = seg[k] => frame[j] + size[j] <= frame[k]

Counts(G, c, size, m, pos, first) ==
    /\ m \in 1 .. G /\ pos \in [1 .. m -> 1 .. c]
    /\ \A i, j \in 1 .. m : i <= j => pos[i] + (j - i) <= pos[j]
    /\ first \in [1 .. m -> Nat] /\ first[1] = 0
    /\ \A i \in 1 .. m - 1 : first[i + 1] = first[i] + size[pos[i]]

OfSegment(base, G, c, seg, frame, size, n) ==
    /\ \A i \in 1 .. G : base + i <= c => seg[base + i] = n
    /\ base + 1 <= c => frame[base + 1] = 0
    /\ \A i \in 1 .. G - 1 : base + i + 1 <= c =>
          frame[base + i + 1] = frame[base + i] + size[base + i]
    /\ \A p \in 1 .. c : seg[p] = n => \E i \in 1 .. G : p = base + i

LEMMA LabelAtPlace ==
  ASSUME NEW G \in Nat \ {0}, NEW c, NEW seg, NEW frame, NEW size, NEW start \in Nat,
         Labelled(G, c, seg, frame, size, start), NEW q \in Nat
  PROVE  OfSegment(q * G, G, c, seg, frame, size, start + q)
<1> DEFINE base == q * G
<1>1. base \in Nat
  OBVIOUS
<1>2. \A i \in 1 .. G : base + i <= c =>
          /\ seg[base + i] = start + q
          /\ frame[base + i] = IF i = 1 THEN 0 ELSE frame[base + i - 1] + size[base + i - 1]
  BY DEF Labelled
<1>3. ASSUME NEW p \in 1 .. c, seg[p] = start + q
      PROVE  \E i \in 1 .. G : p = base + i
  <2>1. c \in Nat /\ p \in Nat \ {0} /\ p <= c
    BY DEF Labelled
  <2>2. PICK r \in Nat, i \in 1 .. G : p = r * G + i
    BY <2>1, PlaceInSegment
  <2>3. seg[r * G + i] = start + r
    BY <2>1, <2>2 DEF Labelled
  <2>4. r = q
    BY <1>3, <2>2, <2>3
  <2> QED BY <2>2, <2>4
<1> HIDE DEF base
<1>4. base + 1 <= c => frame[base + 1] = 0
  BY <1>2
<1>5. ASSUME NEW i \in 1 .. G - 1, base + i + 1 <= c
      PROVE  frame[base + i + 1] = frame[base + i] + size[base + i]
  <2>1. i + 1 \in 1 .. G /\ i + 1 # 1 /\ base + (i + 1) = base + i + 1 /\ base + i + 1 - 1 = base + i
    BY <1>1
  <2> QED BY <1>2, <1>5, <2>1
<1> QED BY <1>2, <1>3, <1>4, <1>5 DEF base, OfSegment

(* A GOP received at its own place in its segment gets its label; one received *)
(* earlier in the segment than it was sent gets another, because every GOP     *)
(* missing before it has at least one frame.                                *)
SegmentBase(base, q, G) == q \in Nat /\ base = q * G

LEMMA RightInPlace ==
  ASSUME NEW G \in Nat \ {0}, NEW c, NEW seg, NEW frame, NEW size, NEW start \in Nat,
         NEW m, NEW pos, NEW first, NEW q, NEW base, SegmentBase(base, q, G),
         Labelled(G, c, seg, frame, size, start), Counts(G, c, size, m, pos, first),
         \A i \in 1 .. m : base + i <= pos[i]
  PROVE  \A i \in 1 .. m :
            (seg[pos[i]] = start + q /\ frame[pos[i]] = first[i]) <=> pos[i] = base + i
<1>1. base \in Nat /\ (\A i \in 1 .. m : base + i <= pos[i]) /\ q \in Nat /\ base = q * G
  BY DEF SegmentBase
<1>a. OfSegment(base, G, c, seg, frame, size, start + q)
  BY <1>1, LabelAtPlace
<1>2. /\ \A i \in 1 .. G : base + i <= c => seg[base + i] = start + q
      /\ base + 1 <= c => frame[base + 1] = 0
      /\ \A i \in 1 .. G - 1 : base + i + 1 <= c =>
            frame[base + i + 1] = frame[base + i] + size[base + i]
      /\ \A p \in 1 .. c : seg[p] = start + q => \E i \in 1 .. G : p = base + i
  BY <1>a DEF OfSegment
<1>b. c \in Nat /\ m \in Nat /\ m >= 1 /\ m <= G
  BY DEF Labelled, Counts
<1>3. /\ pos \in [1 .. m -> 1 .. c] /\ \A i \in 1 .. m : pos[i] \in 1 .. c
      /\ first \in [1 .. m -> Nat] /\ first[1] = 0 /\ (\A i \in 1 .. m : first[i] \in Nat)
      /\ \A i \in 1 .. m - 1 : first[i + 1] = first[i] + size[pos[i]]
      /\ \A i, j \in 1 .. m : i <= j => pos[i] + (j - i) <= pos[j]
  BY DEF Labelled, Counts
<1>4. /\ \A p \in 1 .. c : frame[p] \in Nat /\ size[p] \in Nat /\ size[p] >= 1
      /\ \A j, k \in 1 .. c : j < k /\ seg[j] = seg[k] => frame[j] + size[j] <= frame[k]
  BY DEF Labelled
<1>5. ASSUME NEW i \in 1 .. m, pos[i] = base + i
      PROVE  seg[pos[i]] = start + q /\ frame[pos[i]] = first[i]
  <2>1. \A j \in 1 .. i : j \in 1 .. m /\ pos[j] = base + j /\ base + j <= c
    <3> TAKE j \in 1 .. i
    <3>1. j \in 1 .. m /\ j \in Nat /\ i \in Nat /\ j <= i
      BY <1>b
    <3>2. pos[j] \in 1 .. c /\ pos[i] \in 1 .. c
      BY <1>b, <1>3, <3>1
    <3>3. pos[j] + (i - j) <= pos[i] /\ base + j <= pos[j]
      BY <1>1, <1>3, <3>1
    <3>4. pos[j] = base + j
      BY ONLY <1>1, <1>b, <1>5, <3>1, <3>2, <3>3
    <3> QED BY <1>b, <3>1, <3>2, <3>4
  <2> DEFINE S == {j \in Nat : j + 1 <= i => frame[base + (j + 1)] = first[j + 1]}
  <2>2. 0 \in S
    <3>1. base + 1 <= c /\ base + (0 + 1) = base + 1
      BY <1>1, <1>b, <1>3, <2>1
    <3> QED BY <1>2, <1>b, <1>3, <3>1
  <2>3. ASSUME NEW j \in Nat, j \in S
        PROVE  j + 1 \in S
    <3> SUFFICES ASSUME (j + 1) + 1 <= i
                 PROVE  frame[base + ((j + 1) + 1)] = first[(j + 1) + 1]
      OBVIOUS
    <3>1. j + 1 \in 1 .. m - 1 /\ j + 1 \in 1 .. i /\ j + 1 \in 1 .. G - 1 /\ j + 1 <= i
          /\ (j + 1) + 1 \in 1 .. i
      BY <1>b, <1>3
    <3>2. frame[base + (j + 1)] = first[j + 1]
      BY <2>3, <3>1
    <3>3. first[(j + 1) + 1] = first[j + 1] + size[base + (j + 1)]
      BY <1>b, <1>3, <2>1, <3>1
    <3>4. base + (j + 1) + 1 <= c /\ base + ((j + 1) + 1) = base + (j + 1) + 1
      BY <1>1, <1>b, <1>3, <2>1, <3>1
    <3> QED BY <1>2, <3>1, <3>2, <3>3, <3>4
  <2> HIDE DEF S
  <2>4. i - 1 \in S
    <3>1. \A n \in Nat : n \in S
      BY <2>2, <2>3, Inductively
    <3> QED BY <1>b, <3>1
  <2>5. (i - 1) + 1 = i /\ i <= i /\ i \in 1 .. i /\ i \in 1 .. G
    BY <1>b, <1>3
  <2> QED BY <1>2, <1>5, <2>1, <2>4, <2>5 DEF S
<1>6. ASSUME NEW i \in 1 .. m, pos[i] # base + i, seg[pos[i]] = start + q
      PROVE  frame[pos[i]] > first[i]
  <2>1. PICK s \in 1 .. G : pos[i] = base + s
    BY <1>2, <1>b, <1>3, <1>6
  <2>2. s > i
    BY <1>1, <1>6, <2>1, <1>b, <1>3
  <2>3. \A j \in 1 .. i : /\ j \in 1 .. m /\ pos[j] \in 1 .. c /\ base + j <= pos[j]
                          /\ pos[j] + (i - j) <= pos[i]
    <3> TAKE j \in 1 .. i
    <3>1. j \in 1 .. m /\ j \in Nat /\ j <= i
      BY <1>b
    <3> QED BY <1>1, <1>3, <3>1
  <2>4. \A p \in 1 .. s : base + p \in 1 .. c /\ seg[base + p] = start + q
    <3> TAKE p \in 1 .. s
    <3>1. p \in 1 .. G
      OBVIOUS
    <3>2. base + p <= base + s /\ base + p \in Nat /\ base + p >= 1
      BY <1>1
    <3>3. base + s \in 1 .. c
      BY <1>3, <2>1
    <3>4. base + p <= c /\ base + p \in 1 .. c
      BY ONLY <1>b, <3>2, <3>3
    <3> QED BY <1>2, <3>1, <3>4
  <2>5. \A j \in 1 .. i : seg[pos[j]] = start + q
    <3> TAKE j \in 1 .. i
    <3>1. pos[j] - base \in 1 .. s /\ base + (pos[j] - base) = pos[j]
      <4>1. pos[j] \in Nat /\ j \in Nat /\ i \in Nat /\ j >= 1 /\ j <= i /\ s \in Nat
        BY <1>b, <2>3
      <4>2. base + j <= pos[j] /\ pos[j] + (i - j) <= base + s
        BY <2>1, <2>3
      <4> QED BY ONLY <1>1, <4>1, <4>2
    <3> QED BY <2>4, <3>1
  <2> DEFINE S == {j \in Nat : j + 1 <= i =>
                     /\ first[j + 1] <= frame[pos[j + 1]]
                     /\ base + (j + 1) < pos[j + 1] => first[j + 1] < frame[pos[j + 1]]}
  <2>6. 0 \in S
    <3>1. 1 \in 1 .. i /\ 1 \in 1 .. m /\ pos[1] \in 1 .. c /\ 0 + 1 = 1 /\ first[1] = 0
      BY <1>b, <1>3
    <3>2. ASSUME base + 1 < pos[1]
          PROVE  0 < frame[pos[1]]
      <4>1. base + 1 \in 1 .. c /\ seg[base + 1] = seg[pos[1]]
        BY <1>b, <1>3, <2>2, <2>4, <2>5, <3>1
      <4>2. frame[base + 1] + size[base + 1] <= frame[pos[1]]
        BY <1>4, <3>1, <3>2, <4>1
      <4> QED BY <1>4, <3>1, <4>1, <4>2
    <3>3. 0 <= frame[pos[1]]
      BY <1>4, <3>1
    <3> QED BY <3>1, <3>2, <3>3
  <2>7. ASSUME NEW j \in Nat, j \in S
        PROVE  j + 1 \in S
    <3> DEFINE k == j + 1
    <3> SUFFICES ASSUME k + 1 <= i
                 PROVE  /\ first[k + 1] <= frame[pos[k + 1]]
                        /\ base + (k + 1) < pos[k + 1] => first[k + 1] < frame[pos[k + 1]]
      OBVIOUS
    <3>1. k \in 1 .. i /\ k \in 1 .. m - 1 /\ k + 1 \in 1 .. i /\ k \in 1 .. m /\ k + 1 \in 1 .. m
      BY <1>b, <1>3
    <3>2. /\ first[k] <= frame[pos[k]]
          /\ base + k < pos[k] => first[k] < frame[pos[k]]
      BY <2>7, <3>1
    <3> HIDE DEF k, S
    <3>3. pos[k] \in 1 .. c /\ pos[k + 1] \in 1 .. c /\ pos[k] + 1 <= pos[k + 1]
      <4>1. (k + 1) - k = 1 /\ k <= k + 1
        BY <3>1
      <4> QED BY <1>b, <1>3, <3>1, <4>1
    <3>4. first[k + 1] = first[k] + size[pos[k]] /\ first[k] \in Nat /\ first[k + 1] \in Nat
      BY <1>b, <1>3, <3>1
    <3>5. /\ size[pos[k]] \in Nat /\ frame[pos[k]] \in Nat /\ frame[pos[k + 1]] \in Nat
          /\ frame[pos[k]] + size[pos[k]] <= frame[pos[k + 1]]
      <4>1. pos[k] < pos[k + 1] /\ seg[pos[k]] = seg[pos[k + 1]]
        BY <2>5, <3>1, <3>3
      <4> QED BY <1>4, <3>3, <4>1
    <3>6. first[k + 1] <= frame[pos[k + 1]]
      BY <3>2, <3>4, <3>5
    <3>7. ASSUME base + (k + 1) < pos[k + 1]
          PROVE  first[k + 1] < frame[pos[k + 1]]
      <4>1. CASE base + k < pos[k]
        BY <3>2, <3>4, <3>5, <4>1
      <4>2. CASE base + k = pos[k]
        <5>1. /\ base + (k + 1) \in 1 .. c /\ seg[base + (k + 1)] = seg[pos[k + 1]]
              /\ base + k \in 1 .. c /\ seg[base + k] = seg[base + (k + 1)]
          <6>1. k + 1 \in 1 .. s /\ k \in 1 .. s
            BY <1>b, <1>3, <2>2, <3>1
          <6> QED BY <2>4, <2>5, <3>1, <6>1
        <5>2. frame[base + (k + 1)] + size[base + (k + 1)] <= frame[pos[k + 1]]
          BY <1>4, <3>3, <3>7, <5>1
        <5>3. base + k < base + (k + 1)
          BY <1>1, <3>1
        <5>4. frame[pos[k]] + size[pos[k]] <= frame[base + (k + 1)]
          BY <1>4, <4>2, <5>1, <5>3
        <5>5. frame[base + (k + 1)] \in Nat /\ size[base + (k + 1)] \in Nat /\ size[base + (k + 1)] >= 1
          BY <1>4, <5>1
        <5> QED BY <3>2, <3>4, <3>5, <5>2, <5>4, <5>5
      <4>3. base + k <= pos[k] /\ base \in Nat /\ k \in Nat /\ pos[k] \in Nat
        BY <1>1, <2>3, <3>1, <3>3
      <4> QED BY <4>1, <4>2, <4>3
    <3> QED BY <3>6, <3>7
  <2> HIDE DEF S
  <2>8. i - 1 \in S
    <3>1. \A n \in Nat : n \in S
      BY <2>6, <2>7, Inductively
    <3> QED BY <1>b, <3>1
  <2>9. (i - 1) + 1 = i /\ i <= i /\ base + i < pos[i]
    BY <1>1, <1>b, <1>3, <2>1, <2>2
  <2>10. first[i] < frame[pos[i]] /\ pos[i] \in 1 .. c
    BY <1>b, <1>3, <2>8, <2>9 DEF S
  <2> QED BY <1>b, <1>3, <1>4, <2>10
<1>7. ASSUME NEW i \in 1 .. m
      PROVE  (seg[pos[i]] = start + q /\ frame[pos[i]] = first[i]) <=> pos[i] = base + i
  <2>1. pos[i] \in 1 .. c /\ frame[pos[i]] \in Nat /\ first[i] \in Nat
    BY <1>b, <1>3, <1>4
  <2>2. CASE pos[i] = base + i
    BY <1>5, <2>2
  <2>3. CASE pos[i] # base + i
    BY <1>6, <2>1, <2>3
  <2> QED BY <2>2, <2>3
<1> QED BY <1>7

(* A receiver that counts from a later place than the one it is at gives a GOP  *)
(* the frames of GOPs of an earlier segment to come after.                    *)
LEMMA WrongWhenBehind ==
  ASSUME NEW G \in Nat \ {0}, NEW c, NEW seg, NEW frame, NEW size, NEW start \in Nat,
         NEW m, NEW pos, NEW first, NEW q, NEW base, SegmentBase(base, q, G),
         Labelled(G, c, seg, frame, size, start), Counts(G, c, size, m, pos, first),
         \A i \in 1 .. m : pos[i] = pos[1] + (i - 1), pos[1] <= base
  PROVE  \A i \in 1 .. m : ~ (seg[pos[i]] = start + q /\ frame[pos[i]] = first[i])
<1>1. base \in Nat /\ pos[1] <= base /\ q \in Nat /\ base = q * G
  BY DEF SegmentBase
<1>a. OfSegment(base, G, c, seg, frame, size, start + q)
  BY <1>1, LabelAtPlace
<1>2. /\ base + 1 <= c => frame[base + 1] = 0
      /\ \A i \in 1 .. G - 1 : base + i + 1 <= c =>
            frame[base + i + 1] = frame[base + i] + size[base + i]
      /\ \A p \in 1 .. c : seg[p] = start + q => \E i \in 1 .. G : p = base + i
  BY <1>a DEF OfSegment
<1>b. c \in Nat /\ m \in Nat /\ m >= 1 /\ m <= G
  BY DEF Labelled, Counts
<1>3. /\ pos \in [1 .. m -> 1 .. c] /\ \A i \in 1 .. m : pos[i] \in 1 .. c
      /\ first \in [1 .. m -> Nat] /\ (\A i \in 1 .. m : first[i] \in Nat)
      /\ \A i \in 1 .. m - 1 : first[i + 1] = first[i] + size[pos[i]]
  BY DEF Labelled, Counts
<1>4. \A p \in 1 .. c : frame[p] \in Nat /\ size[p] \in Nat /\ size[p] >= 1
  BY DEF Labelled
<1> SUFFICES ASSUME NEW i \in 1 .. m, seg[pos[i]] = start + q
             PROVE  frame[pos[i]] < first[i]
  <2>1. \A i \in 1 .. m : frame[pos[i]] \in Nat /\ first[i] \in Nat
    BY <1>b, <1>3, <1>4
  <2> QED BY <2>1
<1>5. PICK s \in 1 .. G : pos[i] = base + s
  BY <1>2, <1>b, <1>3
<1>6. pos[1] \in 1 .. c /\ pos[i] = pos[1] + (i - 1) /\ pos[i] \in 1 .. c
  BY <1>b, <1>3
<1>7. s < i
  <2>1. pos[1] \in Nat /\ pos[1] + (i - 1) = base + s /\ i \in Nat /\ i >= 1 /\ s \in Nat
    BY <1>b, <1>3, <1>5, <1>6
  <2> QED BY ONLY <1>1, <2>1
<1> DEFINE d == i - s
<1>8. d \in Nat /\ d >= 1 /\ d + s = i
  BY <1>b, <1>3, <1>7
<1>9. \A j \in 1 .. s : d + j \in 1 .. m /\ pos[d + j] = base + j /\ base + j \in 1 .. c
  <2> TAKE j \in 1 .. s
  <2>1. d + j \in 1 .. m
    BY <1>b, <1>3, <1>8
  <2>2. pos[d + j] = pos[1] + ((d + j) - 1)
    BY <2>1
  <2>3. pos[1] \in Nat /\ pos[1] + (i - 1) = base + s /\ i \in Nat /\ s \in Nat /\ j \in Nat /\ d \in Nat /\ d + s = i
    BY <1>5, <1>6, <1>8
  <2>4. pos[d + j] = base + j
    BY <1>1, <2>2, <2>3
  <2>5. pos[d + j] \in 1 .. c
    BY <1>3, <2>1
  <2> QED BY <2>1, <2>4, <2>5
<1> HIDE DEF d
<1> DEFINE S == {j \in Nat : j + 1 <= s => frame[base + (j + 1)] < first[d + (j + 1)]}
<1>10. 0 \in S
  <2>1. 1 \in 1 .. s /\ 0 + 1 = 1 /\ base + 1 <= c
    BY <1>b, <1>3, <1>9
  <2>2. d \in 1 .. m - 1 /\ d \in 1 .. m
    BY <1>b, <1>3, <1>8
  <2>3. first[d + 1] = first[d] + size[pos[d]] /\ pos[d] \in 1 .. c /\ first[d] \in Nat
    BY <1>b, <1>3, <2>2
  <2>4. size[pos[d]] >= 1 /\ size[pos[d]] \in Nat
    BY <1>4, <2>3
  <2>5. frame[base + 1] = 0
    BY <1>2, <2>1
  <2> QED BY <2>1, <2>3, <2>4, <2>5
<1>11. ASSUME NEW j \in Nat, j \in S
       PROVE  j + 1 \in S
  <2> DEFINE k == j + 1
  <2> SUFFICES ASSUME k + 1 <= s
               PROVE  frame[base + (k + 1)] < first[d + (k + 1)]
    OBVIOUS
  <2>1. k \in 1 .. s /\ k + 1 \in 1 .. s /\ k \in 1 .. G - 1
    BY <1>b, <1>3
  <2>2. frame[base + k] < first[d + k]
    BY <1>11, <2>1
  <2> HIDE DEF k, S
  <2>3. base + k + 1 <= c /\ base + (k + 1) = base + k + 1 /\ base + k \in 1 .. c
    <3>1. base + (k + 1) \in 1 .. c /\ base + k \in 1 .. c
      BY <1>9, <2>1
    <3>2. k \in Nat /\ base \in Nat
      BY <1>1, <2>1
    <3>3. base + (k + 1) = base + k + 1
      BY <3>2
    <3> QED BY <1>b, <3>1, <3>3
  <2>4. frame[base + (k + 1)] = frame[base + k] + size[base + k]
    BY <1>2, <2>1, <2>3
  <2>5. d + k \in 1 .. m - 1 /\ d + k \in 1 .. m /\ d + (k + 1) = (d + k) + 1 /\ pos[d + k] = base + k
    BY <1>b, <1>3, <1>8, <1>9, <2>1
  <2>6. first[d + (k + 1)] = first[d + k] + size[base + k] /\ first[d + k] \in Nat
    BY <1>b, <1>3, <2>5
  <2>7. frame[base + k] \in Nat /\ size[base + k] \in Nat
    BY <1>4, <2>3
  <2> QED BY <2>2, <2>4, <2>6, <2>7
<1> HIDE DEF S
<1>12. s - 1 \in S
  <2>1. \A n \in Nat : n \in S
    BY <1>10, <1>11, Inductively
  <2> QED BY <1>5, <2>1
<1>13. (s - 1) + 1 = s /\ s <= s
  BY <1>b, <1>3
<1> QED BY <1>5, <1>8, <1>12, <1>13 DEF S

(* Frames are numbered from 0 in a segment, each GOP's from where the last    *)
(* one's end.                                                               *)
LEMMA FirstFrames ==
  ASSUME NEW T, NEW gops \in Seq(T), \A i \in 1 .. Len(gops) : gops[i].frames \in Nat
  PROVE  /\ FirstFrame(gops, 1) = 0
         /\ \A i \in 1 .. Len(gops) : FirstFrame(gops, i) \in Nat
         /\ \A i \in 1 .. Len(gops) - 1 :
                FirstFrame(gops, i + 1) = FirstFrame(gops, i) + gops[i].frames
<1> DEFINE n == Len(gops)
           V == Nat
           step == [p \in V \X (1 .. n) |-> p[1] + gops[p[2]].frames]
<1>1. n \in Nat /\ DOMAIN gops = 1 .. n /\ \A i \in 1 .. n : gops[i].frames \in Nat
  OBVIOUS
<1> HIDE DEF n
<1>2. step \in [V \X (1 .. n) -> V] /\ \A m \in V, k \in 1 .. n : step[<<m, k>>] = m + gops[k].frames
  BY <1>1 
<1>b. 0 \in V
  OBVIOUS
<1> HIDE DEF step, V
<1>3. PICK g : Steps(g, n, V, 0, step)
  <2>1. n \in Nat
    BY <1>1
  <2>2. step \in [V \X (1 .. n) -> V]
    BY <1>2
  <2> QED BY ONLY <1>b, <2>1, <2>2, StepRecursion
<1>4. \A k \in 1 .. n : g[k] = g[k - 1] + gops[k].frames /\ g[k - 1] \in V
  <2> TAKE k \in 1 .. n
  <2>1. k - 1 \in 0 .. n
    BY <1>1
  <2> QED BY <1>2, <1>3, <2>1 DEF Steps
<1>5. ASSUME NEW m \in 0 .. n
      PROVE  FirstFrame(gops, m + 1) = g[m]
  <2> DEFINE s == SubSeq(gops, 1, (m + 1) - 1)
             iter[t \in SUBSET DOMAIN s] == IF t = {} THEN 0 ELSE iter[t \ {Max(t)}] + s[Max(t)].frames
             low == [p \in V \X (1 .. m) |-> p[1] + s[p[2]].frames]
  <2>1. FirstFrame(gops, m + 1) = iter[DOMAIN s]
    BY DEF FirstFrame, FoldLeft, MapThenFoldSet
  <2>2. m \in Nat /\ DOMAIN s = 1 .. m /\ \A k \in 1 .. m : s[k] = gops[k]
    BY <1>1 DEF n
  <2> HIDE DEF s
  <2>4. low \in [V \X (1 .. m) -> V] /\ \A j \in V, k \in 1 .. m : low[<<j, k>>] = j + gops[k].frames
    BY <1>1, <2>2 DEF V
  <2> HIDE DEF low
  <2>5. PICK h : Unfolds(h, m, V, 0, low)
    <3>1. m \in Nat
      BY <2>2
    <3>2. low \in [V \X (1 .. m) -> V]
      BY <2>4
    <3> QED BY ONLY <1>b, <3>1, <3>2, FoldRecursion
  <2>6. h = [t \in SUBSET DOMAIN s |-> IF t = {} THEN 0 ELSE h[t \ {Max(t)}] + s[Max(t)].frames]
    <3>1. ASSUME NEW t \in SUBSET (1 .. m), t # {}
          PROVE  h[t] = h[t \ {Max(t)}] + s[Max(t)].frames
      <4>1. Max(t) \in 1 .. m
        BY <2>2, <3>1, BoundedMax
      <4>2. h[t \ {Max(t)}] \in V
        BY <2>5 DEF Unfolds
      <4> QED BY <2>2, <2>4, <2>5, <3>1, <4>1, <4>2 DEF Unfolds
    <3>2. \A t \in SUBSET (1 .. m) : h[t] = IF t = {} THEN 0 ELSE h[t \ {Max(t)}] + s[Max(t)].frames
      BY <2>5, <3>1 DEF Unfolds
    <3> QED BY <2>2, <2>5, <3>2 DEF Unfolds
  <2>7. iter = [t \in SUBSET DOMAIN s |-> IF t = {} THEN 0 ELSE iter[t \ {Max(t)}] + s[Max(t)].frames]
    BY <2>6
  <2> HIDE DEF iter
  <2>8. iter[{}] = 0
    BY <2>2, <2>7
  <2>9. \A k \in 1 .. m : iter[1 .. k - 1] \in V => iter[1 .. k] = low[<<iter[1 .. k - 1], k>>]
    <3> TAKE k \in 1 .. m
    <3> HAVE iter[1 .. k - 1] \in V
    <3>1. 1 .. k \in SUBSET (1 .. m) /\ k \in Nat \ {0} /\ k \in 1 .. m
      BY <2>2
    <3>2. 1 .. k # {} /\ Max(1 .. k) = k /\ (1 .. k) \ {Max(1 .. k)} = 1 .. k - 1
      BY <3>1, IntervalMax
    <3>3. iter[1 .. k] = iter[1 .. k - 1] + s[k].frames
      BY <2>2, <2>7, <3>1, <3>2
    <3> QED BY <2>2, <2>4, <3>1, <3>3
  <2>10. /\ \A k \in 0 .. m : k \in 0 .. n
         /\ \A k \in 1 .. m : k \in 1 .. n /\ g[k] = low[<<g[k - 1], k>>]
    BY <1>1, <1>4, <2>2, <2>4
  <2> DEFINE gg == [k \in 0 .. m |-> g[k]]
  <2>11. Steps(gg, m, V, 0, low) /\ gg[m] = g[m]
    BY <1>3, <2>2, <2>10 DEF Steps
  <2> HIDE DEF gg
  <2>12. \A k \in 0 .. m : iter[1 .. k] = gg[k]
    <3>1. m \in Nat
      BY <2>2
    <3>2. Steps(gg, m, V, 0, low)
      BY <2>11
    <3>3. FoldSteps(iter, m, V, low)
      BY <2>9 DEF FoldSteps
    <3> QED BY ONLY <2>8, <3>1, <3>2, <3>3, FoldOfInterval
  <2>13. m \in 0 .. m
    BY <2>2
  <2> QED BY <2>1, <2>2, <2>11, <2>12, <2>13
<1>6. \A i \in 1 .. n : i - 1 \in 0 .. n /\ (i - 1) + 1 = i
  BY <1>1
<1>7. 0 \in 0 .. n /\ 0 + 1 = 1
  BY <1>1
<1>8. \A i \in 1 .. n : FirstFrame(gops, i) = g[i - 1]
  BY <1>5, <1>6
<1>9. \A i \in 1 .. n - 1 : FirstFrame(gops, i + 1) = g[i] /\ i \in 1 .. n /\ g[i] = g[i - 1] + gops[i].frames
  BY <1>1, <1>4, <1>5
<1>10. FirstFrame(gops, 1) = 0
  BY <1>3, <1>5, <1>7 DEF Steps
<1> QED BY <1>3, <1>6, <1>8, <1>9, <1>10 DEF n, V, Steps

-----------------------------------------------------------------------------
(* The invariant.  `b` is the number of GOPs sent in earlier transmissions, so *)
(* that GOP i of this one is locked[b + i].                                   *)

Gop == [gop : Nat \X Nat, frames : Nat \ {0}]
Locked == [gop : Nat \X Nat, frames : Nat \ {0},
           label : [nonce : Nat, segment : Nat, frame : Nat]]

Opening == [gop : Nat \X Nat, right : BOOLEAN]

(* What each variable holds, whatever the others do.                          *)
Typed ==
    /\ run \in 0 .. MaxRuns /\ session \in Session \cup {None} /\ saved \in Session \cup {None}
    /\ sender \in {"idle", "reading", "draining"} /\ read \in 0 .. MaxGops /\ number \in Nat
    /\ batch \in Seq(Gop) /\ locked \in Seq(Locked) /\ wire \in Seq(Locked) /\ inbox \in Seq(Locked)
    /\ opened \in Seq(Opening)
    /\ rx \in [on : BOOLEAN, session : Session \cup {None}, number : Nat,
               skipped : Nat, ahead : Nat, lost : Nat]

(* This transmission's GOPs follow those of the earlier ones, in order and     *)
(* under its own nonce.                                                      *)
Sent(b) ==
    /\ \A k \in 1 .. b : locked[k].label.nonce < run
    /\ \A k \in b + 1 .. Len(locked) : locked[k].label.nonce = run /\ locked[k].gop = <<run, k - b>>

(* GOP i of segment q of this transmission has that segment's number in its    *)
(* label and the frames before it in the segment as its first frame.          *)
NumberedAt(b, q, i) ==
    LET k == b + q * GroupSize(session) + i
    IN  k <= Len(locked) =>
          /\ locked[k].label.segment = session.first + q
          /\ locked[k].label.frame =
                IF i = 1 THEN 0 ELSE locked[k - 1].label.frame + locked[k - 1].frames

Numbered(b) ==
    run > 0 => \A q \in Nat, i \in 1 .. GroupSize(session) : NumberedAt(b, q, i)

(* The order labels are given in: it keeps the frames of two GOPs apart.       *)
Before(g, h) ==
    \/ g.label.nonce < h.label.nonce
    \/ /\ g.label.nonce = h.label.nonce
       /\ \/ g.label.segment < h.label.segment
          \/ g.label.segment = h.label.segment /\ g.label.frame + g.frames <= h.label.frame

Ordered == \A j, k \in 1 .. Len(locked) : j < k => Before(locked[j], locked[k])

(* Every segment written so far was full while more is to come, and the next   *)
(* number is one no GOP of this transmission has yet.                         *)
Sending(b) ==
    /\ Len(locked) <= MaxGops
    /\ run > 0 => session \in Session /\ session.nonce = run
    /\ sender # "idle" =>
          /\ run > 0 /\ number >= session.first
          /\ Len(batch) <= GroupSize(session) /\ Len(locked) + Len(batch) <= MaxGops
          /\ read = (Len(locked) - b) + Len(batch)
          /\ \A i \in 1 .. Len(batch) : batch[i].gop = <<run, (Len(locked) - b) + i>>
          /\ \A k \in b + 1 .. Len(locked) : locked[k].label.segment < number
          /\ sender = "reading" \/ batch # <<>> =>
                Len(locked) - b = (number - session.first) * GroupSize(session)

(* A record read from the session file is of a transmission that has ended.    *)
Recorded(s) ==
    /\ s \in Session /\ s.nonce <= run
    /\ s.nonce = run => s = session /\ sender = "idle"

Records ==
    /\ saved # None => Recorded(saved)
    /\ rx.on => Recorded(rx.session)

(* What is on the wire is the end of what was sent in this transmission.       *)
OnTheWire(b) ==
    /\ Len(wire) <= Len(locked) - b
    /\ \A i \in 1 .. Len(wire) : wire[i] = locked[(Len(locked) - Len(wire)) + i]

(* The place in the transmission of the i-th GOP the receiver got.              *)
Place(i) ==
    IF i <= Len(opened) THEN opened[i].gop[2] ELSE inbox[i - Len(opened)].gop[2]

(* The receiver gets the GOPs in the order sent.  A GOP's place runs ahead of   *)
(* its position here by those missed, skipped before it or lost, and by no more. *)
Received(b) == rx.on =>
    /\ rx.skipped + rx.lost + Len(inbox) + Len(opened) + Len(wire) = Len(locked) - b
    /\ Len(inbox) <= GroupSize(rx.session)
    /\ \A i \in 1 .. Len(opened) : opened[i].gop[1] = run
    /\ \A i \in 1 .. Len(inbox) : inbox[i] = locked[b + inbox[i].gop[2]]
    /\ \A i \in 1 .. Len(opened) + Len(inbox) :
          rx.skipped + i <= Place(i) /\ Place(i) <= rx.skipped + rx.lost + i
    /\ \A i, j \in 1 .. Len(opened) + Len(inbox) : i <= j => Place(i) + (j - i) <= Place(j)

(* Until the stream ends the receiver has unlocked full segments only.          *)
Counted == rx.on =>
    /\ rx.number >= rx.session.first + rx.ahead
    /\ \/ EndOfStream /\ inbox = <<>>
       \/ Len(opened) = (rx.number - (rx.session.first + rx.ahead)) * GroupSize(rx.session)

(* When a GOP is restored: never with another session's record; in step exactly *)
(* while nothing is lost; never when the count was wrong from the beginning.      *)
Judged == rx.on =>
    /\ rx.session.nonce # run => \A i \in 1 .. Len(opened) : ~opened[i].right
    /\ StartedInStep =>
          \A i \in 1 .. Len(opened) : opened[i].right <=> opened[i].gop[2] = rx.skipped + i
    /\ rx.session = session /\ rx.lost = 0 /\ rx.skipped # rx.ahead * GroupSize(session) =>
          \A i \in 1 .. Len(opened) : ~opened[i].right

Held(b) == Sent(b) /\ Numbered(b) /\ Sending(b) /\ OnTheWire(b) /\ Received(b)

IInv ==
    /\ Typed /\ Ordered /\ Records /\ Counted /\ Judged
    /\ \E b \in 0 .. Len(locked) :
          Sent(b) /\ Numbered(b) /\ Sending(b) /\ OnTheWire(b) /\ Received(b)

-----------------------------------------------------------------------------
(* The numbers in a session record.                                          *)
LEMMA SessionSize ==
  ASSUME NEW s \in Session
  PROVE  GroupSize(s) \in Nat \ {0} /\ s.first \in Nat /\ s.nonce \in 1 .. MaxRuns
<1>1. s.gops \in GroupSizes /\ s.first \in Firsts /\ s.nonce \in 1 .. MaxRuns
  BY DEF Session
<1>2. s.gops \in Nat /\ s.first \in Nat
  BY <1>1, StreamSessionAssumption
<1> QED BY <1>1, <1>2 DEF GroupSize

(* A concatenation, place by place.                                          *)
LEMMA Joined ==
  ASSUME NEW T, NEW s \in Seq(T), NEW t \in Seq(T)
  PROVE  /\ s \o t \in Seq(T) /\ Len(s \o t) = Len(s) + Len(t)
         /\ \A i \in 1 .. Len(s) : (s \o t)[i] = s[i]
         /\ \A i \in 1 .. Len(t) : (s \o t)[Len(s) + i] = t[i]
OBVIOUS

(* Within a segment a GOP's frames are numbered after those of the GOPs      *)
(* before.                                                                   *)
LEMMA FirstFramesInOrder ==
  ASSUME NEW T, NEW gops \in Seq(T), \A i \in 1 .. Len(gops) : gops[i].frames \in Nat
  PROVE  \A i, j \in 1 .. Len(gops) :
            i < j => FirstFrame(gops, i) + gops[i].frames <= FirstFrame(gops, j)
<1>1. /\ \A i \in 1 .. Len(gops) : FirstFrame(gops, i) \in Nat
      /\ \A i \in 1 .. Len(gops) - 1 :
            FirstFrame(gops, i + 1) = FirstFrame(gops, i) + gops[i].frames
  <2>1. \A i \in 1 .. Len(gops) : gops[i].frames \in Nat
    OBVIOUS
  <2> QED BY <2>1, FirstFrames
<1> SUFFICES ASSUME NEW i \in 1 .. Len(gops)
             PROVE  \A j \in 1 .. Len(gops) :
                       i < j => FirstFrame(gops, i) + gops[i].frames <= FirstFrame(gops, j)
  OBVIOUS
<1> DEFINE n == Len(gops)
           F(j) == FirstFrame(gops, j)
           S == {d \in Nat : i + d + 1 <= n => F(i) + gops[i].frames <= F(i + d + 1)}
<1>2. n \in Nat
  OBVIOUS
<1>3. \A j \in 1 .. n : F(j) \in Nat /\ gops[j].frames \in Nat
  BY <1>1
<1>4. \A j \in 1 .. n - 1 : F(j + 1) = F(j) + gops[j].frames
  BY <1>1
<1> HIDE DEF F, n
<1>i. i \in 1 .. n
  BY DEF n
<1>5. 0 \in S
  <2>1. i + 1 <= n => i \in 1 .. n - 1 /\ i + 1 \in 1 .. n
    BY <1>2, <1>i
  <2>2. i + 0 + 1 = i + 1
    BY <1>2, <1>i
  <2> QED BY <1>3, <1>4, <2>1, <2>2, <1>i
<1>6. ASSUME NEW d \in Nat, d \in S
      PROVE  d + 1 \in S
  <2> SUFFICES ASSUME i + (d + 1) + 1 <= n
               PROVE  F(i) + gops[i].frames <= F(i + (d + 1) + 1)
    OBVIOUS
  <2>1. /\ i + d + 1 <= n /\ i + (d + 1) + 1 = (i + d + 1) + 1
        /\ i + d + 1 \in 1 .. n - 1 /\ i + d + 1 \in 1 .. n
    BY <1>2, <1>i
  <2>2. F(i) + gops[i].frames <= F(i + d + 1)
    BY <1>6, <2>1
  <2>3. F(i + (d + 1) + 1) = F(i + d + 1) + gops[i + d + 1].frames
    BY <1>4, <2>1
  <2>4. F(i + d + 1) \in Nat /\ gops[i + d + 1].frames \in Nat /\ F(i) \in Nat /\ gops[i].frames \in Nat
    BY <1>3, <2>1, <1>i
  <2> HIDE DEF S
  <2> QED BY <2>2, <2>3, <2>4
<1> HIDE DEF S
<1>7. \A d \in Nat : d \in S
  BY <1>5, <1>6, Inductively
<1>8. ASSUME NEW j \in 1 .. n, i < j
      PROVE  F(i) + gops[i].frames <= F(j)
  <2>1. j - i - 1 \in Nat /\ i + (j - i - 1) + 1 = j /\ j <= n
    BY <1>2, <1>8, <1>i
  <2>2. j - i - 1 \in S
    BY <1>7, <2>1
  <2> QED BY <2>1, <2>2 DEF S
<1> QED BY <1>8 DEF F, n

(* What a segment the sender locks consists of.                              *)
LEMMA SegmentLocked ==
  ASSUME NEW gops \in Seq(Gop), NEW nonce \in Nat, NEW segment \in Nat
  PROVE  LET new == LockSegment(gops, nonce, segment)
         IN  /\ new \in Seq(Locked) /\ Len(new) = Len(gops)
             /\ \A i \in 1 .. Len(gops) :
                  /\ new[i].gop = gops[i].gop /\ new[i].frames = gops[i].frames
                  /\ new[i].label = [nonce |-> nonce, segment |-> segment, frame |-> FirstFrame(gops, i)]
<1> DEFINE new == LockSegment(gops, nonce, segment)
<1>1. \A i \in 1 .. Len(gops) : FirstFrame(gops, i) \in Nat
  <2>1. \A i \in 1 .. Len(gops) : gops[i].frames \in Nat
    <3>1. \A g \in Gop : g.frames \in Nat
      BY DEF Gop
    <3>2. \A i \in 1 .. Len(gops) : gops[i] \in Gop
      OBVIOUS
    <3> QED BY <3>1, <3>2
  <2> QED BY <2>1, FirstFrames
<1>2. DOMAIN gops = 1 .. Len(gops) /\ Len(gops) \in Nat
  OBVIOUS
<1>3. new = [i \in 1 .. Len(gops) |->
               [gop |-> gops[i].gop, frames |-> gops[i].frames,
                label |-> [nonce |-> nonce, segment |-> segment, frame |-> FirstFrame(gops, i)]]]
  BY <1>2 DEF LockSegment, Labels, FrameLabel
<1>4. \A i \in 1 .. Len(gops) :
         [gop |-> gops[i].gop, frames |-> gops[i].frames,
          label |-> [nonce |-> nonce, segment |-> segment, frame |-> FirstFrame(gops, i)]] \in Locked
  <2> TAKE i \in 1 .. Len(gops)
  <2>1. gops[i] \in Gop
    OBVIOUS
  <2>2. gops[i].gop \in Nat \X Nat /\ gops[i].frames \in Nat \ {0}
    BY <2>1 DEF Gop
  <2> QED BY <1>1, <2>2 DEF Locked
<1> HIDE DEF new
<1>5. new \in Seq(Locked) /\ Len(new) = Len(gops)
  BY <1>2, <1>3, <1>4
<1>6. \A i \in 1 .. Len(gops) :
        /\ new[i].gop = gops[i].gop /\ new[i].frames = gops[i].frames
        /\ new[i].label = [nonce |-> nonce, segment |-> segment, frame |-> FirstFrame(gops, i)]
  BY <1>3
<1> QED BY <1>5, <1>6 DEF new

(* What a segment the receiver unlocks consists of.                          *)
LEMMA SegmentUnlocked ==
  ASSUME NEW gops \in Seq(Locked), NEW nonce \in Nat, NEW segment \in Nat
  PROVE  LET new == UnlockSegment(gops, nonce, segment)
         IN  /\ new \in Seq(Opening) /\ Len(new) = Len(gops)
             /\ \A i \in 1 .. Len(gops) :
                  /\ new[i].gop = gops[i].gop
                  /\ new[i].right <=> /\ gops[i].label.nonce = nonce
                                      /\ gops[i].label.segment = segment
                                      /\ gops[i].label.frame = FirstFrame(gops, i)
<1> DEFINE new == UnlockSegment(gops, nonce, segment)
<1>2. DOMAIN gops = 1 .. Len(gops) /\ Len(gops) \in Nat
  OBVIOUS
<1>3. new = [i \in 1 .. Len(gops) |->
               [gop |-> gops[i].gop,
                right |-> gops[i].label = [nonce |-> nonce, segment |-> segment, frame |-> FirstFrame(gops, i)]]]
  BY <1>2 DEF UnlockSegment, Labels, FrameLabel
<1>4. \A i \in 1 .. Len(gops) :
         /\ gops[i].gop \in Nat \X Nat
         /\ gops[i].label \in [nonce : Nat, segment : Nat, frame : Nat]
  <2> TAKE i \in 1 .. Len(gops)
  <2>1. gops[i] \in Locked
    OBVIOUS
  <2> QED BY <2>1 DEF Locked
<1> HIDE DEF new
<1>5. new \in Seq(Opening) /\ Len(new) = Len(gops)
  BY <1>2, <1>3, <1>4 DEF Opening
<1>6. ASSUME NEW i \in 1 .. Len(gops)
      PROVE  /\ new[i].gop = gops[i].gop
             /\ new[i].right <=> /\ gops[i].label.nonce = nonce
                                 /\ gops[i].label.segment = segment
                                 /\ gops[i].label.frame = FirstFrame(gops, i)
  <2>1. new[i].gop = gops[i].gop
    BY <1>3
  <2>2. new[i].right = (gops[i].label = [nonce |-> nonce, segment |-> segment, frame |-> FirstFrame(gops, i)])
    BY <1>3
  <2>3. gops[i].label = [nonce |-> nonce, segment |-> segment, frame |-> FirstFrame(gops, i)]
          <=> /\ gops[i].label.nonce = nonce
              /\ gops[i].label.segment = segment
              /\ gops[i].label.frame = FirstFrame(gops, i)
    BY <1>4
  <2> QED BY <2>1, <2>2, <2>3
<1> QED BY <1>5, <1>6 DEF new

(* What a segment the receiver unlocks in the sender's own session looks like.  *)
LEMMA SegmentJudged ==
  ASSUME NEW b \in 0 .. Len(locked), Typed, Ordered, Records, Sent(b), Numbered(b), Received(b),
         rx.on, rx.session = session, session \in Session, session.nonce = run, inbox # <<>>,
         Counted, ~ (EndOfStream /\ inbox = <<>>),
         NEW i \in 1 .. Len(inbox)
  PROVE  LET right == UnlockSegment(inbox, rx.session.nonce, rx.number)[i].right
             place == inbox[i].gop[2]
         IN  /\ StartedInStep => (right <=> place = rx.skipped + (Len(opened) + i))
             /\ rx.lost = 0 /\ rx.skipped # rx.ahead * GroupSize(session) => ~right
<1> DEFINE G == GroupSize(session)
           c == Len(locked) - b
           seg == [p \in 1 .. c |-> locked[b + p].label.segment]
           frame == [p \in 1 .. c |-> locked[b + p].label.frame]
           size == [p \in 1 .. c |-> locked[b + p].frames]
           m == Len(inbox)
           n == Len(opened)
           pos == [j \in 1 .. m |-> inbox[j].gop[2]]
           first == [j \in 1 .. m |-> FirstFrame(inbox, j)]
           q == rx.number - session.first
           right == UnlockSegment(inbox, rx.session.nonce, rx.number)[i].right
<1>1. /\ G \in Nat /\ G >= 1 /\ G \in Nat \ {0} /\ session.first \in Nat /\ run \in Nat /\ run > 0
      /\ b \in Nat /\ b <= Len(locked) /\ Len(locked) \in Nat /\ c \in Nat /\ n \in Nat
      /\ m \in Nat /\ m >= 1 /\ m <= G /\ b + c = Len(locked)
  <2>1. Len(locked) \in Nat /\ m \in Nat /\ n \in Nat /\ m # 0 /\ b \in Nat /\ b <= Len(locked)
    BY DEF Typed
  <2>2. m <= G
    BY DEF Received
  <2>3. G \in Nat \ {0} /\ session.first \in Nat /\ session.nonce \in 1 .. MaxRuns
    BY SessionSize
  <2> QED BY <2>1, <2>2, <2>3
<1>2. /\ rx.number \in Nat /\ rx.skipped \in Nat /\ rx.ahead \in Nat /\ rx.lost \in Nat
  BY DEF Typed
<1>3. q \in Nat /\ q * G = rx.ahead * G + n
  <2>1. rx.number >= session.first + rx.ahead
        /\ n = (rx.number - (session.first + rx.ahead)) * G
    BY DEF Counted
  <2> DEFINE d == rx.number - (session.first + rx.ahead)
             a == rx.ahead
  <2>2. d \in Nat /\ q = a + d /\ q \in Nat /\ a \in Nat
    <3>1. d \in Nat /\ a \in Nat
      BY <1>1, <1>2, <2>1
    <3>2. q = a + d
      <4> DEFINE f == session.first
      <4>1. f \in Nat /\ rx.number \in Nat /\ a \in Nat /\ d = rx.number - (f + a) /\ q = rx.number - f
        BY <1>1, <1>2
      <4> HIDE DEF f, d, a, q
      <4> QED BY <4>1
    <3> QED BY <3>1, <3>2
  <2>3. n = d * G
    BY <2>1
  <2> HIDE DEF a, d, q, n, G
  <2>4. (a + d) * G = a * G + d * G
    BY <1>1, <2>2
  <2> QED BY <2>2, <2>3, <2>4 DEF a
<1>4. \A p \in 1 .. c : /\ b + p \in 1 .. Len(locked) /\ locked[b + p] \in Locked
                        /\ locked[b + p].label.nonce = run
  <2> TAKE p \in 1 .. c
  <2>1. b + p \in b + 1 .. Len(locked) /\ b + p \in 1 .. Len(locked)
    BY <1>1
  <2>2. locked[b + p].label.nonce = run
    BY <2>1 DEF Sent
  <2>3. locked[b + p] \in Locked
    BY <2>1 DEF Typed
  <2> QED BY <2>1, <2>2, <2>3
<1>5. Labelled(G, c, seg, frame, size, session.first)
  <2>1. /\ seg \in [1 .. c -> Nat] /\ frame \in [1 .. c -> Nat] /\ size \in [1 .. c -> Nat \ {0}]
    <3>1. \A p \in 1 .. c : /\ locked[b + p].label.segment \in Nat
                            /\ locked[b + p].label.frame \in Nat
                            /\ locked[b + p].frames \in Nat \ {0}
      BY <1>4 DEF Locked
    <3> QED BY <3>1
  <2>2. ASSUME NEW r \in Nat, NEW j \in 1 .. G, r * G + j <= c
        PROVE  /\ seg[r * G + j] = session.first + r
               /\ frame[r * G + j] =
                     IF j = 1 THEN 0 ELSE frame[r * G + j - 1] + size[r * G + j - 1]
    <3> DEFINE base == r * G
               k == b + r * GroupSize(session) + j
    <3>1. base \in Nat
      BY <1>1
    <3>2. k <= Len(locked) =>
            /\ locked[k].label.segment = session.first + r
            /\ locked[k].label.frame =
                  IF j = 1 THEN 0 ELSE locked[k - 1].label.frame + locked[k - 1].frames
      <4>1. run > 0
        BY <1>1
      <4>2. NumberedAt(b, r, j)
        BY <4>1 DEF Numbered
      <4> QED BY <4>2 DEF NumberedAt
    <3>3. base + j <= c
      BY <2>2
    <3>k. k = b + base + j
      OBVIOUS
    <3> HIDE DEF base, k
    <3>4. /\ k = b + (base + j) /\ k <= Len(locked) /\ base + j \in 1 .. c
          /\ j # 1 => k - 1 = b + (base + j - 1) /\ base + j - 1 \in 1 .. c
      <4>1. j \in Nat /\ j >= 1 /\ base \in Nat /\ base + j <= c /\ k = b + base + j
        BY <1>1, <3>1, <3>3, <3>k
      <4> HIDE DEF c, G
      <4>2. k = b + (base + j)
        BY <1>1, <4>1
      <4>3. base + j \in 1 .. c /\ (j # 1 => base + j - 1 \in 1 .. c)
        BY <1>1, <4>1
      <4>4. k <= Len(locked) /\ k - 1 = b + (base + j - 1)
        BY <1>1, <4>1
      <4> QED BY <4>2, <4>3, <4>4
    <3>5. seg[base + j] = session.first + r
      BY <3>2, <3>4
    <3>6. frame[base + j] = IF j = 1 THEN 0 ELSE frame[base + j - 1] + size[base + j - 1]
      BY <3>2, <3>4
    <3> QED BY <3>5, <3>6 DEF base
  <2>3. ASSUME NEW j \in 1 .. c, NEW k \in 1 .. c, j < k, seg[j] = seg[k]
        PROVE  frame[j] + size[j] <= frame[k]
    <3>1. b + j < b + k
      BY <1>1, <2>3
    <3>2. Before(locked[b + j], locked[b + k])
      BY <1>4, <3>1 DEF Ordered
    <3>3. /\ locked[b + j].label.nonce = locked[b + k].label.nonce /\ locked[b + j].label.nonce \in Nat
          /\ locked[b + j].label.segment = locked[b + k].label.segment
          /\ locked[b + j].label.segment \in Nat
      BY <1>1, <1>4, <2>1, <2>3
    <3> QED BY <3>2, <3>3 DEF Before
  <2> HIDE DEF seg, frame, size, G, c
  <2> QED BY <1>1, <2>1, <2>2, <2>3 DEF Labelled
<1>6. \A j \in 1 .. m : /\ pos[j] = inbox[j].gop[2] /\ pos[j] \in 1 .. c /\ inbox[j] = locked[b + pos[j]]
                        /\ rx.skipped + (n + j) <= pos[j] /\ pos[j] <= rx.skipped + rx.lost + (n + j)
  <2> TAKE j \in 1 .. m
  <2>1. /\ n + j \in 1 .. n + m /\ ~ (n + j <= n) /\ (n + j) - n = j
    BY <1>1
  <2>2. Place(n + j) = pos[j]
    BY <2>1 DEF Place
  <2>3. rx.skipped + (n + j) <= pos[j] /\ pos[j] <= rx.skipped + rx.lost + (n + j)
    BY <2>1, <2>2 DEF Received
  <2>4. inbox[j] \in Locked
    BY DEF Typed
  <2>5. pos[j] \in Nat
    BY <2>4 DEF Locked
  <2>6. rx.skipped + rx.lost + m + n + Len(wire) = c /\ Len(wire) \in Nat
    BY DEF Received, Typed
  <2>7. pos[j] \in 1 .. c
    <3> DEFINE s == rx.skipped
               l == rx.lost
               w == Len(wire)
               p == pos[j]
    <3>1. j \in Nat /\ j >= 1 /\ j <= m /\ m \in Nat /\ n \in Nat /\ s \in Nat /\ l \in Nat
      BY <1>1, <1>2
    <3>2. /\ p \in Nat /\ w \in Nat /\ s + l + m + n + w = c
          /\ s + (n + j) <= p /\ p <= s + l + (n + j)
      BY <2>3, <2>5, <2>6
    <3> HIDE DEF s, l, w, p, m, n, c
    <3>3. p \in 1 .. c
      BY ONLY <3>1, <3>2
    <3> QED BY <3>3 DEF p
  <2>8. inbox[j] = locked[b + pos[j]]
    BY DEF Received
  <2> QED BY <2>3, <2>7, <2>8
<1>7. Counts(G, c, size, m, pos, first)
  <2>1. ASSUME NEW j \in 1 .. m, NEW k \in 1 .. m, j <= k
        PROVE  pos[j] + (k - j) <= pos[k]
    <3>1. /\ n + j \in 1 .. n + m /\ ~ (n + j <= n) /\ (n + j) - n = j
          /\ n + k \in 1 .. n + m /\ ~ (n + k <= n) /\ (n + k) - n = k
          /\ n + j <= n + k /\ (n + k) - (n + j) = k - j
      BY <1>1, <2>1
    <3>2. Place(n + j) = pos[j] /\ Place(n + k) = pos[k]
      BY <3>1 DEF Place
    <3>3. Place(n + j) + ((n + k) - (n + j)) <= Place(n + k)
      BY <3>1 DEF Received
    <3> QED BY <3>1, <3>2, <3>3
  <2>2. \A j \in 1 .. m : inbox[j].frames \in Nat
    <3>1. \A g \in Locked : g.frames \in Nat
      BY DEF Locked
    <3>2. \A j \in 1 .. m : inbox[j] \in Locked
      BY DEF Typed
    <3> QED BY <3>1, <3>2
  <2>3. inbox \in Seq(Locked)
    BY DEF Typed
  <2>4. /\ FirstFrame(inbox, 1) = 0
        /\ \A j \in 1 .. m : FirstFrame(inbox, j) \in Nat
        /\ \A j \in 1 .. m - 1 : FirstFrame(inbox, j + 1) = FirstFrame(inbox, j) + inbox[j].frames
    BY <2>2, <2>3, FirstFrames
  <2>5. first \in [1 .. m -> Nat] /\ first[1] = 0
    BY <1>1, <2>4
  <2>6. ASSUME NEW j \in 1 .. m - 1
        PROVE  first[j + 1] = first[j] + size[pos[j]]
    <3>1. j \in 1 .. m /\ j + 1 \in 1 .. m
      BY <1>1
    <3>2. size[pos[j]] = inbox[j].frames
      BY <1>6, <3>1
    <3> QED BY <2>4, <3>1, <3>2
  <2>7. pos \in [1 .. m -> 1 .. c] /\ m \in 1 .. G
    BY <1>1, <1>6
  <2> HIDE DEF pos, first, size, m, c, G
  <2> QED BY <2>1, <2>5, <2>6, <2>7 DEF Counts
<1>8. right <=> seg[pos[i]] = session.first + q /\ frame[pos[i]] = first[i]
  <2>1. right <=> /\ inbox[i].label.nonce = run /\ inbox[i].label.segment = rx.number
                  /\ inbox[i].label.frame = FirstFrame(inbox, i)
    <3>1. inbox \in Seq(Locked) /\ rx.session.nonce \in Nat /\ rx.session.nonce = run
      BY <1>1 DEF Typed
    <3>2. right <=> /\ inbox[i].label.nonce = rx.session.nonce
                    /\ inbox[i].label.segment = rx.number
                    /\ inbox[i].label.frame = FirstFrame(inbox, i)
      BY <1>2, <3>1, SegmentUnlocked
    <3> QED BY <3>1, <3>2
  <2>2. inbox[i].label.nonce = run /\ inbox[i] = locked[b + pos[i]] /\ pos[i] \in 1 .. c
    BY <1>4, <1>6
  <2>3. seg[pos[i]] = inbox[i].label.segment /\ frame[pos[i]] = inbox[i].label.frame
    BY <2>2
  <2>4. session.first + q = rx.number
    BY <1>1, <1>2
  <2>5. first[i] = FirstFrame(inbox, i)
    OBVIOUS
  <2> HIDE DEF right, seg, frame, first, pos, q
  <2>6. seg[pos[i]] = session.first + q <=> inbox[i].label.segment = rx.number
    BY <2>3, <2>4
  <2>7. frame[pos[i]] = first[i] <=> inbox[i].label.frame = FirstFrame(inbox, i)
    BY <2>3, <2>5
  <2> QED BY <2>1, <2>2, <2>6, <2>7
<1>9. first[i] = first[i] /\ i \in 1 .. m /\ i \in Nat /\ pos[i] \in Nat
  BY <1>6
<1> HIDE DEF seg, frame, size, pos, first, c, q, G, m, n, right
<1> DEFINE base == q * G
<1>d. G \in Nat \ {0} /\ session.first \in Nat /\ SegmentBase(base, q, G)
  BY <1>1, <1>3 DEF SegmentBase
<1>3a. base = rx.ahead * G + n
  BY <1>3
<1> HIDE DEF base
<1>10. ASSUME \A j \in 1 .. m : base + j <= pos[j]
       PROVE  right <=> pos[i] = base + i
  <2>2. \A j \in 1 .. m : (seg[pos[j]] = session.first + q /\ frame[pos[j]] = first[j])
                            <=> pos[j] = base + j
    BY ONLY <1>5, <1>7, <1>10, <1>d, RightInPlace
  <2> QED BY <1>8, <1>9, <2>2
<1>11. StartedInStep => (right <=> pos[i] = rx.skipped + (n + i))
  <2> SUFFICES ASSUME StartedInStep
               PROVE  right <=> pos[i] = rx.skipped + (n + i)
    OBVIOUS
  <2>1. rx.skipped = rx.ahead * G
    BY DEF StartedInStep, G
  <2>2. \A j \in 1 .. m : base + j = rx.skipped + (n + j)
    <3> TAKE j \in 1 .. m
    <3> DEFINE s == rx.skipped
    <3>1. base = s + n /\ s \in Nat /\ n \in Nat /\ j \in Nat
      BY <1>1, <1>2, <1>3a, <2>1
    <3> HIDE DEF s, n
    <3>2. base + j = s + (n + j)
      BY ONLY <3>1
    <3> QED BY <3>2 DEF s, n
  <2> QED BY <1>6, <1>9, <1>10, <2>2
<1>12. rx.lost = 0 /\ rx.skipped # rx.ahead * G => ~right
  <2> SUFFICES ASSUME rx.lost = 0, rx.skipped # rx.ahead * G
               PROVE  ~right
    OBVIOUS
  <2> DEFINE e == rx.ahead * G
  <2>1. e \in Nat /\ base = e + n
    BY <1>1, <1>2, <1>3a
  <2>2. base = e + n
    BY <2>1
  <2>3. \A j \in 1 .. m : pos[j] = rx.skipped + (n + j) /\ pos[j] \in Nat
    <3> TAKE j \in 1 .. m
    <3>1. pos[j] \in 1 .. c /\ rx.skipped + (n + j) <= pos[j] /\ pos[j] <= rx.skipped + 0 + (n + j)
      <4> HIDE DEF StartedInStep
      <4> QED BY <1>6
    <3> DEFINE s == rx.skipped
               p == pos[j]
    <3>2. /\ j \in Nat /\ n \in Nat /\ s \in Nat /\ p \in 1 .. c /\ c \in Nat
          /\ s + (n + j) <= p /\ p <= s + 0 + (n + j)
      BY <1>1, <1>2, <3>1
    <3> HIDE DEF s, p
    <3>3. p = s + (n + j) /\ p \in Nat
      BY <3>2
    <3> QED BY <3>3 DEF s, p
  <2>4. e # rx.skipped
    OBVIOUS
  <2> HIDE DEF e
  <2>5. CASE rx.skipped > e
    <3>1. \A j \in 1 .. m : base + j <= pos[j]
      BY <1>1, <1>2, <2>1, <2>2, <2>3, <2>5
    <3>2. pos[i] # base + i
      BY <1>1, <1>2, <1>9, <2>1, <2>2, <2>3, <2>5
    <3> QED BY <1>10, <3>1, <3>2
  <2>6. CASE rx.skipped < e
    <3>1. 1 \in 1 .. m
      BY <1>1
    <3>2. \A j \in 1 .. m : pos[j] = pos[1] + (j - 1)
      <4> TAKE j \in 1 .. m
      <4> DEFINE s == rx.skipped
      <4>1. pos[j] = s + (n + j) /\ pos[1] = s + (n + 1)
        BY <2>3, <3>1
      <4>2. s \in Nat /\ n \in Nat /\ j \in Nat
        BY <1>1, <1>2
      <4> HIDE DEF s, n, pos
      <4> QED BY ONLY <4>1, <4>2
    <3>3. pos[1] <= base
      BY <1>1, <1>2, <2>1, <2>3, <2>6, <3>1
    <3>5. \A j \in 1 .. m : ~ (seg[pos[j]] = session.first + q /\ frame[pos[j]] = first[j])
      BY ONLY <1>5, <1>7, <1>d, <3>2, <3>3, WrongWhenBehind
    <3> QED BY <1>8, <1>9, <3>5
  <2> QED BY <1>2, <2>1, <2>4, <2>5, <2>6
<1> QED BY <1>9, <1>11, <1>12, <1>6 DEF right, G, n, m

(* Sizes, and the GOPs waiting to be unlocked among those sent.               *)
LEMMA Sizes ==
  ASSUME Typed
  PROVE  /\ run \in Nat /\ number \in Nat /\ MaxGops \in Nat
         /\ Len(locked) \in Nat /\ Len(batch) \in Nat /\ Len(wire) \in Nat
         /\ Len(inbox) \in Nat /\ Len(opened) \in Nat
BY StreamSessionAssumption DEF Typed

(* The GOPs waiting to be unlocked are among those of this transmission.     *)
LEMMA WaitingWereSent ==
  ASSUME NEW b \in 0 .. Len(locked), Typed, Received(b), rx.on, NEW i \in 1 .. Len(inbox)
  PROVE  /\ inbox[i].gop[2] \in 1 .. Len(locked) - b
         /\ b + inbox[i].gop[2] \in b + 1 .. Len(locked)
<1> DEFINE n == Len(opened)
           m == Len(inbox)
           w == Len(wire)
           s == rx.skipped
           l == rx.lost
           p == inbox[i].gop[2]
           L == Len(locked)
<1>1. /\ n \in Nat /\ m \in Nat /\ w \in Nat /\ L \in Nat /\ s \in Nat /\ l \in Nat /\ b \in Nat
      /\ i \in Nat /\ i >= 1 /\ i <= m
  BY DEF Typed
<1>2. s + l + m + n + w = L - b
  BY DEF Received
<1>3. n + i \in 1 .. n + m /\ ~ (n + i <= n) /\ (n + i) - n = i
  BY <1>1
<1>4. Place(n + i) = p
  BY <1>3 DEF Place
<1>5. s + (n + i) <= p /\ p <= s + l + (n + i)
  BY <1>3, <1>4 DEF Received
<1>6. p \in Nat
  <2>1. inbox[i] \in Locked
    BY DEF Typed
  <2> QED BY <2>1 DEF Locked
<1> HIDE DEF n, m, w, s, l, p, L
<1>7. p \in 1 .. L - b /\ b + p \in b + 1 .. L
  BY <1>1, <1>2, <1>5, <1>6
<1> QED BY <1>7 DEF p, L

(* The GOPs of this transmission are the last of those sent.                   *)
LEMMA GoneCounted ==
  ASSUME NEW b \in 0 .. Len(locked), Typed, Sent(b)
  PROVE  Gone = (Len(locked) - b) - Len(wire)
<1>1. b \in Nat /\ Len(locked) \in Nat /\ b <= Len(locked) /\ run \in Nat
  BY Sizes
<1>2. {i \in DOMAIN locked : locked[i].label.nonce = run} = b + 1 .. Len(locked)
  <2>1. DOMAIN locked = 1 .. Len(locked)
    BY DEF Typed
  <2>2. ASSUME NEW i \in 1 .. Len(locked)
        PROVE  locked[i].label.nonce = run <=> i \in b + 1 .. Len(locked)
    <3>1. CASE i \in 1 .. b
      BY <1>1, <3>1 DEF Sent
    <3>2. CASE i \in b + 1 .. Len(locked)
      BY <3>2 DEF Sent
    <3> QED BY <1>1, <3>1, <3>2
  <2> QED BY <1>1, <2>1, <2>2
<1>3. Cardinality(b + 1 .. Len(locked)) = Len(locked) - b
  <2>1. b + 1 \in Int /\ Len(locked) \in Int
    BY <1>1
  <2> HIDE DEF Typed
  <2>2. Cardinality(b + 1 .. Len(locked)) =
           IF b + 1 > Len(locked) THEN 0 ELSE Len(locked) - (b + 1) + 1
    BY ONLY <2>1, FS_Interval
  <2> QED BY <1>1, <2>2
<1> QED BY <1>2, <1>3 DEF Gone

(* A new transmission numbers from its first segment and under a new nonce.  *)
LEMMA KeepsStarting ==
  ASSUME NEW b \in 0 .. Len(locked), Typed, Ordered, Records, Held(b),
         NEW g \in GroupSizes, NEW f \in Firsts, SendStart(g, f)
  PROVE  IInv'
<1> USE DEF SendStart
<1>1. /\ run' = run + 1 /\ session' = [nonce |-> run + 1, gops |-> g, first |-> f]
      /\ sender' = "reading" /\ read' = 0 /\ batch' = <<>> /\ wire' = <<>> /\ number' = f
      /\ UNCHANGED <<saved, locked, rx, inbox, opened>> /\ ~rx.on /\ run < MaxRuns
  OBVIOUS
<1> HIDE DEF SendStart
<1>2. run \in Nat /\ run + 1 \in 1 .. MaxRuns /\ MaxRuns \in Nat /\ f \in Nat /\ Len(locked) \in Nat
  BY <1>1, StreamSessionAssumption DEF Typed
<1>3. session' \in Session /\ session'.nonce = run' /\ session'.first = f
  BY <1>1, <1>2 DEF Session
<1>4. GroupSize(session') \in Nat \ {0}
  BY <1>3, SessionSize
<1>5. Typed'
  BY <1>1, <1>2, <1>3, StreamSessionAssumption DEF Typed
<1>6. Ordered'
  BY <1>1 DEF Ordered
<1>7. Records'
  <2>1. ASSUME saved # None
        PROVE  Recorded(saved)'
    <3>1. saved \in Session /\ saved.nonce <= run
      BY <2>1 DEF Records, Recorded
    <3>2. saved.nonce \in Nat
      BY <3>1, <1>2, SessionSize
    <3> QED BY <1>1, <1>2, <3>1, <3>2 DEF Recorded
  <2> QED BY <1>1, <2>1 DEF Records, Recorded
<1>8. Counted' /\ Judged' /\ Received(Len(locked))'
  BY <1>1 DEF Counted, Judged, Received
<1>9. Sent(Len(locked))'
  <2>1. ASSUME NEW k \in 1 .. Len(locked)
        PROVE  locked[k].label.nonce < run + 1
    <3>1. CASE k \in 1 .. b
      <4>1. locked[k].label.nonce < run /\ locked[k].label.nonce \in Nat
        <5>1. locked[k] \in Locked
          BY DEF Typed
        <5> QED BY <3>1, <5>1 DEF Held, Sent, Locked
      <4> QED BY <1>2, <4>1
    <3>2. CASE k \in b + 1 .. Len(locked)
      BY <1>2, <3>2 DEF Held, Sent
    <3> QED BY <1>2, <3>1, <3>2
  <2> QED BY <1>1, <1>2, <2>1 DEF Sent
<1>10. Numbered(Len(locked))'
  <2> SUFFICES ASSUME NEW q \in Nat, NEW i \in 1 .. GroupSize(session')
               PROVE  NumberedAt(Len(locked), q, i)'
    BY <1>1 DEF Numbered
  <2>1. q * GroupSize(session') \in Nat
    BY <1>4
  <2>2. ~ (Len(locked) + q * GroupSize(session') + i <= Len(locked))
    BY <1>2, <1>4, <2>1
  <2> QED BY <1>1, <2>2 DEF NumberedAt
<1>11. Sending(Len(locked))'
  <2>1. Len(locked) <= MaxGops
    BY DEF Held, Sending
  <2>2. Len(locked) - Len(locked) = 0 /\ (f - f) * GroupSize(session') = 0
    BY <1>2, <1>4
  <2>3. Len(batch') = 0 /\ MaxGops \in Nat
    BY <1>1, StreamSessionAssumption
  <2> QED BY <1>1, <1>2, <1>3, <1>4, <2>1, <2>2, <2>3 DEF Sending
<1>12. OnTheWire(Len(locked))'
  BY <1>1, <1>2 DEF OnTheWire
<1>13. Len(locked) \in 0 .. Len(locked')
  BY <1>1, <1>2
<1> QED BY <1>5, <1>6, <1>7, <1>8, <1>9, <1>10, <1>11, <1>12, <1>13, <1>1 DEF IInv

(* A GOP read joins the batch at the next place of the transmission.         *)
LEMMA KeepsReading ==
  ASSUME NEW b \in 0 .. Len(locked), IInv, Held(b), NEW frames \in GopLengths, ReadGop(frames)
  PROVE  IInv'
<1>1. /\ sender = "reading" /\ Len(batch) < GroupSize(session) /\ Len(locked) + Len(batch) < MaxGops
      /\ read' = read + 1 /\ batch' = Append(batch, [gop |-> <<run, read + 1>>, frames |-> frames])
      /\ UNCHANGED <<run, session, saved, sender, number, locked, wire, rx, inbox, opened>>
  BY DEF ReadGop
<1>2. /\ Typed /\ b \in Nat /\ run \in Nat /\ Len(locked) \in Nat /\ Len(batch) \in Nat /\ MaxGops \in Nat
      /\ batch \in Seq(Gop) /\ read \in Nat
  BY Sizes DEF IInv, Typed
<1>3. /\ run > 0 /\ number >= session.first /\ Len(batch) <= GroupSize(session)
      /\ read = (Len(locked) - b) + Len(batch) /\ session \in Session /\ session.nonce = run
      /\ Len(locked) <= MaxGops
  BY <1>1 DEF Held, Sending
<1>4. GroupSize(session) \in Nat
  BY <1>3, SessionSize
<1>5. [gop |-> <<run, read + 1>>, frames |-> frames] \in Gop
  BY <1>2, StreamSessionAssumption DEF Gop
<1>6. /\ batch' \in Seq(Gop) /\ Len(batch') = Len(batch) + 1
      /\ \A i \in 1 .. Len(batch) : batch'[i] = batch[i]
      /\ batch'[Len(batch) + 1].gop = <<run, read + 1>>
  BY <1>1, <1>2, <1>5
<1>7. read' \in 0 .. MaxGops
  BY <1>1, <1>2, <1>3
<1>8. Typed'
  BY <1>1, <1>2, <1>6, <1>7 DEF Typed
<1>9. Ordered' /\ Counted' /\ Judged' /\ Records'
  BY <1>1 DEF IInv, Ordered, Counted, Judged, Records, Recorded, StartedInStep, EndOfStream
<1>10. Sent(b)' /\ OnTheWire(b)' /\ Received(b)'
  <2>1. Sent(b)' /\ OnTheWire(b)'
    BY <1>1 DEF Held, Sent, OnTheWire
  <2>2. \A i : Place(i)' = Place(i)
    BY <1>1 DEF Place
  <2> QED BY <1>1, <2>1, <2>2 DEF Held, Received
<1>11. Numbered(b)'
  BY <1>1 DEF Held, Numbered, NumberedAt
<1>12. Sending(b)'
  <2>1. \A i \in 1 .. Len(batch') : batch'[i].gop = <<run, (Len(locked) - b) + i>>
    <3> TAKE i \in 1 .. Len(batch')
    <3>1. CASE i \in 1 .. Len(batch)
      BY <1>1, <1>6, <3>1 DEF Held, Sending
    <3>2. CASE i = Len(batch) + 1
      <4>1. read + 1 = (Len(locked) - b) + i
        BY <1>2, <1>3, <3>2
      <4> QED BY <1>6, <3>2, <4>1
    <3> QED BY <1>2, <1>6, <3>1, <3>2
  <2>2. /\ Len(batch') <= GroupSize(session) /\ Len(locked) + Len(batch') <= MaxGops
        /\ read' = (Len(locked) - b) + Len(batch')
    BY <1>1, <1>2, <1>3, <1>4, <1>6
  <2>3. /\ \A k \in b + 1 .. Len(locked) : locked[k].label.segment < number
        /\ Len(locked) - b = (number - session.first) * GroupSize(session)
    BY <1>1 DEF Held, Sending
  <2> QED BY <1>1, <1>3, <2>1, <2>2, <2>3 DEF Sending
<1> QED BY <1>1, <1>8, <1>9, <1>10, <1>11, <1>12 DEF IInv

(* The end of the input changes nothing that was sent.                       *)
LEMMA KeepsEndingInput ==
  ASSUME NEW b \in 0 .. Len(locked), IInv, Held(b), InputEnds
  PROVE  IInv'
<1>1. /\ sender = "reading" /\ sender' = "draining"
      /\ UNCHANGED <<run, session, saved, read, batch, number, locked, wire, rx, inbox, opened>>
  BY DEF InputEnds
<1>2. Typed' /\ Ordered' /\ Judged' /\ Records' /\ Counted'
  BY <1>1 DEF IInv, Typed, Ordered, Judged, StartedInStep, Records, Recorded, Counted, EndOfStream
<1>3. Sent(b)' /\ OnTheWire(b)' /\ Received(b)'
  BY <1>1 DEF Held, Sent, OnTheWire, Received, Place
<1>4. Numbered(b)'
  BY <1>1 DEF Held, Numbered, NumberedAt
<1>5. Sending(b)'
  BY <1>1 DEF Held, Sending
<1> QED BY <1>1, <1>2, <1>3, <1>4, <1>5 DEF IInv

(* A segment that cannot be locked ends the sender; what it sent stays sent. *)
LEMMA KeepsFailing ==
  ASSUME NEW b \in 0 .. Len(locked), IInv, Held(b), SegmentFails
  PROVE  IInv'
<1>1. /\ sender # "idle" /\ sender' = "idle" /\ batch' = <<>>
      /\ UNCHANGED <<run, session, saved, read, number, locked, wire, rx, inbox, opened>>
  BY DEF SegmentFails, SegmentReady
<1>2. Typed' /\ Ordered' /\ Judged'
  BY <1>1 DEF IInv, Typed, Ordered, Judged, StartedInStep
<1>3. Records' /\ Counted'
  BY <1>1 DEF IInv, Records, Recorded, Counted, EndOfStream
<1>4. Sent(b)' /\ OnTheWire(b)' /\ Received(b)'
  BY <1>1 DEF Held, Sent, OnTheWire, Received, Place
<1>5. Numbered(b)'
  BY <1>1 DEF Held, Numbered, NumberedAt
<1>6. Sending(b)'
  BY <1>1 DEF Held, Sending
<1> QED BY <1>1, <1>2, <1>3, <1>4, <1>5, <1>6 DEF IInv

(* The record saved is of a transmission with nothing more to send.          *)
LEMMA KeepsSaving ==
  ASSUME NEW b \in 0 .. Len(locked), IInv, Held(b), SaveSession
  PROVE  IInv'
<1>1. /\ sender = "draining" /\ batch = <<>> /\ saved' = session /\ sender' = "idle"
      /\ UNCHANGED <<run, session, read, batch, number, locked, wire, rx, inbox, opened>>
  BY DEF SaveSession
<1>2. session \in Session /\ session.nonce = run /\ run \in Nat
  BY <1>1, Sizes DEF IInv, Held, Sending
<1>3. Typed' /\ Ordered' /\ Judged'
  BY <1>1, <1>2 DEF IInv, Typed, Ordered, Judged, StartedInStep
<1>4. Records' /\ Counted'
  BY <1>1, <1>2 DEF IInv, Records, Recorded, Counted, EndOfStream
<1>5. Sent(b)' /\ OnTheWire(b)' /\ Received(b)'
  BY <1>1 DEF Held, Sent, OnTheWire, Received, Place
<1>6. Numbered(b)'
  BY <1>1 DEF Held, Numbered, NumberedAt
<1>7. Sending(b)'
  BY <1>1 DEF Held, Sending
<1> QED BY <1>1, <1>3, <1>4, <1>5, <1>6, <1>7 DEF IInv

(* A segment sent gets the next number, and labels after all given before.   *)
LEMMA KeepsSending ==
  ASSUME NEW b \in 0 .. Len(locked), IInv, Held(b), SendSegment
  PROVE  IInv'
<1> DEFINE L == Len(locked)
           m == Len(batch)
           G == GroupSize(session)
           new == LockSegment(batch, session.nonce, number)
<1>1. /\ locked' = locked \o new /\ wire' = wire \o new /\ number' = number + 1 /\ batch' = <<>>
      /\ UNCHANGED <<run, session, saved, sender, read, rx, inbox, opened>>
      /\ sender # "idle" /\ (sender = "reading" => m = G) /\ (sender = "reading" \/ batch # <<>>)
  <2>1. SegmentReady
    BY DEF SendSegment
  <2>2. sender # "idle" /\ (sender = "reading" => m = G) /\ (sender = "reading" \/ batch # <<>>)
    BY <2>1 DEF SegmentReady
  <2>3. /\ locked' = locked \o new /\ wire' = wire \o new /\ number' = number + 1 /\ batch' = <<>>
        /\ UNCHANGED <<run, session, saved, sender, read, rx, inbox, opened>>
    BY DEF SendSegment
  <2> HIDE DEF m, G, new
  <2> QED BY <2>2, <2>3
<1>2. /\ Typed /\ b \in Nat /\ run \in Nat /\ L \in Nat /\ m \in Nat /\ MaxGops \in Nat /\ b <= L
      /\ number \in Nat /\ batch \in Seq(Gop) /\ locked \in Seq(Locked) /\ wire \in Seq(Locked)
      /\ Len(wire) \in Nat
  BY Sizes DEF IInv, Typed
<1>3. /\ run > 0 /\ number >= session.first /\ m <= G /\ L + m <= MaxGops
      /\ read = (L - b) + m /\ session \in Session /\ session.nonce = run
      /\ L - b = (number - session.first) * G
  BY <1>1 DEF Held, Sending
<1>4. G \in Nat \ {0} /\ session.first \in Nat /\ number - session.first \in Nat
  BY <1>2, <1>3, SessionSize
<1>5. /\ new \in Seq(Locked) /\ Len(new) = m
      /\ \A i \in 1 .. m :
            /\ new[i].gop = batch[i].gop /\ new[i].frames = batch[i].frames
            /\ new[i].label = [nonce |-> run, segment |-> number, frame |-> FirstFrame(batch, i)]
  BY <1>2, <1>3, SegmentLocked
<1> HIDE DEF new
<1>6. /\ locked' \in Seq(Locked) /\ Len(locked') = L + m
      /\ \A k \in 1 .. L : locked'[k] = locked[k]
      /\ \A i \in 1 .. m : locked'[L + i] = new[i]
  <2>1. locked \in Seq(Locked)
    BY <1>2
  <2>2. new \in Seq(Locked)
    BY <1>5
  <2>3. /\ locked \o new \in Seq(Locked) /\ Len(locked \o new) = Len(locked) + Len(new)
        /\ \A i \in 1 .. Len(locked) : (locked \o new)[i] = locked[i]
        /\ \A i \in 1 .. Len(new) : (locked \o new)[Len(locked) + i] = new[i]
    BY ONLY <2>1, <2>2, Joined
  <2>4. Len(new) = m
    BY <1>5
  <2> HIDE DEF m
  <2> QED BY <1>1, <2>3, <2>4
<1>7. /\ wire' \in Seq(Locked) /\ Len(wire') = Len(wire) + m
      /\ \A k \in 1 .. Len(wire) : wire'[k] = wire[k]
      /\ \A i \in 1 .. m : wire'[Len(wire) + i] = new[i]
  <2>1. wire \in Seq(Locked)
    BY <1>2
  <2>2. new \in Seq(Locked)
    BY <1>5
  <2>3. /\ wire \o new \in Seq(Locked) /\ Len(wire \o new) = Len(wire) + Len(new)
        /\ \A i \in 1 .. Len(wire) : (wire \o new)[i] = wire[i]
        /\ \A i \in 1 .. Len(new) : (wire \o new)[Len(wire) + i] = new[i]
    BY ONLY <2>1, <2>2, Joined
  <2>4. Len(new) = m
    BY <1>5
  <2> HIDE DEF m
  <2> QED BY <1>1, <2>3, <2>4
<1>8. /\ \A i \in 1 .. m : batch[i].frames \in Nat /\ FirstFrame(batch, i) \in Nat
      /\ m >= 1 => FirstFrame(batch, 1) = 0
      /\ \A i \in 1 .. m - 1 : FirstFrame(batch, i + 1) = FirstFrame(batch, i) + batch[i].frames
      /\ \A i, j \in 1 .. m : i < j => FirstFrame(batch, i) + batch[i].frames <= FirstFrame(batch, j)
  <2>1. \A i \in 1 .. m : batch[i].frames \in Nat
    <3>1. \A g \in Gop : g.frames \in Nat
      BY DEF Gop
    <3>2. \A i \in 1 .. m : batch[i] \in Gop
      BY <1>2
    <3> QED BY <3>1, <3>2
  <2> QED BY <1>2, <2>1, FirstFrames, FirstFramesInOrder
<1>9. \A k \in 1 .. L : locked[k].label.nonce <= run /\ locked[k].label.nonce \in Nat
  <2> TAKE k \in 1 .. L
  <2>1. locked[k] \in Locked
    BY <1>2
  <2>2. locked[k].label.nonce \in Nat
    BY <2>1 DEF Locked
  <2>3. CASE k \in 1 .. b
    BY <1>2, <2>2, <2>3 DEF Held, Sent
  <2>4. CASE k \in b + 1 .. L
    BY <1>2, <2>2, <2>4 DEF Held, Sent
  <2> QED BY <1>2, <2>3, <2>4
<1> HIDE DEF L, m, G
<1>s. \A i \in 1 .. m :
        /\ locked'[L + i] = new[i]
        /\ locked'[L + i].gop = batch[i].gop /\ locked'[L + i].frames = batch[i].frames
        /\ locked'[L + i].label.nonce = run /\ locked'[L + i].label.segment = number
        /\ locked'[L + i].label.frame = FirstFrame(batch, i)
  <2> TAKE i \in 1 .. m
  <2>1. locked'[L + i] = new[i]
    BY <1>6
  <2>2. /\ new[i].gop = batch[i].gop /\ new[i].frames = batch[i].frames
        /\ new[i].label = [nonce |-> run, segment |-> number, frame |-> FirstFrame(batch, i)]
    BY <1>5
  <2> QED BY <2>1, <2>2
<1>10. Typed'
  <2>1. number + 1 \in Nat /\ <<>> \in Seq(Gop)
    BY <1>2
  <2> QED BY <1>1, <1>2, <1>6, <1>7, <2>1 DEF Typed
<1>11. Sent(b)'
  <2>1. ASSUME NEW k \in 1 .. b
        PROVE  locked'[k].label.nonce < run
    <3>1. k \in 1 .. L
      BY <1>2
    <3>2. locked[k].label.nonce < run
      BY DEF Held, Sent
    <3> QED BY <1>6, <3>1, <3>2
  <2>2. ASSUME NEW k \in b + 1 .. L + m
        PROVE  locked'[k].label.nonce = run /\ locked'[k].gop = <<run, k - b>>
    <3>1. CASE k \in b + 1 .. L
      <4>1. k \in 1 .. L
        BY <1>2, <3>1
      <4> QED BY <1>6, <3>1, <4>1 DEF Held, Sent, L
    <3>2. CASE k > L
      <4>1. k - L \in 1 .. m /\ L + (k - L) = k /\ (L - b) + (k - L) = k - b
        BY <1>2, <3>2
      <4>2. batch[k - L].gop = <<run, (L - b) + (k - L)>>
        BY <1>1, <4>1 DEF Held, Sending, L, m
      <4> QED BY <1>s, <4>1, <4>2
    <3> QED BY <1>2, <3>1, <3>2
  <2> QED BY <1>1, <1>6, <2>1, <2>2 DEF Sent
<1>12. Numbered(b)'
  <2> SUFFICES ASSUME NEW q \in Nat, NEW i \in 1 .. G
               PROVE  NumberedAt(b, q, i)'
    BY <1>1 DEF Numbered, G
  <2> DEFINE k == b + q * G + i
  <2>1. q * G \in Nat /\ k \in Nat /\ i \in Nat /\ i >= 1
    BY <1>2, <1>4
  <2>2. ASSUME k <= L + m
        PROVE  /\ locked'[k].label.segment = session.first + q
               /\ locked'[k].label.frame =
                     IF i = 1 THEN 0 ELSE locked'[k - 1].label.frame + locked'[k - 1].frames
    <3>1. CASE k <= L
      <4>1. NumberedAt(b, q, i)
        BY <1>3 DEF Held, Numbered, G
      <4>2. /\ locked[k].label.segment = session.first + q
            /\ locked[k].label.frame =
                  IF i = 1 THEN 0 ELSE locked[k - 1].label.frame + locked[k - 1].frames
        BY <3>1, <4>1 DEF NumberedAt, G, L
      <4>3. k \in 1 .. L /\ (i # 1 => k - 1 \in 1 .. L)
        BY <1>2, <2>1, <3>1
      <4> HIDE DEF k
      <4> QED BY <1>6, <4>2, <4>3
    <3>2. CASE k > L
      <4> DEFINE Q == number - session.first
                 j == k - L
      <4>1. Q * G \in Nat /\ L = b + Q * G
        BY <1>2, <1>3, <1>4
      <4>2. j \in 1 .. m /\ L + j = k /\ j \in 1 .. G
        BY <1>2, <1>3, <1>4, <2>1, <2>2, <3>2
      <4>3. q * G + i = Q * G + j
        <5> DEFINE x == q * G
                   y == Q * G
        <5>1. x \in Nat /\ y \in Nat /\ k = b + x + i /\ L = b + y
          BY <2>1, <4>1
        <5> HIDE DEF x, y, k, Q
        <5>2. x + i = y + j
          BY <1>2, <2>1, <4>2, <5>1
        <5> QED BY <5>2 DEF x, y
      <4>4. q = Q /\ i = j
        <5>1. Q \in Nat
          BY <1>4
        <5> HIDE DEF Q, j, k
        <5> QED BY <1>4, <4>2, <4>3, <5>1, SamePlace
      <4> HIDE DEF j, k
      <4>5. L + i = k /\ i \in 1 .. m
        BY <4>2, <4>4
      <4>6. locked'[k].label.segment = number /\ locked'[k].label.frame = FirstFrame(batch, i)
        BY <1>s, <4>5
      <4>7. session.first + q = number
        BY <1>2, <1>4, <4>4
      <4>8. CASE i = 1
        BY <1>2, <1>8, <4>5, <4>6, <4>7, <4>8
      <4>9. CASE i # 1
        <5>1. i - 1 \in 1 .. m - 1 /\ i - 1 \in 1 .. m /\ (i - 1) + 1 = i /\ L + (i - 1) = k - 1
          BY <1>2, <4>2, <4>4, <4>5, <4>9
        <5>3. /\ locked'[k - 1].label.frame = FirstFrame(batch, i - 1)
              /\ locked'[k - 1].frames = batch[i - 1].frames
          BY <1>s, <5>1
        <5> QED BY <1>8, <4>6, <4>7, <4>9, <5>1, <5>3
      <4> QED BY <4>8, <4>9
    <3> QED BY <1>2, <2>1, <3>1, <3>2
  <2>3. GroupSize(session)' = G /\ session' = session /\ Len(locked') = L + m
    BY <1>1, <1>6 DEF G
  <2> QED BY <2>2, <2>3 DEF NumberedAt
<1>13. Ordered'
  <2> SUFFICES ASSUME NEW j \in 1 .. L + m, NEW k \in 1 .. L + m, j < k
               PROVE  Before(locked'[j], locked'[k])
    BY <1>6 DEF Ordered, Before
  <2>1. CASE k <= L
    <3>1. j \in 1 .. L /\ k \in 1 .. L
      BY <1>2, <2>1
    <3> QED BY <1>6, <3>1 DEF IInv, Ordered, L
  <2>2. CASE k > L
    <3>1. k - L \in 1 .. m /\ L + (k - L) = k
      BY <1>2, <2>2
    <3>3. /\ locked'[k].label.nonce = run /\ locked'[k].label.segment = number
          /\ locked'[k].label.frame = FirstFrame(batch, k - L)
      BY <1>s, <3>1
    <3>4. CASE j > L
      <4>1. j - L \in 1 .. m /\ L + (j - L) = j /\ j - L < k - L
        BY <1>2, <3>4
      <4>3. /\ locked'[j].label.nonce = run /\ locked'[j].label.segment = number
            /\ locked'[j].label.frame = FirstFrame(batch, j - L) /\ locked'[j].frames = batch[j - L].frames
        BY <1>s, <4>1
      <4>4. FirstFrame(batch, j - L) + batch[j - L].frames <= FirstFrame(batch, k - L)
        BY <1>8, <3>1, <4>1
      <4> QED BY <3>3, <4>3, <4>4 DEF Before
    <3>5. CASE j \in 1 .. L
      <4>1. locked'[j] = locked[j]
        BY <1>6, <3>5
      <4>2. CASE j \in 1 .. b
        <5>1. locked[j].label.nonce < run
          BY <4>2 DEF Held, Sent
        <5> QED BY <3>3, <4>1, <5>1 DEF Before
      <4>3. CASE j \in b + 1 .. L
        <5>1. locked[j].label.nonce = run /\ locked[j].label.segment < number
          BY <1>1, <4>3 DEF Held, Sent, Sending, L
        <5> QED BY <3>3, <4>1, <5>1 DEF Before
      <4> QED BY <1>2, <3>5, <4>2, <4>3
    <3> QED BY <1>2, <3>4, <3>5
  <2> QED BY <1>2, <2>1, <2>2
<1>14. Sending(b)'
  <2>1. L + m <= MaxGops /\ number + 1 >= session.first /\ Len(<<>>) = 0 /\ 0 <= G
        /\ (L + m) + 0 <= MaxGops /\ read = ((L + m) - b) + 0
    BY <1>2, <1>3, <1>4
  <2>2. \A k \in b + 1 .. L + m : locked'[k].label.segment < number + 1
    <3> TAKE k \in b + 1 .. L + m
    <3>1. CASE k <= L
      <4>1. k \in b + 1 .. L /\ k \in 1 .. L
        BY <1>2, <3>1
      <4>2. locked'[k].label.segment < number
        BY <1>1, <1>6, <4>1 DEF Held, Sending, L
      <4>3. locked'[k] \in Locked
        BY <1>2, <1>6, <4>1
      <4>4. locked'[k].label.segment \in Nat
        BY <4>3 DEF Locked
      <4> QED BY <1>2, <4>2, <4>4
    <3>2. CASE k > L
      <4>1. k - L \in 1 .. m /\ L + (k - L) = k
        BY <1>2, <3>2
      <4>2. locked'[k].label.segment = number
        BY <1>s, <4>1
      <4> QED BY <1>2, <4>2
    <3> QED BY <1>2, <3>1, <3>2
  <2>3. sender = "reading" => (L + m) - b = ((number + 1) - session.first) * G
    <3> SUFFICES ASSUME sender = "reading"
                 PROVE  (L + m) - b = ((number + 1) - session.first) * G
      OBVIOUS
    <3> DEFINE d == number - session.first
    <3>1. d \in Nat /\ (number + 1) - session.first = d + 1 /\ L - b = d * G
      <4>1. number \in Nat /\ session.first \in Nat /\ d \in Nat /\ L - b = d * G
        BY <1>2, <1>3, <1>4
      <4> DEFINE f == session.first
      <4>2. number \in Nat /\ f \in Nat /\ d = number - f
        BY <4>1
      <4> HIDE DEF d, f
      <4>3. (number + 1) - f = d + 1
        BY <4>2
      <4> QED BY <4>1, <4>3 DEF f
    <3> HIDE DEF d
    <3>2. (d + 1) * G = d * G + G /\ m = G
      BY <1>1, <1>4, <3>1
    <3> QED BY <1>2, <3>1, <3>2
  <2>4. Len(locked') = L + m /\ GroupSize(session') = G
    BY <1>1, <1>6 DEF G
  <2> QED BY <1>1, <1>3, <2>1, <2>2, <2>3, <2>4 DEF Sending
<1>15. OnTheWire(b)'
  <2>1. Len(wire) <= L - b /\ \A i \in 1 .. Len(wire) : wire[i] = locked[(L - Len(wire)) + i]
    BY DEF Held, OnTheWire, L
  <2>2. ASSUME NEW i \in 1 .. Len(wire) + m
        PROVE  wire'[i] = locked'[((L + m) - (Len(wire) + m)) + i]
    <3>1. (L + m) - (Len(wire) + m) = L - Len(wire)
      BY <1>2
    <3>2. CASE i <= Len(wire)
      <4>1. i \in 1 .. Len(wire) /\ (L - Len(wire)) + i \in 1 .. L
        BY <1>2, <2>1, <3>2
      <4> QED BY <1>6, <1>7, <2>1, <3>1, <4>1
    <3>3. CASE i > Len(wire)
      <4>1. i - Len(wire) \in 1 .. m /\ Len(wire) + (i - Len(wire)) = i
            /\ (L - Len(wire)) + i = L + (i - Len(wire))
        BY <1>2, <3>3
      <4> QED BY <1>6, <1>7, <3>1, <4>1
    <3> QED BY <1>2, <3>2, <3>3
  <2>3. Len(wire) + m <= (L + m) - b
    BY <1>2, <2>1
  <2> QED BY <1>6, <1>7, <2>2, <2>3 DEF OnTheWire
<1>16. Received(b)'
  <2> SUFFICES ASSUME rx.on
               PROVE  Received(b)'
    BY <1>1 DEF Received
  <2>1. Received(b)
    BY DEF Held
  <2>2. \A i \in 1 .. Len(inbox) : inbox[i] = locked'[b + inbox[i].gop[2]]
    <3> TAKE i \in 1 .. Len(inbox)
    <3>1. b + inbox[i].gop[2] \in b + 1 .. L
      BY <1>2, <2>1, WaitingWereSent DEF L
    <3>2. b + inbox[i].gop[2] \in 1 .. L
      BY <1>2, <3>1
    <3> QED BY <1>6, <2>1, <3>2 DEF Received
  <2>3. rx.skipped + rx.lost + Len(inbox) + Len(opened) + (Len(wire) + m) = (L + m) - b
    <3> DEFINE a == rx.skipped + rx.lost + Len(inbox) + Len(opened)
    <3>1. a \in Nat /\ a + Len(wire) = L - b
      BY <1>2, <2>1, Sizes DEF Typed, Received, L
    <3>2. rx.skipped + rx.lost + Len(inbox) + Len(opened) + (Len(wire) + m) = a + (Len(wire) + m)
      OBVIOUS
    <3> HIDE DEF a
    <3>3. a + (Len(wire) + m) = (L + m) - b
      BY <1>2, <3>1
    <3> QED BY <3>2, <3>3
  <2>4. \A i \in Nat : Place(i)' = Place(i)
    BY <1>1 DEF Place
  <2>5. /\ \A i \in 1 .. Len(opened) + Len(inbox) :
              rx.skipped + i <= Place(i)' /\ Place(i)' <= rx.skipped + rx.lost + i
        /\ \A i, j \in 1 .. Len(opened) + Len(inbox) : i <= j => Place(i)' + (j - i) <= Place(j)'
    BY <2>1, <2>4 DEF Received
  <2> QED BY <1>1, <1>6, <1>7, <2>1, <2>2, <2>3, <2>5 DEF Received
<1>17. Records' /\ Judged' /\ Counted'
  BY <1>1 DEF IInv, Records, Recorded, Judged, StartedInStep, Counted, EndOfStream
<1>18. b \in 0 .. Len(locked')
  BY <1>2, <1>6
<1> QED BY <1>10, <1>11, <1>12, <1>13, <1>14, <1>15, <1>16, <1>17, <1>18 DEF IInv

(* A place is a number.                                                      *)
LEMMA PlaceTyped ==
  ASSUME Typed, NEW i \in 1 .. Len(opened) + Len(inbox)
  PROVE  i \in Nat /\ Place(i) \in Nat
<1>1. Len(opened) \in Nat /\ Len(inbox) \in Nat
  BY Sizes
<1>2. CASE i <= Len(opened)
  <2>1. i \in 1 .. Len(opened)
    BY <1>1, <1>2
  <2>2. opened[i] \in Opening
    <3>1. opened \in Seq(Opening)
      BY DEF Typed
    <3> QED BY <2>1, <3>1
  <2> QED BY <1>1, <1>2, <2>2 DEF Place, Opening
<1>3. CASE i > Len(opened)
  <2>1. i - Len(opened) \in 1 .. Len(inbox) /\ ~ (i <= Len(opened))
    BY <1>1, <1>3
  <2>2. inbox[i - Len(opened)] \in Locked
    BY <2>1 DEF Typed
  <2> QED BY <1>1, <2>1, <2>2 DEF Place, Locked
<1> QED BY <1>1, <1>2, <1>3

(* A receiver that joins has missed what is gone from the wire.              *)
LEMMA KeepsJoining ==
  ASSUME NEW b \in 0 .. Len(locked), IInv, Held(b),
         NEW skip \in 0 .. MaxLate, NEW ahead \in 0 .. MaxLate, ReceiveStart(skip, ahead)
  PROVE  IInv'
<1> DEFINE L == Len(locked)
           w == Len(wire)
<1>1. /\ ~rx.on /\ saved # None /\ skip <= w
      /\ rx' = [on |-> TRUE, session |-> saved, number |-> saved.first + ahead,
                skipped |-> Gone + skip, ahead |-> ahead, lost |-> 0]
      /\ wire' = SubSeq(wire, skip + 1, w) /\ inbox' = <<>> /\ opened' = <<>>
      /\ UNCHANGED <<run, session, saved, sender, read, batch, number, locked>>
  BY DEF ReceiveStart
<1>2. /\ Typed /\ b \in Nat /\ L \in Nat /\ w \in Nat /\ wire \in Seq(Locked) /\ b <= L
      /\ skip \in Nat /\ ahead \in Nat
  BY Sizes, StreamSessionAssumption DEF IInv, Typed
<1>3. Recorded(saved) /\ saved \in Session /\ saved.first \in Nat /\ GroupSize(saved) \in Nat
  <2>1. Recorded(saved)
    BY <1>1 DEF IInv, Records
  <2> QED BY <2>1, SessionSize DEF Recorded
<1>4. w <= L - b /\ \A i \in 1 .. w : wire[i] = locked[(L - w) + i]
  BY DEF Held, OnTheWire
<1>5. Gone = (L - b) - w /\ Gone \in Nat
  <2>1. Gone = (L - b) - w
    BY <1>2, GoneCounted DEF Held
  <2> QED BY <1>2, <1>4, <2>1
<1>6. /\ wire' \in Seq(Locked) /\ Len(wire') = w - skip
      /\ \A i \in 1 .. w - skip : wire'[i] = wire[skip + i]
  <2>1. w - skip \in Nat /\ \A i \in 1 .. w - skip : skip + i \in 1 .. w
    BY <1>1, <1>2
  <2>2. SubSeq(wire, skip + 1, w) = [i \in 1 .. w - skip |-> wire[skip + i]]
    BY <1>1, <1>2
  <2>3. \A i \in 1 .. w - skip : wire[skip + i] \in Locked
    BY <1>2, <2>1
  <2> HIDE DEF w
  <2>4. wire' = [i \in 1 .. w - skip |-> wire[skip + i]]
    BY <1>1, <2>2 DEF w
  <2>5. wire' \in Seq(Locked)
    BY <2>1, <2>3, <2>4
  <2> QED BY <2>1, <2>4, <2>5
<1>7. /\ rx'.on /\ rx'.session = saved /\ rx'.number = saved.first + ahead
      /\ rx'.skipped = Gone + skip /\ rx'.ahead = ahead /\ rx'.lost = 0
  BY <1>1
<1> HIDE DEF L, w
<1>8. Typed'
  <2>1. rx' \in [on : BOOLEAN, session : Session \cup {None}, number : Nat,
                 skipped : Nat, ahead : Nat, lost : Nat]
    BY <1>1, <1>2, <1>3, <1>5
  <2> QED BY <1>1, <1>2, <1>6, <2>1 DEF Typed
<1>9. Ordered' /\ Sent(b)' /\ Sending(b)'
  BY <1>1 DEF IInv, Ordered, Held, Sent, Sending
<1>10. Numbered(b)'
  BY <1>1 DEF Held, Numbered, NumberedAt
<1>11. Records'
  BY <1>1, <1>3, <1>7 DEF IInv, Records, Recorded
<1>12. Counted'
  <2>1. /\ Len(<<>>) = 0 /\ saved.first + ahead >= saved.first + ahead
        /\ (saved.first + ahead) - (saved.first + ahead) = 0 /\ 0 * GroupSize(saved) = 0
    BY <1>2, <1>3
  <2> QED BY <1>1, <1>7, <2>1 DEF Counted
<1>13. Judged'
  BY <1>1 DEF Judged
<1>14. OnTheWire(b)'
  <2>1. \A i \in 1 .. w - skip : wire'[i] = locked[(L - (w - skip)) + i]
    <3> TAKE i \in 1 .. w - skip
    <3>1. skip + i \in 1 .. w /\ (L - w) + (skip + i) = (L - (w - skip)) + i
      BY <1>1, <1>2
    <3> QED BY <1>4, <1>6, <3>1
  <2>2. w - skip <= L - b
    BY <1>2, <1>4
  <2> QED BY <1>1, <1>6, <2>1, <2>2 DEF OnTheWire, L
<1>15. Received(b)'
  <2>1. Gone + skip + 0 + 0 + 0 + (w - skip) = L - b
    BY <1>2, <1>5
  <2>2. Len(<<>>) = 0 /\ 0 <= GroupSize(saved) /\ 1 .. 0 = {}
    BY <1>3
  <2>3. Len(inbox') = 0 /\ Len(opened') = 0 /\ Len(locked') = L
    BY <1>1 DEF L
  <2>4. rx'.skipped + rx'.lost + Len(inbox') + Len(opened') + Len(wire') = L - b
    BY <1>2, <1>5, <1>6, <1>7, <2>3
  <2>5. Len(inbox') <= GroupSize(rx'.session) /\ 1 .. Len(inbox') = {} /\ 1 .. Len(opened') = {}
        /\ 1 .. Len(opened') + Len(inbox') = {}
    BY <1>3, <1>7, <2>3
  <2> QED BY <2>3, <2>4, <2>5 DEF Received
<1> QED BY <1>1, <1>8, <1>9, <1>10, <1>11, <1>12, <1>13, <1>14, <1>15 DEF IInv

(* A GOP received is the next on the wire, in its place.                     *)
LEMMA KeepsReceiving ==
  ASSUME NEW b \in 0 .. Len(locked), IInv, Held(b), ReceiveGop
  PROVE  IInv'
<1> DEFINE L == Len(locked)
           w == Len(wire)
           m == Len(inbox)
           n == Len(opened)
           g == Head(wire)
           s == rx.skipped
           l == rx.lost
<1>1. /\ rx.on /\ wire # <<>> /\ m < GroupSize(rx.session)
      /\ inbox' = Append(inbox, g) /\ wire' = Tail(wire)
      /\ UNCHANGED <<run, session, saved, sender, read, batch, number, locked, rx, opened>>
  BY DEF ReceiveGop
<1>2. /\ Typed /\ b \in Nat /\ L \in Nat /\ w \in Nat /\ m \in Nat /\ n \in Nat /\ s \in Nat /\ l \in Nat
      /\ wire \in Seq(Locked) /\ inbox \in Seq(Locked) /\ b <= L /\ run \in Nat
  BY Sizes DEF IInv, Typed
<1>3. w >= 1 /\ g = wire[1] /\ g \in Locked
  BY <1>1, <1>2
<1>4. w <= L - b /\ \A i \in 1 .. w : wire[i] = locked[(L - w) + i]
  BY DEF Held, OnTheWire
<1>5. /\ wire' \in Seq(Locked) /\ Len(wire') = w - 1 /\ \A i \in 1 .. w - 1 : wire'[i] = wire[i + 1]
  BY <1>1, <1>2, <1>3
<1>6. /\ inbox' \in Seq(Locked) /\ Len(inbox') = m + 1
      /\ \A i \in 1 .. m : inbox'[i] = inbox[i]
      /\ inbox'[m + 1] = g
  BY <1>1, <1>2, <1>3
<1>7. Received(b)
  BY DEF Held
<1>8. s + l + m + n + w = L - b
  BY <1>1, <1>7 DEF Received
<1> HIDE DEF L, w, m, n, g, s, l
<1>9. g = locked[(L - w) + 1] /\ g.gop = <<run, ((L - w) + 1) - b>>
  <2>1. 1 \in 1 .. w /\ (L - w) + 1 \in b + 1 .. L
    BY <1>2, <1>3, <1>4
  <2>2. g = locked[(L - w) + 1]
    BY <1>3, <1>4, <2>1
  <2> QED BY <2>1, <2>2 DEF Held, Sent, L
<1>10. g.gop[2] = s + l + (n + (m + 1)) /\ g = locked[b + g.gop[2]]
  <2>1. g.gop[2] = ((L - w) + 1) - b
    BY <1>9
  <2>2. ((L - w) + 1) - b = s + l + (n + (m + 1)) /\ b + (((L - w) + 1) - b) = (L - w) + 1
    BY <1>2, <1>8
  <2> QED BY <1>9, <2>1, <2>2
<1>11. Typed'
  BY <1>1, <1>2, <1>5, <1>6 DEF Typed
<1>12. Ordered' /\ Sent(b)' /\ Sending(b)' /\ Records'
  BY <1>1 DEF IInv, Ordered, Held, Sent, Sending, Records, Recorded
<1>13. Numbered(b)'
  BY <1>1 DEF Held, Numbered, NumberedAt
<1>14. Counted' /\ Judged'
  BY <1>1 DEF IInv, Counted, EndOfStream, Judged, StartedInStep
<1>15. OnTheWire(b)'
  <2>1. \A i \in 1 .. w - 1 : wire'[i] = locked[(L - (w - 1)) + i]
    <3> TAKE i \in 1 .. w - 1
    <3>1. i + 1 \in 1 .. w /\ (L - w) + (i + 1) = (L - (w - 1)) + i
      BY <1>2
    <3> QED BY <1>4, <1>5, <3>1
  <2>2. w - 1 <= L - b
    BY <1>2, <1>4
  <2> QED BY <1>1, <1>5, <2>1, <2>2 DEF OnTheWire, L
<1>16. Received(b)'
  <2>1. \A i \in 1 .. n + m : Place(i)' = Place(i)
    <3> TAKE i \in 1 .. n + m
    <3>1. CASE i <= n
      BY <1>1, <3>1 DEF Place, n
    <3>2. CASE i > n
      <4>1. i - n \in 1 .. m /\ ~ (i <= n)
        BY <1>2, <3>2
      <4>2. inbox'[i - n] = inbox[i - n]
        BY <1>6, <4>1
      <4> QED BY <1>1, <4>1, <4>2 DEF Place, n
    <3> QED BY <1>2, <3>1, <3>2
  <2>2. ASSUME NEW i \in Nat, i = n + (m + 1)
        PROVE  Place(i)' = s + l + i
    <3>1. ~ (i <= n) /\ i - n = m + 1
      BY <1>2, <2>2
    <3>2. Len(opened') = n
      BY <1>1 DEF n
    <3>3. Place(i)' = inbox'[m + 1].gop[2]
      BY <3>1, <3>2 DEF Place
    <3> QED BY <1>6, <1>10, <2>2, <3>3
  <2>3. \A i \in 1 .. n + (m + 1) : i \in Nat /\ (i \in 1 .. n + m \/ i = n + (m + 1))
    BY <1>2
  <2>4. /\ \A i \in 1 .. n + m : s + i <= Place(i) /\ Place(i) <= s + l + i
        /\ \A i, j \in 1 .. n + m : i <= j => Place(i) + (j - i) <= Place(j)
    BY <1>1, <1>7 DEF Received, n, m, s, l
  <2>5. \A i \in 1 .. n + m : Place(i) \in Nat
    BY <1>2, PlaceTyped DEF n, m
  <2>6. \A i \in 1 .. n + (m + 1) : s + i <= Place(i)' /\ Place(i)' <= s + l + i
    <3> TAKE i \in 1 .. n + (m + 1)
    <3>1. CASE i \in 1 .. n + m
      BY <2>1, <2>4, <3>1
    <3>2. CASE i = n + (m + 1)
      <4>1. Place(i)' = s + l + i /\ i \in Nat
        BY <2>2, <2>3, <3>2
      <4> QED BY <1>2, <4>1
    <3> QED BY <2>3, <3>1, <3>2
  <2>7. ASSUME NEW i \in 1 .. n + (m + 1), NEW j \in 1 .. n + (m + 1), i <= j
        PROVE  Place(i)' + (j - i) <= Place(j)'
    <3>1. CASE j \in 1 .. n + m
      <4>1. i \in 1 .. n + m
        BY <1>2, <2>7, <3>1
      <4> QED BY <2>1, <2>4, <2>7, <3>1, <4>1
    <3>2. CASE j = n + (m + 1)
      <4>1. CASE i \in 1 .. n + m
        <5>1. Place(i)' \in Nat /\ Place(i)' <= s + l + i
          BY <2>1, <2>4, <2>5, <4>1
        <5>2. Place(j)' = s + l + j /\ i \in Nat /\ j \in Nat
          BY <2>2, <2>3, <3>2
        <5> QED BY <1>2, <5>1, <5>2
      <4>2. CASE i = n + (m + 1)
        <5>1. Place(j)' = s + l + j /\ i = j /\ j \in Nat
          BY <2>2, <2>3, <3>2, <4>2
        <5> QED BY <1>2, <5>1
      <4> QED BY <2>3, <4>1, <4>2
    <3> QED BY <2>3, <3>1, <3>2
  <2>8. \A i \in 1 .. m + 1 : inbox'[i] = locked[b + inbox'[i].gop[2]]
    <3> TAKE i \in 1 .. m + 1
    <3>1. CASE i \in 1 .. m
      <4>1. inbox[i] = locked[b + inbox[i].gop[2]]
        BY <1>1, <1>7, <3>1 DEF Received, m
      <4> QED BY <1>6, <3>1, <4>1
    <3>2. CASE i = m + 1
      BY <1>6, <1>10, <3>2
    <3> QED BY <1>2, <3>1, <3>2
  <2>9. s + l + (m + 1) + n + (w - 1) = L - b
    BY <1>2, <1>8
  <2>10. GroupSize(rx.session) \in Nat
    <3>1. rx.session \in Session
      BY <1>1 DEF IInv, Records, Recorded
    <3> QED BY <3>1, SessionSize
  <2>11. m + 1 <= GroupSize(rx.session)
    BY <1>1, <1>2, <2>10 DEF m
  <2>12. \A i \in 1 .. n : opened[i].gop[1] = run
    BY <1>1, <1>7 DEF Received, n
  <2>13. Len(inbox') = m + 1 /\ Len(opened') = n /\ Len(wire') = w - 1 /\ Len(locked') = L
         /\ rx' = rx /\ opened' = opened /\ locked' = locked /\ run' = run
    BY <1>1, <1>5, <1>6 DEF n, L
  <2> QED BY <2>6, <2>7, <2>8, <2>9, <2>11, <2>12, <2>13 DEF Received, s, l
<1> QED BY <1>1, <1>11, <1>12, <1>13, <1>14, <1>15, <1>16 DEF IInv

(* A GOP lost moves every later one further from its position.               *)
LEMMA KeepsLosing ==
  ASSUME NEW b \in 0 .. Len(locked), IInv, Held(b), Lose
  PROVE  IInv'
<1> DEFINE L == Len(locked)
           w == Len(wire)
<1>1. /\ rx.on /\ wire # <<>> /\ wire' = Tail(wire) /\ rx' = [rx EXCEPT !.lost = @ + 1]
      /\ UNCHANGED <<run, session, saved, sender, read, batch, number, locked, inbox, opened>>
  BY DEF Lose
<1>2. /\ Typed /\ b \in Nat /\ L \in Nat /\ w \in Nat /\ wire \in Seq(Locked) /\ b <= L
      /\ rx.skipped \in Nat /\ rx.lost \in Nat /\ Len(inbox) \in Nat /\ Len(opened) \in Nat
  BY Sizes DEF IInv, Typed
<1>3. /\ rx' \in [on : BOOLEAN, session : Session \cup {None}, number : Nat,
                  skipped : Nat, ahead : Nat, lost : Nat]
      /\ rx'.on = rx.on /\ rx'.session = rx.session /\ rx'.number = rx.number
      /\ rx'.skipped = rx.skipped /\ rx'.ahead = rx.ahead /\ rx'.lost = rx.lost + 1
  <2>1. rx \in [on : BOOLEAN, session : Session \cup {None}, number : Nat,
                skipped : Nat, ahead : Nat, lost : Nat]
    BY <1>2 DEF Typed
  <2>2. rx.lost + 1 \in Nat
    BY <1>2
  <2> QED BY <1>1, <2>1, <2>2
<1>4. w >= 1 /\ wire' \in Seq(Locked) /\ Len(wire') = w - 1
      /\ \A i \in 1 .. w - 1 : wire'[i] = wire[i + 1]
  BY <1>1, <1>2
<1> HIDE DEF L, w
<1>5. Typed'
  BY <1>1, <1>2, <1>3, <1>4 DEF Typed
<1>6. Ordered' /\ Sent(b)' /\ Sending(b)' /\ Records'
  BY <1>1, <1>3 DEF IInv, Ordered, Held, Sent, Sending, Records, Recorded
<1>7. Numbered(b)'
  BY <1>1 DEF Held, Numbered, NumberedAt
<1>8. Counted'
  BY <1>1, <1>3 DEF IInv, Counted, EndOfStream
<1>9. Judged'
  <2>1. rx'.lost # 0
    BY <1>2, <1>3
  <2> QED BY <1>1, <1>3, <2>1 DEF IInv, Judged, StartedInStep
<1>10. OnTheWire(b)'
  <2>0. w <= L - b /\ \A i \in 1 .. w : wire[i] = locked[(L - w) + i]
    BY DEF Held, OnTheWire, L, w
  <2>1. \A i \in 1 .. w - 1 : wire'[i] = locked[(L - (w - 1)) + i]
    <3> TAKE i \in 1 .. w - 1
    <3>1. i + 1 \in 1 .. w /\ (L - w) + (i + 1) = (L - (w - 1)) + i
      BY <1>2
    <3> QED BY <1>4, <2>0, <3>1
  <2>2. w - 1 <= L - b
    BY <1>2, <2>0
  <2> QED BY <1>1, <1>4, <2>1, <2>2 DEF OnTheWire, L
<1>11. Received(b)'
  <2>1. Received(b)
    BY DEF Held
  <2>2. \A i \in Nat : Place(i)' = Place(i)
    BY <1>1 DEF Place
  <2>3. rx.skipped + (rx.lost + 1) + Len(inbox) + Len(opened) + (w - 1) = L - b
    <3>1. rx.skipped + rx.lost + Len(inbox) + Len(opened) + w = L - b
      BY <1>1, <2>1 DEF Received, L, w
    <3> DEFINE a == Len(inbox)
               n == Len(opened)
               s == rx.skipped
               l == rx.lost
    <3>2. a \in Nat /\ n \in Nat /\ s \in Nat /\ l \in Nat /\ w \in Nat /\ s + l + a + n + w = L - b
      BY <1>2, <3>1
    <3> HIDE DEF a, n, s, l
    <3>3. s + (l + 1) + a + n + (w - 1) = L - b
      BY <1>2, <3>2
    <3> QED BY <3>3 DEF s, l, a, n
  <2>4. \A i \in 1 .. Len(opened) + Len(inbox) : i \in Nat /\ Place(i) \in Nat
    BY <1>2, PlaceTyped
  <2>5. \A i \in 1 .. Len(opened) + Len(inbox) :
            rx.skipped + i <= Place(i)' /\ Place(i)' <= rx.skipped + (rx.lost + 1) + i
    <3> TAKE i \in 1 .. Len(opened) + Len(inbox)
    <3>1. /\ rx.skipped + i <= Place(i) /\ Place(i) <= rx.skipped + rx.lost + i
          /\ Place(i)' = Place(i) /\ Place(i) \in Nat /\ i \in Nat
      BY <1>1, <2>1, <2>2, <2>4 DEF Received
    <3> DEFINE p == Place(i)
               s == rx.skipped
               l == rx.lost
    <3>2. s + i <= p /\ p <= s + l + i /\ p \in Nat /\ i \in Nat /\ s \in Nat /\ l \in Nat
      BY <1>2, <3>1
    <3> HIDE DEF p, s, l
    <3>3. s + i <= p /\ p <= s + (l + 1) + i
      BY <3>2
    <3> QED BY <3>1, <3>3 DEF p, s, l
  <2>6. \A i, j \in 1 .. Len(opened) + Len(inbox) : i <= j => Place(i)' + (j - i) <= Place(j)'
    <3>1. \A i, j \in 1 .. Len(opened) + Len(inbox) : i <= j => Place(i) + (j - i) <= Place(j)
      BY <1>1, <2>1 DEF Received
    <3>2. \A i \in 1 .. Len(opened) + Len(inbox) : Place(i)' = Place(i)
      BY <1>2, <2>2
    <3> QED BY <3>1, <3>2
  <2> QED BY <1>1, <1>3, <1>4, <2>1, <2>3, <2>5, <2>6 DEF Received, L
<1> QED BY <1>1, <1>5, <1>6, <1>7, <1>8, <1>9, <1>10, <1>11 DEF IInv

(* A segment opened is judged GOP by GOP, and the count moves by one.        *)
LEMMA KeepsOpening ==
  ASSUME NEW b \in 0 .. Len(locked), IInv, Held(b), OpenSegment
  PROVE  IInv'
<1> DEFINE m == Len(inbox)
           n == Len(opened)
           G == GroupSize(rx.session)
           new == UnlockSegment(inbox, rx.session.nonce, rx.number)
<1>1. /\ rx.on /\ (m = G \/ (EndOfStream /\ inbox # <<>>))
      /\ opened' = opened \o new /\ rx' = [rx EXCEPT !.number = @ + 1] /\ inbox' = <<>>
      /\ UNCHANGED <<run, session, saved, sender, read, batch, number, locked, wire>>
  BY DEF OpenSegment
<1>2. /\ Typed /\ b \in Nat /\ m \in Nat /\ n \in Nat /\ inbox \in Seq(Locked)
      /\ opened \in Seq(Opening) /\ rx.number \in Nat /\ Len(locked) \in Nat /\ b <= Len(locked)
      /\ rx.skipped \in Nat /\ rx.lost \in Nat /\ Len(wire) \in Nat /\ rx.ahead \in Nat /\ run \in Nat
  BY Sizes DEF IInv, Typed
<1>3. /\ Recorded(rx.session) /\ rx.session \in Session /\ G \in Nat \ {0}
      /\ rx.session.first \in Nat /\ rx.session.nonce \in Nat /\ rx.session.nonce \in 1 .. MaxRuns
  <2>1. Recorded(rx.session) /\ rx.session \in Session
    BY <1>1 DEF IInv, Records, Recorded
  <2> QED BY <2>1, SessionSize
<1>4. /\ new \in Seq(Opening) /\ Len(new) = m
      /\ \A i \in 1 .. m :
            /\ new[i].gop = inbox[i].gop
            /\ new[i].right <=> /\ inbox[i].label.nonce = rx.session.nonce
                                /\ inbox[i].label.segment = rx.number
                                /\ inbox[i].label.frame = FirstFrame(inbox, i)
  <2>1. inbox \in Seq(Locked)
    BY <1>2
  <2>2. rx.session.nonce \in Nat
    BY <1>3
  <2>3. rx.number \in Nat
    BY <1>2
  <2> QED BY ONLY <2>1, <2>2, <2>3, SegmentUnlocked DEF new, m
<1>5. inbox # <<>>
  <2>1. CASE m = G
    BY <1>2, <1>3, <2>1
  <2> QED BY <1>1, <2>1
<1>6. /\ rx' \in [on : BOOLEAN, session : Session \cup {None}, number : Nat,
                  skipped : Nat, ahead : Nat, lost : Nat]
      /\ rx'.on = rx.on /\ rx'.session = rx.session /\ rx'.number = rx.number + 1
      /\ rx'.skipped = rx.skipped /\ rx'.ahead = rx.ahead /\ rx'.lost = rx.lost
  <2>1. rx \in [on : BOOLEAN, session : Session \cup {None}, number : Nat,
                skipped : Nat, ahead : Nat, lost : Nat]
    BY <1>2 DEF Typed
  <2>2. rx.number + 1 \in Nat
    BY <1>2
  <2> QED BY <1>1, <2>1, <2>2
<1> HIDE DEF new
<1>7. /\ opened' \in Seq(Opening) /\ Len(opened') = n + m
      /\ \A i \in 1 .. n : opened'[i] = opened[i]
      /\ \A i \in 1 .. m : opened'[n + i] = new[i]
  <2>1. opened \in Seq(Opening)
    BY <1>2
  <2>2. new \in Seq(Opening)
    BY <1>4
  <2>3. /\ opened \o new \in Seq(Opening) /\ Len(opened \o new) = Len(opened) + Len(new)
        /\ \A i \in 1 .. Len(opened) : (opened \o new)[i] = opened[i]
        /\ \A i \in 1 .. Len(new) : (opened \o new)[Len(opened) + i] = new[i]
    BY ONLY <2>1, <2>2, Joined
  <2>4. Len(new) = m
    BY <1>4
  <2> HIDE DEF m
  <2> QED BY <1>1, <2>3, <2>4
<1>8. Received(b) /\ ~ (EndOfStream /\ inbox = <<>>)
  BY <1>5 DEF Held
<1>9. rx.session = session => session \in Session /\ session.nonce = run
  <2>1. run > 0
    BY <1>2, <1>3 DEF Recorded
  <2> QED BY <2>1 DEF Held, Sending
<1>10. \A i \in 1 .. m : inbox[i].label.nonce = run /\ inbox[i].gop[1] = run /\ inbox[i].gop[2] \in Nat
  <2> TAKE i \in 1 .. m
  <2>1. b + inbox[i].gop[2] \in b + 1 .. Len(locked)
    BY <1>1, <1>2, <1>8, WaitingWereSent
  <2>2. inbox[i] = locked[b + inbox[i].gop[2]]
    BY <1>1, <1>8 DEF Received
  <2>3. inbox[i].label.nonce = run /\ inbox[i].gop = <<run, (b + inbox[i].gop[2]) - b>>
    BY <2>1, <2>2 DEF Held, Sent
  <2>4. inbox[i] \in Locked
    BY <1>2
  <2>5. inbox[i].gop[2] \in Nat
    BY <2>4 DEF Locked
  <2> QED BY <2>3, <2>5
<1>11. \A i \in 1 .. n + m : i \in 1 .. n \/ (i - n \in 1 .. m /\ n + (i - n) = i /\ ~ (i <= n) /\ i > n)
  BY <1>2
<1>12. Typed'
  BY <1>1, <1>2, <1>6, <1>7 DEF Typed
<1>13. Ordered' /\ Sent(b)' /\ Sending(b)' /\ OnTheWire(b)'
  BY <1>1 DEF IInv, Ordered, Held, Sent, Sending, OnTheWire
<1>14. Numbered(b)'
  BY <1>1 DEF Held, Numbered, NumberedAt
<1>15. Records'
  BY <1>1, <1>6 DEF IInv, Records, Recorded
<1>16. Counted'
  <2>1. /\ rx.number >= rx.session.first + rx.ahead
        /\ n = (rx.number - (rx.session.first + rx.ahead)) * G
    BY <1>1, <1>8 DEF IInv, Counted
  <2> DEFINE f == rx.session.first + rx.ahead
             d == rx.number - f
  <2>2. f \in Nat /\ d \in Nat /\ n = d * G
    <3>1. f \in Nat /\ rx.number \in Nat /\ rx.number >= f
      BY <1>2, <1>3, <2>1
    <3>2. n = d * G
      BY <2>1
    <3> HIDE DEF f
    <3> QED BY <3>1, <3>2
  <2>3. (rx.number + 1) - f = d + 1 /\ rx.number + 1 >= f
    BY <1>2, <2>1, <2>2
  <2>4. CASE m = G
    <3> HIDE DEF d, m, n, G
    <3>1. (d + 1) * G = d * G + G
      BY <1>3, <2>2
    <3>2. n + m = (d + 1) * G
      BY <2>2, <2>4, <3>1
    <3>3. Len(opened') = ((rx.number + 1) - f) * G
      BY <1>7, <2>3, <3>2
    <3> QED BY <1>6, <2>3, <3>3 DEF Counted, G
  <2>5. CASE EndOfStream
    <3>1. EndOfStream' /\ inbox' = <<>>
      BY <1>1, <2>5 DEF EndOfStream
    <3> QED BY <1>6, <2>3, <3>1 DEF Counted
  <2> QED BY <1>1, <2>4, <2>5
<1>17. Judged'
  <2>1. ASSUME rx.session.nonce # run, NEW i \in 1 .. n + m
        PROVE  ~opened'[i].right
    <3>1. CASE i \in 1 .. n
      BY <1>1, <1>7, <2>1, <3>1 DEF IInv, Judged
    <3>2. CASE i > n
      <4>1. i - n \in 1 .. m /\ n + (i - n) = i
        BY <1>11, <3>2, <1>2
      <4>2. opened'[i] = new[i - n]
        BY <1>7, <4>1
      <4>3. ~new[i - n].right
        BY <1>4, <1>10, <2>1, <4>1
      <4> QED BY <4>2, <4>3
    <3> QED BY <1>11, <3>1, <3>2
  <2>2. ASSUME StartedInStep, NEW i \in 1 .. n + m
        PROVE  opened'[i].right <=> opened'[i].gop[2] = rx.skipped + i
    <3>1. CASE i \in 1 .. n
      BY <1>1, <1>7, <2>2, <3>1 DEF IInv, Judged
    <3>2. CASE i > n
      <4>1. i - n \in 1 .. m /\ n + (i - n) = i
        BY <1>11, <3>2, <1>2
      <4>2. opened'[i] = new[i - n] /\ new[i - n].gop = inbox[i - n].gop
        BY <1>4, <1>7, <4>1
      <4>3. rx.session = session
        BY <2>2 DEF StartedInStep
      <4>4. new[i - n].right <=> inbox[i - n].gop[2] = rx.skipped + (n + (i - n))
        BY <1>1, <1>2, <1>5, <1>8, <1>9, <2>2, <4>1, <4>3, SegmentJudged DEF IInv, Held, new
      <4> QED BY <4>1, <4>2, <4>4
    <3> QED BY <1>11, <3>1, <3>2
  <2>3. ASSUME rx.session = session, rx.lost = 0, rx.skipped # rx.ahead * GroupSize(session),
               NEW i \in 1 .. n + m
        PROVE  ~opened'[i].right
    <3>1. CASE i \in 1 .. n
      BY <1>1, <1>7, <2>3, <3>1 DEF IInv, Judged
    <3>2. CASE i > n
      <4>1. i - n \in 1 .. m /\ n + (i - n) = i
        BY <1>11, <3>2, <1>2
      <4>2. opened'[i] = new[i - n]
        BY <1>7, <4>1
      <4>4. ~new[i - n].right
        BY <1>1, <1>2, <1>5, <1>8, <1>9, <2>3, <4>1, SegmentJudged DEF IInv, Held, new
      <4> QED BY <4>2, <4>4
    <3> QED BY <1>11, <3>1, <3>2
  <2>4. StartedInStep' <=> StartedInStep
    BY <1>1, <1>6 DEF StartedInStep
  <2> HIDE DEF n, m
  <2> QED BY <1>1, <1>6, <1>7, <2>1, <2>2, <2>3, <2>4 DEF Judged
<1>18. Received(b)'
  <2>1. \A i \in 1 .. n + m : Place(i)' = Place(i)
    <3> TAKE i \in 1 .. n + m
    <3>1. i <= Len(opened')
      BY <1>2, <1>7
    <3>2. Place(i)' = opened'[i].gop[2]
      BY <3>1 DEF Place
    <3>3. CASE i \in 1 .. n
      <4>1. i <= Len(opened)
        BY <1>2, <3>3
      <4> QED BY <1>7, <3>2, <3>3, <4>1 DEF Place
    <3>4. CASE i > n
      <4>1. i - n \in 1 .. m /\ n + (i - n) = i /\ ~ (i <= n)
        BY <1>11, <3>4, <1>2
      <4>2. opened'[i].gop = inbox[i - n].gop
        BY <1>4, <1>7, <4>1
      <4> QED BY <3>2, <4>1, <4>2 DEF Place
    <3> QED BY <1>11, <3>3, <3>4
  <2>2. /\ \A i \in 1 .. n + m : rx.skipped + i <= Place(i) /\ Place(i) <= rx.skipped + rx.lost + i
        /\ \A i, j \in 1 .. n + m : i <= j => Place(i) + (j - i) <= Place(j)
        /\ rx.skipped + rx.lost + m + n + Len(wire) = Len(locked) - b
        /\ \A i \in 1 .. n : opened[i].gop[1] = run
    BY <1>1, <1>8 DEF Received
  <2>3. \A i \in 1 .. n + m : opened'[i].gop[1] = run
    <3> TAKE i \in 1 .. n + m
    <3>1. CASE i \in 1 .. n
      BY <1>7, <2>2, <3>1
    <3>2. CASE i > n
      <4>1. i - n \in 1 .. m /\ n + (i - n) = i
        BY <1>11, <3>2, <1>2
      <4>2. opened'[i] = new[i - n]
        BY <1>7, <4>1
      <4>3. opened'[i].gop = inbox[i - n].gop
        BY <1>4, <4>1, <4>2
      <4> QED BY <1>10, <4>1, <4>3
    <3> QED BY <1>11, <3>1, <3>2
  <2>4. /\ Len(inbox') = 0 /\ Len(opened') = n + m /\ (n + m) + 0 = n + m /\ 0 <= G
        /\ 1 .. Len(inbox') = {} /\ locked' = locked /\ wire' = wire /\ run' = run
    BY <1>1, <1>2, <1>3, <1>7
  <2>5. rx.skipped + rx.lost + 0 + (n + m) + Len(wire) = Len(locked) - b
    <3> DEFINE s == rx.skipped
               l == rx.lost
               w == Len(wire)
    <3>1. s \in Nat /\ l \in Nat /\ w \in Nat /\ n \in Nat /\ m \in Nat
          /\ s + l + m + n + w = Len(locked) - b
      BY <1>2, <2>2
    <3> HIDE DEF s, l, w, n, m
    <3>2. s + l + 0 + (n + m) + w = Len(locked) - b
      BY <3>1
    <3> QED BY <3>2 DEF s, l, w
  <2>6. \A i \in 1 .. Len(opened') + Len(inbox') : i \in 1 .. n + m
    BY <2>4
  <2>7. /\ \A i \in 1 .. Len(opened') + Len(inbox') :
              rx.skipped + i <= Place(i)' /\ Place(i)' <= rx.skipped + rx.lost + i
        /\ \A i, j \in 1 .. Len(opened') + Len(inbox') : i <= j => Place(i)' + (j - i) <= Place(j)'
    BY <2>1, <2>2, <2>6
  <2> HIDE DEF n, m, G
  <2>8. \A i \in 1 .. Len(opened') : opened'[i].gop[1] = run'
    BY <2>3, <2>4
  <2>9. Len(inbox') <= GroupSize(rx'.session)
    BY <1>6, <2>4 DEF G
  <2>10. \A i \in 1 .. Len(inbox') : inbox'[i] = locked'[b + inbox'[i].gop[2]]
    BY <2>4
  <2>11. rx'.skipped + rx'.lost + Len(inbox') + Len(opened') + Len(wire') = Len(locked') - b
    BY <1>6, <2>4, <2>5
  <2> QED BY <1>6, <2>7, <2>8, <2>9, <2>10, <2>11 DEF Received
<1> QED BY <1>1, <1>12, <1>13, <1>14, <1>15, <1>16, <1>17, <1>18 DEF IInv

(* A receiver that leaves forgets everything.                                *)
LEMMA KeepsLeaving ==
  ASSUME NEW b \in 0 .. Len(locked), IInv, Held(b), ReceiveEnd
  PROVE  IInv'
<1>1. /\ rx' = Off /\ inbox' = <<>> /\ opened' = <<>>
      /\ UNCHANGED <<run, session, saved, sender, read, batch, number, locked, wire>>
  BY DEF ReceiveEnd
<1>2. ~rx'.on /\ rx' \in [on : BOOLEAN, session : Session \cup {None}, number : Nat,
                          skipped : Nat, ahead : Nat, lost : Nat]
  BY <1>1 DEF Off
<1>3. Typed'
  BY <1>1, <1>2 DEF IInv, Typed
<1>4. Ordered' /\ Sent(b)' /\ Sending(b)' /\ OnTheWire(b)' /\ Records'
  BY <1>1, <1>2 DEF IInv, Ordered, Held, Sent, Sending, OnTheWire, Records, Recorded
<1>5. Numbered(b)'
  BY <1>1 DEF Held, Numbered, NumberedAt
<1>6. Counted' /\ Judged' /\ Received(b)'
  BY <1>2 DEF Counted, Judged, Received
<1> QED BY <1>1, <1>3, <1>4, <1>5, <1>6 DEF IInv

(* Every step keeps the invariant.                                           *)
LEMMA Inductive == IInv /\ [Next]_vars => IInv'
<1> SUFFICES ASSUME IInv, [Next]_vars PROVE IInv'
  OBVIOUS
<1>1. PICK b \in 0 .. Len(locked) : Held(b)
  BY DEF IInv, Held
<1>2. Typed /\ Ordered /\ Records
  BY DEF IInv
<1>3. ASSUME NEW g \in GroupSizes, NEW f \in Firsts, SendStart(g, f)
      PROVE  IInv'
  BY <1>1, <1>2, <1>3, KeepsStarting
<1>4. ASSUME NEW frames \in GopLengths, ReadGop(frames)
      PROVE  IInv'
  BY <1>1, <1>4, KeepsReading
<1>5. CASE InputEnds
  BY <1>1, <1>5, KeepsEndingInput
<1>6. CASE SendSegment
  BY <1>1, <1>6, KeepsSending
<1>7. CASE SegmentFails
  BY <1>1, <1>7, KeepsFailing
<1>8. CASE SaveSession
  BY <1>1, <1>8, KeepsSaving
<1>9. ASSUME NEW skip \in 0 .. MaxLate, NEW ahead \in 0 .. MaxLate, ReceiveStart(skip, ahead)
      PROVE  IInv'
  BY <1>1, <1>9, KeepsJoining
<1>10. CASE ReceiveGop
  BY <1>1, <1>10, KeepsReceiving
<1>11. CASE OpenSegment
  BY <1>1, <1>11, KeepsOpening
<1>12. CASE ReceiveEnd
  BY <1>1, <1>12, KeepsLeaving
<1>13. CASE Lose
  BY <1>1, <1>13, KeepsLosing
<1>14. CASE UNCHANGED vars
  <2>1. UNCHANGED <<run, session, saved, sender, read, batch, number, locked, wire, rx, inbox, opened>>
    BY <1>14 DEF vars
  <2>2. Typed' /\ Ordered' /\ Records' /\ Counted' /\ Judged'
    BY <2>1 DEF IInv, Typed, Ordered, Records, Recorded, Counted, EndOfStream, Judged, StartedInStep
  <2>3. Sent(b)' /\ Sending(b)' /\ OnTheWire(b)' /\ Received(b)'
    <3>1. Sent(b)'
      BY <1>1, <2>1 DEF Held, Sent
    <3>2. Sending(b)'
      BY <1>1, <2>1 DEF Held, Sending
    <3>3. OnTheWire(b)'
      BY <1>1, <2>1 DEF Held, OnTheWire
    <3>4. Received(b)'
      <4>1. \A i : Place(i)' = Place(i)
        BY <2>1 DEF Place
      <4> QED BY <1>1, <2>1, <4>1 DEF Held, Received
    <3> QED BY <3>1, <3>2, <3>3, <3>4
  <2>4. Numbered(b)'
    BY <1>1, <2>1 DEF Held, Numbered, NumberedAt
  <2> QED BY <2>1, <2>2, <2>3, <2>4 DEF IInv
<1> QED BY <1>3, <1>4, <1>5, <1>6, <1>7, <1>8, <1>9, <1>10, <1>11, <1>12, <1>13, <1>14 DEF Next

(* And it holds at first.                                                    *)
LEMMA Initial == Init => IInv
<1> SUFFICES ASSUME Init PROVE IInv
  OBVIOUS
<1> USE DEF Init
<1>1. Typed
  BY StreamSessionAssumption DEF Typed, Off
<1>2. Ordered /\ Records /\ Counted /\ Judged
  BY DEF Ordered, Records, Counted, Judged, Off
<1>3. Sent(0) /\ Numbered(0) /\ OnTheWire(0) /\ Received(0)
  BY DEF Sent, Numbered, OnTheWire, Received, Off
<1>4. Sending(0)
  BY StreamSessionAssumption DEF Sending
<1> QED BY <1>1, <1>2, <1>3, <1>4 DEF IInv

(* The invariant holds of every behaviour, for any numbers of transmissions, *)
(* GOPs, losses and late starts, any GOP lengths and any --gops.             *)
THEOREM Invariant == Spec => []IInv
BY Initial, Inductive, PTL DEF Spec

(* The invariant implies that every variable is typed.                       *)
LEMMA TypesImplied == IInv => TypeOK
<1> SUFFICES ASSUME IInv PROVE TypeOK
  OBVIOUS
<1>1. PICK b \in 0 .. Len(locked) : Held(b)
  BY DEF IInv, Held
<1>2. Typed /\ Len(locked) \in Nat /\ b \in Nat /\ Len(locked) <= MaxGops /\ MaxGops \in Nat
  BY <1>1, Sizes DEF IInv, Held, Sending
<1>3. sender # "idle" => Len(batch) <= GroupSize(session)
  BY <1>1 DEF Held, Sending
<1>4. rx.on => Len(inbox) <= GroupSize(rx.session)
  BY <1>1 DEF Held, Received
<1>5. ASSUME rx.on
      PROVE  rx.skipped + rx.lost + Len(inbox) + Len(opened) + Len(wire) <= MaxGops
  <2>1. rx.skipped + rx.lost + Len(inbox) + Len(opened) + Len(wire) = Len(locked) - b
    BY <1>1, <1>5 DEF Held, Received
  <2>2. Len(locked) - b <= MaxGops
    BY <1>2
  <2> QED BY <2>1, <2>2
<1> QED BY <1>2, <1>3, <1>4, <1>5 DEF TypeOK, Typed

(* Every variable holds a value the program can put there, in every state:   *)
(* no batch is larger than a segment, and a receiver has GOPs of this        *)
(* transmission only, each of them once (_group, cli.py stream-unlock).      *)
THEOREM TypesHold == Spec => []TypeOK
BY Invariant, TypesImplied, PTL

(* Labels in order never overlap.                                            *)
LEMMA FreshImplied == IInv => NoKeystreamReuse
<1> SUFFICES ASSUME IInv PROVE NoKeystreamReuse
  OBVIOUS
<1>1. DOMAIN locked = 1 .. Len(locked) /\ Len(locked) \in Nat /\ locked \in Seq(Locked)
  BY Sizes DEF IInv, Typed
<1>2. ASSUME NEW j \in 1 .. Len(locked), NEW k \in 1 .. Len(locked), j < k
      PROVE  FrameLabels(locked[j]) \cap FrameLabels(locked[k]) = {}
  <2> SUFFICES ASSUME NEW x \in FrameLabels(locked[j]), x \in FrameLabels(locked[k])
               PROVE  FALSE
    OBVIOUS
  <2>1. /\ locked[j] \in Locked /\ locked[k] \in Locked
    BY <1>1
  <2>2. /\ locked[j].label \in [nonce : Nat, segment : Nat, frame : Nat] /\ locked[j].frames \in Nat
        /\ locked[k].label \in [nonce : Nat, segment : Nat, frame : Nat] /\ locked[k].frames \in Nat
    BY <2>1 DEF Locked
  <2>3. PICK c \in 0 .. locked[j].frames - 1 : x = [locked[j].label EXCEPT !.frame = @ + c]
    BY DEF FrameLabels
  <2>4. PICK d \in 0 .. locked[k].frames - 1 : x = [locked[k].label EXCEPT !.frame = @ + d]
    BY DEF FrameLabels
  <2>5. /\ x.nonce = locked[j].label.nonce /\ x.segment = locked[j].label.segment
        /\ x.frame = locked[j].label.frame + c
    BY <2>2, <2>3
  <2>6. /\ x.nonce = locked[k].label.nonce /\ x.segment = locked[k].label.segment
        /\ x.frame = locked[k].label.frame + d
    BY <2>2, <2>4
  <2>7. Before(locked[j], locked[k])
    BY <1>2 DEF IInv, Ordered
  <2>8. locked[j].label.frame + locked[j].frames <= locked[k].label.frame
    BY <2>2, <2>5, <2>6, <2>7 DEF Before
  <2> DEFINE p == locked[j].label.frame
             q == locked[k].label.frame
             n == locked[j].frames
  <2>9. p \in Nat /\ q \in Nat /\ n \in Nat /\ c \in Nat /\ d \in Nat /\ c < n
    <3>1. p \in Nat /\ q \in Nat /\ n \in Nat /\ locked[k].frames \in Nat
      BY ONLY <2>2
    <3> HIDE DEF p, q
    <3> QED BY <3>1
  <2>10. p + c = q + d /\ p + n <= q
    BY <2>5, <2>6, <2>8
  <2> HIDE DEF p, q, n
  <2> QED BY <2>9, <2>10
<1>3. ASSUME NEW j \in DOMAIN locked, NEW k \in DOMAIN locked, j # k
      PROVE  FrameLabels(locked[j]) \cap FrameLabels(locked[k]) = {}
  <2>1. CASE j < k
    BY <1>1, <1>2, <2>1
  <2>2. CASE k < j
    BY <1>1, <1>2, <2>2
  <2> QED BY <1>1, <1>3, <2>1, <2>2
<1> QED BY <1>3 DEF NoKeystreamReuse

(* No two frames ever sent are locked under one label (_label): in a         *)
(* segment, across the segments of a transmission, and across transmissions. *)
THEOREM KeystreamsAreFresh == Spec => []NoKeystreamReuse
BY Invariant, FreshImplied, PTL

(* An unlocked GOP belongs to this transmission, and its place is known.     *)
LEMMA OpenedAt ==
  ASSUME IInv, rx.on, NEW i \in DOMAIN opened
  PROVE  /\ opened[i] \in Opening /\ opened[i].gop[1] = run /\ i \in Nat
         /\ rx.skipped \in Nat /\ rx.lost \in Nat
         /\ rx.skipped + i <= opened[i].gop[2] /\ opened[i].gop[2] <= rx.skipped + rx.lost + i
         /\ \A j \in DOMAIN opened : i <= j => opened[i].gop[2] + (j - i) <= opened[j].gop[2]
<1>1. PICK b \in 0 .. Len(locked) : Held(b)
  BY DEF IInv, Held
<1>2. /\ Len(opened) \in Nat /\ Len(inbox) \in Nat /\ opened \in Seq(Opening)
      /\ DOMAIN opened = 1 .. Len(opened) /\ rx.skipped \in Nat /\ rx.lost \in Nat
  BY Sizes DEF IInv, Typed
<1>3. \A j \in DOMAIN opened : j \in 1 .. Len(opened) + Len(inbox) /\ Place(j) = opened[j].gop[2]
  BY <1>2 DEF Place
<1>4. Received(b)
  BY <1>1 DEF Held
<1>5. /\ opened[i].gop[1] = run
      /\ rx.skipped + i <= Place(i) /\ Place(i) <= rx.skipped + rx.lost + i
      /\ \A j \in DOMAIN opened : i <= j => Place(i) + (j - i) <= Place(j)
  BY <1>2, <1>3, <1>4 DEF Received
<1>6. opened[i] \in Opening /\ i \in Nat
  BY <1>2
<1> QED BY <1>2, <1>3, <1>5, <1>6

(* In step and without losses each GOP is at its own position.               *)
LEMMA RestoredImplied == IInv => InStepReceiverRestores
<1> SUFFICES ASSUME IInv, rx.on, StartedInStep, rx.lost = 0, NEW i \in DOMAIN opened
             PROVE  opened[i] = [gop |-> <<run, rx.skipped + i>>, right |-> TRUE]
  BY DEF InStepReceiverRestores
<1>1. /\ opened[i] \in Opening /\ opened[i].gop[1] = run /\ i \in Nat /\ rx.skipped \in Nat
      /\ rx.skipped + i <= opened[i].gop[2] /\ opened[i].gop[2] <= rx.skipped + 0 + i
  BY OpenedAt
<1>2. opened[i].gop \in Nat \X Nat
  BY <1>1 DEF Opening
<1>3. opened[i].gop[2] = rx.skipped + i
  BY <1>1, <1>2
<1>4. opened[i].gop = <<run, rx.skipped + i>>
  BY <1>1, <1>2, <1>3
<1>5. DOMAIN opened = 1 .. Len(opened)
  BY DEF IInv, Typed
<1>6. opened[i].right
  BY <1>3, <1>5 DEF IInv, Judged
<1>7. opened[i].right = TRUE
  BY <1>1, <1>6 DEF Opening
<1> QED BY <1>1, <1>4, <1>7 DEF Opening

(* A receiver that joined in step and lost nothing gets every GOP back, in   *)
(* order, with none missing (stream.py: it rebuilds each manifest itself).   *)
THEOREM RestoresInStep == Spec => []InStepReceiverRestores
BY Invariant, RestoredImplied, PTL

(* Places only run ahead, so a GOP out of place is followed by such only.    *)
LEMMA NeverBackImplied == IInv => OutOfStepForGood
<1> SUFFICES ASSUME IInv, rx.on
             PROVE  /\ rx.lost = 0 => \A i, j \in DOMAIN opened : opened[i].right = opened[j].right
                    /\ StartedInStep =>
                         \A i, j \in DOMAIN opened : i < j /\ ~opened[i].right => ~opened[j].right
  BY DEF OutOfStepForGood, RightThroughoutOrNever, LossIsNeverHealed
<1>1. DOMAIN opened = 1 .. Len(opened)
  BY DEF IInv, Typed
<1>2. \A i \in DOMAIN opened :
         /\ opened[i] \in Opening /\ i \in Nat /\ opened[i].gop \in Nat \X Nat
         /\ rx.skipped \in Nat /\ rx.lost \in Nat
         /\ rx.skipped + i <= opened[i].gop[2] /\ opened[i].gop[2] <= rx.skipped + rx.lost + i
         /\ \A j \in DOMAIN opened : i <= j => opened[i].gop[2] + (j - i) <= opened[j].gop[2]
  BY OpenedAt DEF Opening
<1>3. StartedInStep => \A i \in DOMAIN opened : opened[i].right <=> opened[i].gop[2] = rx.skipped + i
  BY <1>1 DEF IInv, Judged
<1>4. ASSUME rx.lost = 0
      PROVE  \/ \A i \in DOMAIN opened : opened[i].right
             \/ \A i \in DOMAIN opened : ~opened[i].right
  <2>1. CASE StartedInStep
    <3>1. ASSUME NEW i \in DOMAIN opened
          PROVE  opened[i].right
      <4>1. opened[i].gop[2] = rx.skipped + i
        BY <1>2, <1>4
      <4> QED BY <1>3, <2>1, <4>1
    <3> QED BY <3>1
  <2>2. CASE rx.session = session /\ ~StartedInStep
    BY <1>1, <1>4, <2>2 DEF IInv, Judged, StartedInStep
  <2>3. CASE rx.session # session
    <3>1. rx.session.nonce # run
      BY <2>3 DEF IInv, Records, Recorded
    <3> QED BY <1>1, <3>1 DEF IInv, Judged
  <2> QED BY <2>1, <2>2, <2>3
<1>5. ASSUME rx.lost = 0, NEW i \in DOMAIN opened, NEW j \in DOMAIN opened
      PROVE  opened[i].right = opened[j].right
  <2>1. opened[i].right \in BOOLEAN /\ opened[j].right \in BOOLEAN
    BY <1>2 DEF Opening
  <2>2. opened[i].right <=> opened[j].right
    BY <1>4, <1>5
  <2> QED BY <2>1, <2>2
<1>6. ASSUME StartedInStep, NEW i \in DOMAIN opened, NEW j \in DOMAIN opened, i < j, ~opened[i].right
      PROVE  ~opened[j].right
  <2>1. opened[i].gop[2] # rx.skipped + i
    BY <1>3, <1>6
  <2>2. /\ i \in Nat /\ j \in Nat /\ i <= j /\ opened[i].gop[2] \in Nat /\ opened[j].gop[2] \in Nat
        /\ rx.skipped \in Nat /\ rx.skipped + i <= opened[i].gop[2]
        /\ opened[i].gop[2] + (j - i) <= opened[j].gop[2]
    BY <1>2, <1>6
  <2>3. opened[j].gop[2] # rx.skipped + j
    BY <2>1, <2>2
  <2> QED BY <1>3, <1>6, <2>3
<1> QED BY <1>5, <1>6

(* A receiver out of step stays out of step, and one that lost nothing is    *)
(* right about every GOP or about none, since nothing in the stream tells    *)
(* its place.                                                                *)
THEOREM NeverBackInStep == Spec => []OutOfStepForGood
BY Invariant, NeverBackImplied, PTL
=============================================================================
