--------------------------- MODULE LockCoreProofs ---------------------------
(***************************************************************************)
(* Proof, for any files, features, plans, modes, layers, encoder quirks and  *)
(* number of locks, kills and edits, that a saved output unlocks to the      *)
(* carrier, that a manifest that says its self-test passed never leads to a  *)
(* mismatch, that what is shipped is not the plaintext, that a saved         *)
(* manifest verifies, what a refused lock leaves, and that every variable    *)
(* holds what it should.                                                     *)
(*                                                                         *)
(* None of them is inductive.  What the self-test did to the output must be  *)
(* known when another command does it again, with the manifest read from     *)
(* disk: the files it went through on the way are a witness (Undone,         *)
(* OnTheWay), layer by layer, and undoing a layer gives the same file each   *)
(* time.  Without a self-test the files the lock itself went through are the *)
(* witness (Backed): a layer is undone by the round trip of the transform    *)
(* and, in mode "substitute", by the one repair it may need (LayerUndone);   *)
(* the pass over an audio file is undone as a whole (AudioRoundTrip).        *)
(* That the manifest is the one that was made with the file follows from its *)
(* tag (OnDisk): an edit changes the locked digest, which the tag covers.    *)
(* The types rest on the same witness: an encoder that drops a slot drops    *)
(* none on the way back, for those files held the values as they were.       *)
(***************************************************************************)
EXTENDS LockCore, SequenceTheorems, DataInduction

-----------------------------------------------------------------------------
(* The transform of one frame is exactly reversible, for every number of      *)
(* slots, every choice of domains, every mode and every plan.                 *)

(* Shifting inside a cyclic domain stays inside it, and the opposite shift    *)
(* undoes it: what the wrap-around of lo + ((v - lo) + k) mod n is for.       *)
LEMMA ShiftFacts ==
  ASSUME NEW d \in Domain, NEW v \in Int, CheckInDomain(v, d),
         NEW k \in Nat, k < d.n
  PROVE  /\ Shift(v, d, k) \in Int
         /\ CheckInDomain(Shift(v, d, k), d)
         /\ Shift(Shift(v, d, k), d, -k) = v
<1> DEFINE n == d.n
           x == v - d.lo
<1>1. d.lo \in Int /\ n \in Nat \ {0} /\ x \in 0 .. n - 1 /\ k \in 0 .. n - 1
  BY DEF Domain, CheckInDomain
<1> HIDE DEF n, x
<1>2. (x + k) % n \in 0 .. n - 1 /\ (((x + k) % n) - k) % n = x
  <2>1. \A y \in 0 .. n - 1 : y % n = y
    BY <1>1
  <2>2. \A y \in n .. 2 * n - 1 : y % n = y - n
    BY <1>1
  <2>3. \A y \in (-n) .. -1 : y % n = y + n
    BY <1>1
  <2> QED BY <1>1, <2>1, <2>2, <2>3
<1>3. Shift(v, d, k) = d.lo + ((x + k) % n)
  BY DEF Shift, x, n
<1>4. Shift(Shift(v, d, k), d, -k) = d.lo + ((((x + k) % n) - k) % n)
  BY <1>1, <1>2, <1>3 DEF Shift, n
<1> QED BY <1>1, <1>2, <1>3, <1>4 DEF CheckInDomain, n, x

(* A bucketed permutation is a permutation of the selected slots that never   *)
(* moves a value to a slot of another domain, and invert_permutation undoes   *)
(* it from either side.                                                       *)
LEMMA PlanFacts ==
  ASSUME NEW slots \in Seq(Domain), NEW mode, NEW dense,
         NEW plan \in Plans(slots, mode, dense)
  PROVE  /\ plan.selected \subseteq DOMAIN slots
         /\ \A i \in plan.selected :
              /\ plan.offsets[i] \in Nat /\ plan.offsets[i] < slots[i].n
              /\ plan.source[i] \in plan.selected
              /\ slots[plan.source[i]] = slots[i]
              /\ InvertPermutation(plan.source)[i] \in plan.selected
              /\ plan.source[InvertPermutation(plan.source)[i]] = i
              /\ InvertPermutation(plan.source)[plan.source[i]] = i
<1>1. PICK sel \in Selections(slots, dense) :
           /\ plan.selected = sel
           /\ plan.offsets \in OffsetChoices(slots, sel, mode)
           /\ plan.source \in SourceChoices(slots, sel, mode)
  BY DEF Plans
<1>2. sel \subseteq DOMAIN slots
  BY DEF Selections
<1>3. \A i \in sel : slots[i] \in Domain
  BY <1>2
<1>4. \A i \in sel : plan.offsets[i] \in Nat /\ plan.offsets[i] < slots[i].n
  <2>1. CASE mode \in {"full", "substitute"}
    <3>1. Residues(slots) \subseteq Nat
      BY DEF Residues, Domain
    <3> QED BY <1>1, <2>1, <3>1 DEF OffsetChoices
  <2>2. CASE mode \notin {"full", "substitute"}
    BY <1>1, <1>3, <2>2 DEF OffsetChoices, Domain
  <2> QED BY <2>1, <2>2
<1>5. /\ plan.source \in [sel -> sel]
      /\ \A i \in sel : slots[plan.source[i]] = slots[i]
      /\ \A i, j \in sel : plan.source[i] = plan.source[j] => i = j
      /\ \A j \in sel : \E i \in sel : plan.source[i] = j
  <2>1. CASE mode \in {"full", "permute"}
    BY <1>1, <2>1 DEF SourceChoices, Bijection, Injection, Surjection, IsInjective
  <2>2. CASE mode \notin {"full", "permute"}
    <3>1. plan.source = [i \in sel |-> i]
      BY <1>1, <2>2 DEF SourceChoices
    <3> QED BY <3>1
  <2> QED BY <2>1, <2>2
<1>6. \A j \in sel : /\ InvertPermutation(plan.source)[j] \in sel
                     /\ plan.source[InvertPermutation(plan.source)[j]] = j
  BY <1>5 DEF InvertPermutation
<1>7. \A i \in sel : InvertPermutation(plan.source)[plan.source[i]] = i
  BY <1>5, <1>6
<1>8. plan.selected = sel
  BY <1>1
<1>9. ASSUME NEW i \in sel
      PROVE  /\ plan.offsets[i] \in Nat /\ plan.offsets[i] < slots[i].n
             /\ plan.source[i] \in sel
             /\ slots[plan.source[i]] = slots[i]
             /\ InvertPermutation(plan.source)[i] \in sel
             /\ plan.source[InvertPermutation(plan.source)[i]] = i
             /\ InvertPermutation(plan.source)[plan.source[i]] = i
  <2>1. plan.offsets[i] \in Nat /\ plan.offsets[i] < slots[i].n
    BY <1>4
  <2>2. plan.source[i] \in sel /\ slots[plan.source[i]] = slots[i]
    BY ONLY <1>5, i \in sel
  <2>3. /\ InvertPermutation(plan.source)[i] \in sel
        /\ plan.source[InvertPermutation(plan.source)[i]] = i
    BY <1>6
  <2>4. InvertPermutation(plan.source)[plan.source[i]] = i
    BY <1>7
  <2> QED BY <2>1, <2>2, <2>3, <2>4
<1> QED BY ONLY <1>2, <1>8, <1>9

(* The locked frame is again a frame of legal values: substitution wraps      *)
(* inside each slot's domain and permutation moves values only between slots  *)
(* of the same domain.                                                        *)
THEOREM ForwardStaysInDomain ==
  ASSUME NEW slots \in Seq(Domain), NEW mode, NEW dense,
         NEW plan \in Plans(slots, mode, dense),
         NEW vals \in [DOMAIN slots -> Int], AllInDomain(slots, vals)
  PROVE  /\ ApplyForward(slots, plan, vals) \in [DOMAIN slots -> Int]
         /\ AllInDomain(slots, ApplyForward(slots, plan, vals))
<1> DEFINE sub == Substitute(slots, plan, 1, vals)
<1>1. \A i \in DOMAIN slots : slots[i] \in Domain
  OBVIOUS
<1>2. \A i \in DOMAIN slots : sub[i] \in Int /\ CheckInDomain(sub[i], slots[i])
  <2> SUFFICES ASSUME NEW i \in DOMAIN slots
               PROVE  sub[i] \in Int /\ CheckInDomain(sub[i], slots[i])
    OBVIOUS
  <2>1. CASE i \in plan.selected
    <3>1. plan.offsets[i] \in Nat /\ plan.offsets[i] < slots[i].n
      BY <2>1, PlanFacts
    <3>2. sub[i] = Shift(vals[i], slots[i], plan.offsets[i])
      BY <2>1, <3>1 DEF Substitute
    <3> QED BY <1>1, <3>1, <3>2, ShiftFacts DEF AllInDomain
  <2>2. CASE i \notin plan.selected
    BY <2>2 DEF Substitute, AllInDomain
  <2> QED BY <2>1, <2>2
<1> HIDE DEF sub
<1>3. \A i \in plan.selected :
         plan.source[i] \in DOMAIN slots /\ slots[plan.source[i]] = slots[i]
  BY PlanFacts
<1>4. ApplyForward(slots, plan, vals) = Permute(slots, plan, sub)
  BY DEF ApplyForward, sub
<1> QED BY <1>2, <1>3, <1>4 DEF Permute, AllInDomain

(* Unlock undoes lock, exactly: every frame of legal values comes back under   *)
(* the plan that locked it.                                                   *)
THEOREM RoundTrip ==
  ASSUME NEW slots \in Seq(Domain), NEW mode, NEW dense,
         NEW plan \in Plans(slots, mode, dense),
         NEW vals \in [DOMAIN slots -> Int], AllInDomain(slots, vals)
  PROVE  ApplyBackward(slots, plan, ApplyForward(slots, plan, vals)) = vals
<1> DEFINE sub  == Substitute(slots, plan, 1, vals)
           fwd  == Permute(slots, plan, sub)
           unp  == Unpermute(slots, plan, fwd)
           back == Substitute(slots, plan, -1, unp)
<1>1. \A i \in DOMAIN slots : unp[i] = sub[i]
  <2> SUFFICES ASSUME NEW i \in DOMAIN slots PROVE unp[i] = sub[i]
    OBVIOUS
  <2>1. CASE i \in plan.selected
    <3> DEFINE j == InvertPermutation(plan.source)[i]
    <3>1. j \in plan.selected /\ j \in DOMAIN slots /\ plan.source[j] = i
      BY <2>1, PlanFacts
    <3>2. unp[i] = fwd[j]
      BY <2>1 DEF Unpermute
    <3>3. fwd[j] = sub[plan.source[j]]
      BY <3>1 DEF Permute
    <3> QED BY <3>1, <3>2, <3>3
  <2>2. CASE i \notin plan.selected
    BY <2>2 DEF Unpermute, Permute
  <2> QED BY <2>1, <2>2
<1>2. \A i \in DOMAIN slots : back[i] = vals[i]
  <2> SUFFICES ASSUME NEW i \in DOMAIN slots PROVE back[i] = vals[i]
    OBVIOUS
  <2>1. CASE i \in plan.selected
    <3>1. plan.offsets[i] \in Nat /\ plan.offsets[i] < slots[i].n /\ slots[i] \in Domain
      BY <2>1, PlanFacts
    <3>2. sub[i] = Shift(vals[i], slots[i], plan.offsets[i])
      BY <2>1, <3>1 DEF Substitute
    <3>3. back[i] = Shift(unp[i], slots[i], -plan.offsets[i])
      BY <2>1, <3>1 DEF Substitute
    <3>4. vals[i] \in Int /\ CheckInDomain(vals[i], slots[i])
      BY DEF AllInDomain
    <3> HIDE DEF sub, unp, back
    <3> QED BY <1>1, <3>1, <3>2, <3>3, <3>4, ShiftFacts
  <2>2. CASE i \notin plan.selected
    BY <1>1, <2>2 DEF Substitute
  <2> QED BY <2>1, <2>2
<1>3. ApplyBackward(slots, plan, ApplyForward(slots, plan, vals)) = back
  BY DEF ApplyBackward, ApplyForward
<1>4. back = [i \in DOMAIN slots |-> back[i]]
  BY DEF Substitute
<1> HIDE DEF back
<1> QED BY <1>2, <1>3, <1>4

-----------------------------------------------------------------------------
(* A pass over an audio file, and the pass that undoes it.                    *)

(* Unlocking keeps the shape of any frame, legal or not.                      *)
LEMMA BackwardTyped ==
  ASSUME NEW slots \in Seq(Domain), NEW mode, NEW dense,
         NEW plan \in Plans(slots, mode, dense), NEW vals \in [DOMAIN slots -> Int]
  PROVE  ApplyBackward(slots, plan, vals) \in [DOMAIN slots -> Int]
<1> DEFINE u == Unpermute(slots, plan, vals)
<1>1. \A i \in plan.selected :
         /\ plan.offsets[i] \in Nat /\ i \in DOMAIN slots
         /\ InvertPermutation(plan.source)[i] \in DOMAIN slots
  BY PlanFacts
<1>2. \A i \in DOMAIN slots : u[i] \in Int
  BY <1>1 DEF Unpermute
<1> HIDE DEF u
<1>3. \A i \in plan.selected : Shift(u[i], slots[i], (-1) * plan.offsets[i]) \in Int
  <2> TAKE i \in plan.selected
  <2>1. PICK d, k, v : d = slots[i] /\ k = (-1) * plan.offsets[i] /\ v = u[i]
    OBVIOUS
  <2>2. d \in Domain /\ k \in Int /\ v \in Int
    BY <1>1, <1>2, <2>1
  <2>3. d.lo \in Int /\ d.n \in Nat \ {0}
    BY <2>2 DEF Domain
  <2>4. PICK n, x : n = d.n /\ x = (v - d.lo) + k
    OBVIOUS
  <2>5. n \in Nat \ {0} /\ x \in Int
    BY <2>2, <2>3, <2>4
  <2>6. x % n \in Int
    BY ONLY <2>5
  <2> QED BY <2>1, <2>3, <2>4, <2>6 DEF Shift
<1>4. Substitute(slots, plan, -1, u) \in [DOMAIN slots -> Int]
  <2>1. \A i \in DOMAIN slots :
           (IF i \in plan.selected THEN Shift(u[i], slots[i], (-1) * plan.offsets[i]) ELSE u[i]) \in Int
    <3> HIDE DEF Shift
    <3> QED BY <1>2, <1>3
  <2> DEFINE w(i) == IF i \in plan.selected THEN Shift(u[i], slots[i], (-1) * plan.offsets[i]) ELSE u[i]
  <2>2. Substitute(slots, plan, -1, u) = [i \in DOMAIN slots |-> w(i)]
    BY DEF Substitute
  <2>3. \A i \in DOMAIN slots : w(i) \in Int
    BY <2>1
  <2> HIDE DEF w
  <2> QED BY <2>2, <2>3
<1> QED BY <1>4 DEF ApplyBackward, u

(* What a file of the right layout holds.                                     *)
Whole == {x \in [Features -> UNION {[DOMAIN Slots[f] -> Int] : f \in Features}] :
             \A f \in Features : x[f] \in [DOMAIN Slots[f] -> Int]}

\* The plans of a lock of these layers.
Planned(order, plans, mode, dense) ==
    /\ order \in Seq(Features)
    /\ \A i \in 1 .. Len(order) : plans[order[i]] \in Plans(Slots[order[i]], mode, dense)

\* One layer of the pass over an audio file.
PassLayer(x, f, plans, forward) ==
    IF x = None THEN None
    ELSE IF forward /\ ~AllInDomain(Slots[f], x[f]) THEN None
    ELSE [x EXCEPT ![f] = TransformLayer(f, plans[f], forward, x[f])]

\* The feature of a step of the pass: unlocking takes the layers in reverse.
Turn(order, forward, i) == IF forward THEN order[i] ELSE order[Len(order) + 1 - i]

\* r[i] is the file after i layers.
Passes(r, file, order, plans, forward) ==
    /\ r \in [0 .. Len(order) -> Whole \cup {None}] /\ r[0] = file
    /\ \A i \in 1 .. Len(order) : r[i] = PassLayer(r[i - 1], Turn(order, forward, i), plans, forward)

LEMMA LayerTyped ==
  ASSUME NEW x \in Whole \cup {None}, NEW f \in Features, NEW plans, NEW mode, NEW dense,
         plans[f] \in Plans(Slots[f], mode, dense), NEW forward \in BOOLEAN
  PROVE  PassLayer(x, f, plans, forward) \in Whole \cup {None}
<1> SUFFICES ASSUME x # None, forward => AllInDomain(Slots[f], x[f])
             PROVE  [x EXCEPT ![f] = TransformLayer(f, plans[f], forward, x[f])] \in Whole
  BY DEF PassLayer
<1> DEFINE v == TransformLayer(f, plans[f], forward, x[f])
<1>1. x \in Whole /\ Slots[f] \in Seq(Domain) /\ x[f] \in [DOMAIN Slots[f] -> Int]
  BY LockCoreAssumption DEF Whole
<1>2. v \in [DOMAIN Slots[f] -> Int]
  <2>1. CASE forward
    BY <1>1, <2>1, ForwardStaysInDomain DEF TransformLayer
  <2>2. CASE ~forward
    BY <1>1, <2>2, BackwardTyped DEF TransformLayer
  <2> QED BY <2>1, <2>2
<1> HIDE DEF v
<1> QED BY <1>1, <1>2 DEF Whole, v

LEMMA PassExists ==
  ASSUME NEW file \in Whole, NEW order, NEW plans, NEW mode, NEW dense,
         Planned(order, plans, mode, dense), NEW forward \in BOOLEAN
  PROVE  \E r : /\ Passes(r, file, order, plans, forward)
                /\ r[Len(order)] = AudioPass(file, order, plans, forward)
<1> DEFINE n == Len(order)
           V == Whole \cup {None}
           step == [p \in V \X (1 .. n) |-> PassLayer(p[1], Turn(order, forward, p[2]), plans, forward)]
           feature(i) == IF forward THEN order[i] ELSE order[n + 1 - i]
           result[i \in 0 .. n] ==
             IF i = 0 THEN file
             ELSE IF result[i - 1] = None THEN None
             ELSE LET f == feature(i)
                      vals == result[i - 1][f]
                  IN  IF forward /\ ~AllInDomain(Slots[f], vals) THEN None
                      ELSE [result[i - 1] EXCEPT ![f] =
                                TransformLayer(f, plans[f], forward, vals)]
<1>1. n \in Nat /\ order \in Seq(Features)
  BY DEF Planned
<1>2. \A i \in 1 .. n : LET f == Turn(order, forward, i)
                        IN  f \in Features /\ plans[f] \in Plans(Slots[f], mode, dense)
  <2> TAKE i \in 1 .. n
  <2>1. n + 1 - i \in 1 .. n
    BY <1>1
  <2> HIDE DEF n
  <2>2. \A j \in 1 .. n : order[j] \in Features /\ plans[order[j]] \in Plans(Slots[order[j]], mode, dense)
    BY <1>1 DEF Planned, n
  <2>3. Turn(order, forward, i) = order[i] \/ Turn(order, forward, i) = order[n + 1 - i]
    BY DEF Turn, n
  <2> QED BY <2>1, <2>2, <2>3
<1>3. step \in [V \X (1 .. n) -> V]
  <2> HIDE DEF n
  <2>1. \A x \in V, i \in 1 .. n : PassLayer(x, Turn(order, forward, i), plans, forward) \in V
    BY <1>2, LayerTyped
  <2> QED BY <2>1
<1>4. \A x \in V, i \in 1 .. n : step[<<x, i>>] = PassLayer(x, Turn(order, forward, i), plans, forward)
  OBVIOUS
<1> HIDE DEF step
<1>5. PICK g : Steps(g, n, V, file, step)
  <2>1. file \in V
    OBVIOUS
  <2> QED BY ONLY <1>1, <1>3, <2>1, StepRecursion
<1>6. /\ g \in [0 .. n -> V] /\ g[0] = file
      /\ \A i \in 1 .. n : g[i] = PassLayer(g[i - 1], Turn(order, forward, i), plans, forward)
  <2>1. \A i \in 1 .. n : i - 1 \in 0 .. n
    BY <1>1
  <2> QED BY <1>4, <1>5, <2>1 DEF Steps
<1>7. \E h : h = [i \in 0 .. n |->
             IF i = 0 THEN file
             ELSE IF h[i - 1] = None THEN None
             ELSE LET f == feature(i)
                      vals == h[i - 1][f]
                  IN  IF forward /\ ~AllInDomain(Slots[f], vals) THEN None
                      ELSE [h[i - 1] EXCEPT ![f] =
                                TransformLayer(f, plans[f], forward, vals)]]
  <2>1. \A i \in 1 .. n : g[i] =
             IF g[i - 1] = None THEN None
             ELSE LET f == feature(i)
                      vals == g[i - 1][f]
                  IN  IF forward /\ ~AllInDomain(Slots[f], vals) THEN None
                      ELSE [g[i - 1] EXCEPT ![f] =
                                TransformLayer(f, plans[f], forward, vals)]
    BY <1>6 DEF PassLayer, Turn
  <2>2. \A i \in 0 .. n : i # 0 => i \in 1 .. n
    BY <1>1
  <2> DEFINE body(h, i) ==
             IF i = 0 THEN file
             ELSE IF h[i - 1] = None THEN None
             ELSE LET f == feature(i)
                      vals == h[i - 1][f]
                  IN  IF forward /\ ~AllInDomain(Slots[f], vals) THEN None
                      ELSE [h[i - 1] EXCEPT ![f] =
                                TransformLayer(f, plans[f], forward, vals)]
  <2>3. \A i \in 0 .. n : g[i] = body(g, i)
    BY <1>6, <2>1, <2>2
  <2> HIDE DEF body
  <2>4. g = [i \in 0 .. n |-> body(g, i)]
    BY <1>6, <2>3
  <2>5. \E h : h = [i \in 0 .. n |-> body(h, i)]
    BY <2>4
  <2> QED BY <2>5 DEF body
<1>8. result = [i \in 0 .. n |->
             IF i = 0 THEN file
             ELSE IF result[i - 1] = None THEN None
             ELSE LET f == feature(i)
                      vals == result[i - 1][f]
                  IN  IF forward /\ ~AllInDomain(Slots[f], vals) THEN None
                      ELSE [result[i - 1] EXCEPT ![f] =
                                TransformLayer(f, plans[f], forward, vals)]]
  BY <1>7
<1>9. AudioPass(file, order, plans, forward) = result[n]
  BY DEF AudioPass
<1> HIDE DEF result
<1>10. \A i \in 0 .. n : result[i] = g[i]
  <2> DEFINE S == {i \in Nat : i <= n => result[i] = g[i]}
  <2>1. 0 \in S
    <3>1. 0 \in 0 .. n
      BY <1>1
    <3>2. result[0] = file
      BY <1>8, <3>1
    <3> HIDE DEF n
    <3> QED BY ONLY <1>6, <3>2
  <2>2. ASSUME NEW i \in Nat, i \in S
        PROVE  i + 1 \in S
    <3> SUFFICES ASSUME i + 1 <= n PROVE result[i + 1] = g[i + 1]
      OBVIOUS
    <3>1. i + 1 \in 1 .. n /\ (i + 1) - 1 = i /\ i + 1 \in 0 .. n /\ i + 1 # 0 /\ result[i] = g[i]
      BY <1>1, <2>2
    <3>2. g[i + 1] = PassLayer(g[i], Turn(order, forward, i + 1), plans, forward)
      BY <1>6, <3>1
    <3>3. result[i + 1] = PassLayer(result[i], Turn(order, forward, i + 1), plans, forward)
      <4> HIDE DEF feature
      <4>1. i + 1 \in 0 .. n /\ i + 1 # 0 /\ (i + 1) - 1 = i
        BY <3>1
      <4>2. result[i + 1] =
               IF result[i] = None THEN None
               ELSE IF forward /\ ~AllInDomain(Slots[feature(i + 1)], result[i][feature(i + 1)])
                    THEN None
                    ELSE [result[i] EXCEPT ![feature(i + 1)] =
                            TransformLayer(feature(i + 1), plans[feature(i + 1)], forward,
                                           result[i][feature(i + 1)])]
        BY <1>8, <4>1
      <4>3. result[i + 1] = PassLayer(result[i], feature(i + 1), plans, forward)
        BY ONLY <4>2 DEF PassLayer
      <4> QED BY <4>3 DEF Turn, feature
    <3> QED BY <3>1, <3>2, <3>3
  <2> HIDE DEF S
  <2>3. \A i \in Nat : i \in S
    BY <2>1, <2>2, Inductively
  <2> QED BY <1>1, <2>3 DEF S
<1> QED BY <1>1, <1>6, <1>9, <1>10 DEF Passes

(* One pass of locking is undone by one pass of unlocking, layer by layer.    *)
LEMMA AudioRoundTrip ==
  ASSUME NEW file \in Whole, NEW order, NEW plans, NEW mode, NEW dense,
         Planned(order, plans, mode, dense), AudioPass(file, order, plans, TRUE) # None
  PROVE  AudioPass(AudioPass(file, order, plans, TRUE), order, plans, FALSE) = file
<1> DEFINE n == Len(order)
           out == AudioPass(file, order, plans, TRUE)
<1>1. n \in Nat /\ \A i \in 1 .. n : /\ order[i] \in Features
                                     /\ plans[order[i]] \in Plans(Slots[order[i]], mode, dense)
  BY DEF Planned
<1>2. PICK r : Passes(r, file, order, plans, TRUE) /\ r[n] = out
  BY PassExists
<1> HIDE DEF n, out
<1>3. /\ r \in [0 .. n -> Whole \cup {None}] /\ r[0] = file
      /\ \A i \in 1 .. n : r[i] = PassLayer(r[i - 1], order[i], plans, TRUE)
  BY <1>2 DEF Passes, n, Turn
<1>4. \A i \in 0 .. n : r[i] # None
  <2> DEFINE S == {d \in Nat : d <= n => r[n - d] # None}
  <2>1. 0 \in S
    <3>1. n - 0 = n
      BY <1>1
    <3>2. out # None
      BY DEF out
    <3>3. r[n - 0] # None
      BY ONLY <1>2, <3>1, <3>2
    <3> QED BY <3>3
  <2>2. ASSUME NEW d \in Nat, d \in S
        PROVE  d + 1 \in S
    <3> SUFFICES ASSUME d + 1 <= n PROVE r[n - (d + 1)] # None
      OBVIOUS
    <3>1. n - d \in 1 .. n /\ (n - d) - 1 = n - (d + 1) /\ r[n - d] # None
      BY <1>1, <2>2
    <3> QED BY <1>3, <3>1 DEF PassLayer
  <2> HIDE DEF S
  <2>3. \A d \in Nat : d \in S
    BY <2>1, <2>2, Inductively
  <2>4. \A i \in 0 .. n : n - i \in Nat /\ n - i <= n /\ n - (n - i) = i
    BY <1>1
  <2> QED BY <2>3, <2>4 DEF S
<1>5. \A i \in 0 .. n : r[i] \in Whole
  BY <1>3, <1>4
<1>6. ASSUME NEW i \in 1 .. n
      PROVE  PassLayer(r[i], order[i], plans, FALSE) = r[i - 1]
  <2> DEFINE f == order[i]
             a == r[i - 1]
             v == ApplyForward(Slots[f], plans[f], a[f])
  <2>1. i - 1 \in 0 .. n /\ i \in 0 .. n
    BY <1>1
  <2>2. f \in Features /\ plans[f] \in Plans(Slots[f], mode, dense) /\ a \in Whole /\ a # None
        /\ r[i] # None
    BY <1>1, <1>4, <1>5, <2>1
  <2>3. AllInDomain(Slots[f], a[f]) /\ r[i] = [a EXCEPT ![f] = v]
    BY <1>3, <2>1, <2>2, <1>4 DEF PassLayer, TransformLayer
  <2> HIDE DEF a, f, v
  <2>4. Slots[f] \in Seq(Domain) /\ a[f] \in [DOMAIN Slots[f] -> Int] /\ a = [g \in Features |-> a[g]]
    BY <2>2, LockCoreAssumption DEF Whole
  <2>5. ApplyBackward(Slots[f], plans[f], v) = a[f]
    BY <2>2, <2>3, <2>4, RoundTrip DEF v
  <2>6. r[i][f] = v
    BY <2>2, <2>3, <2>4
  <2>7. PassLayer(r[i], f, plans, FALSE) = [r[i] EXCEPT ![f] = a[f]]
    BY <2>2, <2>5, <2>6 DEF PassLayer, TransformLayer
  <2>8. [[a EXCEPT ![f] = v] EXCEPT ![f] = a[f]] = a
    BY <2>2, <2>4
  <2> QED BY <2>3, <2>7, <2>8 DEF a, f
<1>7. n \in 0 .. n /\ out \in Whole
  BY <1>1, <1>2, <1>5
<1>8. PICK s : Passes(s, out, order, plans, FALSE) /\ s[n] = AudioPass(out, order, plans, FALSE)
  BY <1>7, PassExists DEF n
<1>9. s[0] = out /\ \A i \in 1 .. n : s[i] = PassLayer(s[i - 1], order[n + 1 - i], plans, FALSE)
  BY <1>8 DEF Passes, n, Turn
<1>10. s[n] = r[0]
  <2> DEFINE S == {d \in Nat : d <= n => s[d] = r[n - d]}
  <2>1. 0 \in S
    BY <1>1, <1>2, <1>9
  <2>2. ASSUME NEW d \in Nat, d \in S
        PROVE  d + 1 \in S
    <3> SUFFICES ASSUME d + 1 <= n PROVE s[d + 1] = r[n - (d + 1)]
      OBVIOUS
    <3>1. /\ d + 1 \in 1 .. n /\ (d + 1) - 1 = d /\ n + 1 - (d + 1) = n - d
          /\ n - d \in 1 .. n /\ (n - d) - 1 = n - (d + 1) /\ s[d] = r[n - d]
      BY <1>1, <2>2
    <3>2. s[d + 1] = PassLayer(s[d], order[n - d], plans, FALSE)
      BY <1>9, <3>1
    <3> QED BY <1>6, <3>1, <3>2
  <2> HIDE DEF S
  <2>3. n \in S
    BY <1>1, <2>1, <2>2, Inductively
  <2> QED BY <1>1, <2>3 DEF S
<1> QED BY <1>3, <1>8, <1>10 DEF out

-----------------------------------------------------------------------------
(* The invariant of lock and unlock.                                         *)

IsManifest(m) ==
    m = [nonce |-> m.nonce, request |-> m.request, order |-> m.order,
         layers |-> m.layers, kdf |-> m.kdf, carrier |-> m.carrier,
         locked |-> m.locked, selftest |-> m.selftest, mac |-> m.mac]

\* t[i] is the file with the layers above i undone, down to the given layer.
Undoing(t, m, layer) ==
    /\ DOMAIN t = 0 .. Len(m.layers)
    /\ t[Len(m.layers)] = m.locked
    /\ \A i \in layer + 1 .. Len(m.layers) :
          t[i - 1] = UndoLayer(t[i], m.layers[i], m.nonce)

\* The locked file with the layers above the given one undone.
Undone(m, layer, file) == \E t : Undoing(t, m, layer) /\ t[layer] = file

\* A file that the rest of the undoing takes to the carrier.
OnTheWay(m, layer, file) ==
    \E t : Undoing(t, m, 0) /\ t[0] = m.carrier /\ t[layer] = file

AudioUndone(m) == AudioPass(m.locked, m.order, m.nonce, FALSE)

\* Unlocking does give back the carrier.
Undoes(m) ==
    IF kind = "video" THEN Undone(m, 0, m.carrier) ELSE AudioUndone(m) = m.carrier

\* The encoders UnlockRestores is about.
Faithful(mode) == trap = None \/ trap.reads = Reshape \/ mode = "substitute"

\* The locks it is about, those of a video.
Sound(m) == kind = "video" /\ Faithful(m.request.mode)

\* Passed its self-test, or need not.
Trusted(m) == m.selftest = "pass" \/ Sound(m) \/ kind = "audio"

Good(m) == Trusted(m) => Undoes(m)

\* A file the program may hold: see Init for the encoder's quirk.
FileOk(file) ==
    /\ file = [f \in Features |-> file[f]]
    /\ \A f \in Features : file[f] \in [DOMAIN Slots[f] -> Int]
    /\ trap = None \/ file[trap.feature][trap.slot] # trap.wrote

\* A file that undoing the layers made so far takes to the carrier.
Backed(m, file) ==
    \E t : /\ DOMAIN t = 0 .. Len(m.layers)
           /\ t[0] = m.carrier /\ t[Len(m.layers)] = file
           /\ \A i \in 1 .. Len(m.layers) :
                 t[i - 1] = UndoLayer(t[i], m.layers[i], m.nonce)

\* Not a copy, unless one was asked for.
Vouched(m) == m.request.allowNoop \/ m.locked # m.carrier

HasLayers(m) == kind = "video" => Len(m.layers) \in Nat \ {0}

\* What no command changes.
Fixed == trap \in Traps \cup {None} /\ FileOk(carrier)

Shape ==
    /\ kind \in Kinds
    /\ disk = [out |-> disk.out, manifest |-> disk.manifest, restored |-> disk.restored]
    /\ pc # "idle" =>
          /\ IsManifest(manifest) /\ manifest.carrier = carrier
          /\ work = [layer |-> work.layer, current |-> work.current,
                     intended |-> work.intended]

\* The layer being made, and the file it reads.
AtLayer(m, w) ==
    /\ m.order \in Seq(Features)
    /\ w.layer = Len(m.layers) + 1 /\ w.layer \in 1 .. Len(m.order)
    /\ \A i \in 1 .. Len(m.order) :
          m.nonce[m.order[i]] \in Plans(Slots[m.order[i]], m.request.mode, m.request.dense)
    /\ Sound(m) => FileOk(w.current) /\ Backed(m, w.current)

AtLayers ==
    pc \in {"transform", "apply", "verify", "audio"} =>
        /\ job.op = "lock" /\ manifest.selftest = "not-run"
        /\ pc = "audio" <=> kind = "audio"
        /\ \E S : manifest.layers \in Seq(S)
        /\ pc # "audio" => AtLayer(manifest, work)
        /\ pc = "audio" => Planned(manifest.order, manifest.nonce,
                                   manifest.request.mode, manifest.request.dense)
        /\ pc \in {"apply", "verify"} /\ Sound(manifest) =>
              /\ AllInDomain(Slots[Feature], work.current[Feature])
              /\ work.intended = TransformLayer(Feature, manifest.nonce[Feature], TRUE,
                                               work.current[Feature])
        /\ pc = "verify" /\ IsLast =>
              disk.out = Encode(work.current, Feature, work.intended)

AtDigest ==
    pc = "digest" =>
        /\ job.op = "lock" /\ manifest.selftest = "not-run" /\ HasLayers(manifest)
        /\ Sound(manifest) => Backed(manifest, disk.out)
        /\ kind = "audio" => AudioPass(disk.out, manifest.order, manifest.nonce, FALSE)
                             = manifest.carrier

AtUnlock ==
    pc = "unlock" =>
        /\ HasLayers(manifest)
        /\ kind = "video" => work.layer \in 1 .. Len(manifest.layers)
        /\ kind = "audio" => work.current = manifest.locked
        /\ job.op = "lock" =>
              /\ manifest.selftest = "not-run" /\ Vouched(manifest)
              /\ kind = "video" => Undone(manifest, work.layer, work.current)
        /\ job.op # "lock" /\ Trusted(manifest) =>
              IF kind = "video" THEN OnTheWay(manifest, work.layer, work.current)
              ELSE Undoes(manifest)

AtVerdict ==
    pc = "verdict" =>
        /\ HasLayers(manifest) /\ Vouched(manifest)
        /\ IF kind = "video" THEN Undone(manifest, 0, work.current)
           ELSE work.current = AudioUndone(manifest)

AtSave ==
    pc \in {"sign", "save"} =>
        /\ HasLayers(manifest) /\ Vouched(manifest) /\ Good(manifest)
        /\ pc = "save" => Verify(manifest, manifest.mac.key)

AtIntegrity ==
    pc = "integrity" /\ Trusted(manifest) =>
        disk.restored = carrier

Saved(m) ==
    /\ IsManifest(m) /\ m.carrier = carrier /\ HasLayers(m)
    /\ ~edited => Verify(m, m.mac.key) /\ Vouched(m)
    /\ m.mac.body = Body(m) => Good(m)

OnDisk == disk.manifest \notin {None, Torn} => Saved(disk.manifest)

Inv == /\ Shape
       /\ AtLayers /\ AtDigest /\ AtUnlock /\ AtVerdict /\ AtSave /\ AtIntegrity
       /\ OnDisk

-----------------------------------------------------------------------------
(* One layer, made and undone.                                               *)

(* In mode "substitute" a value unlocks on its own.                           *)
LEMMA SlotAlone ==
  ASSUME NEW slots, NEW dense, NEW plan \in Plans(slots, "substitute", dense),
         NEW x, NEW y, NEW i \in DOMAIN slots, x[i] = y[i]
  PROVE  ApplyBackward(slots, plan, x)[i] = ApplyBackward(slots, plan, y)[i]
<1>1. PICK sel : plan.selected = sel /\ plan.source \in SourceChoices(slots, sel, "substitute")
  BY DEF Plans
<1>2. plan.source = [j \in sel |-> j]
  BY <1>1 DEF SourceChoices
<1>3. ASSUME i \in sel
      PROVE  InvertPermutation(plan.source)[i] = i
  BY <1>2, <1>3 DEF InvertPermutation
<1>4. Unpermute(slots, plan, x)[i] = x[i] /\ Unpermute(slots, plan, y)[i] = y[i]
  BY <1>1, <1>3 DEF Unpermute
<1> DEFINE ux == Unpermute(slots, plan, x)
           uy == Unpermute(slots, plan, y)
<1>5. ux[i] = uy[i]
  BY <1>4
<1> HIDE DEF ux, uy
<1>6. Substitute(slots, plan, -1, ux)[i] = Substitute(slots, plan, -1, uy)[i]
  BY <1>5 DEF Substitute
<1>7. /\ ApplyBackward(slots, plan, x) = Substitute(slots, plan, -1, ux)
      /\ ApplyBackward(slots, plan, y) = Substitute(slots, plan, -1, uy)
  BY DEF ApplyBackward, ux, uy
<1> QED BY <1>6, <1>7

\* A layer whose ciphertext kept the layout, and what the lock recorded of it.
LayerMade(mode, dense, file, f, nonce, intended, next, layer) ==
    /\ kind = "video" /\ trap \in Traps \cup {None}
    /\ Faithful(mode)
    /\ FileOk(file) /\ f \in Features /\ AllInDomain(Slots[f], file[f])
    /\ nonce[f] \in Plans(Slots[f], mode, dense)
    /\ intended = TransformLayer(f, nonce[f], TRUE, file[f])
    /\ next = Encode(file, f, intended) /\ SameLayout(next[f], intended)
    /\ layer.feature = f /\ layer.repairs = FindRepairs(next[f], intended, file[f])

LEMMA StoredHeld ==
  ASSUME NEW file, FileOk(file), NEW f \in Features
  PROVE  Stored(f, file[f]) = file[f]
  BY DEF Stored, FileOk

LEMMA CutShorter ==
  ASSUME NEW S, NEW slots \in Seq(S), NEW w \in [DOMAIN slots -> Int], NEW i \in DOMAIN slots
  PROVE  DOMAIN SubSeq(w, 1, Len(w) - 1) # DOMAIN w
<1>1. PICK n \in Nat : n = Len(slots) /\ DOMAIN slots = 1 .. n
  BY LenProperties
<1>2. w \in Seq(Int)
  BY <1>1, SeqDef
<1>3. Len(w) \in Nat /\ DOMAIN w = 1 .. Len(w) /\ w \in [1 .. Len(w) -> Int]
  BY <1>2, LenProperties
<1>4. PICK m \in Nat : m = Len(w)
  BY <1>3
<1>5. i \in 1 .. m
  BY <1>3, <1>4
<1>6. \A j \in 1 .. m - 1 : w[j] \in Int
  BY <1>3, <1>4
<1>7. PICK z : z = SubSeq(w, 1, m - 1)
  OBVIOUS
<1>8. z \in Seq(Int) /\ Len(z) = IF 1 <= m - 1 THEN m - 1 - 1 + 1 ELSE 0
  BY <1>4, <1>6, <1>7, SubSeqProperties
<1>9. Len(z) < m /\ Len(z) \in Nat
  BY <1>4, <1>5, <1>8
<1>10. DOMAIN z = 1 .. Len(z)
  BY <1>8, LenProperties
<1>11. m \in DOMAIN w /\ m \notin DOMAIN z
  BY <1>3, <1>4, <1>5, <1>9, <1>10
<1> QED BY <1>4, <1>7, <1>11

LEMMA NoRepairs ==
  ASSUME NEW S, NEW T, NEW before, NEW x, NEW v \in [S -> T]
  PROVE  ApplyRepairs(v, FindRepairs(x, x, before)) = v
  BY DEF ApplyRepairs, FindRepairs

LEMMA OneRepair ==
  ASSUME NEW S, NEW T, NEW before \in [S -> T], NEW x, NEW y, NEW s \in S,
         \A i \in S : y[i] # x[i] <=> i = s,
         NEW v, DOMAIN v = S, \A i \in S : i # s => v[i] = before[i]
  PROVE  ApplyRepairs(v, FindRepairs(y, x, before)) = before
<1> DEFINE rep == FindRepairs(y, x, before)
<1>1. DOMAIN rep = {s} /\ rep[s] = before[s]
  <2>1. DOMAIN before = S
    OBVIOUS
  <2>2. {j \in DOMAIN before : y[j] # x[j]} = {s}
    BY <2>1
  <2> QED BY <2>2 DEF FindRepairs
<1> HIDE DEF rep
<1>2. ApplyRepairs(v, rep) = [i \in S |-> before[i]]
  BY <1>1 DEF ApplyRepairs
<1> QED BY <1>2 DEF rep

(* Undoing a layer just applied gives the file from before it, if the encoder  *)
(* stored it, only ever drops slots, or the layer was one of mode             *)
(* "substitute".                                                             *)
LEMMA LayerUndone ==
  ASSUME NEW mode, NEW dense, NEW file, NEW f, NEW nonce, NEW intended, NEW next, NEW layer,
         LayerMade(mode, dense, file, f, nonce, intended, next, layer)
  PROVE  UndoLayer(next, layer, nonce) = file /\ FileOk(next)
<1>0. /\ kind = "video" /\ trap \in Traps \cup {None}
      /\ trap = None \/ trap.reads = Reshape \/ mode = "substitute"
      /\ FileOk(file) /\ f \in Features /\ AllInDomain(Slots[f], file[f])
      /\ nonce[f] \in Plans(Slots[f], mode, dense)
      /\ intended = TransformLayer(f, nonce[f], TRUE, file[f])
      /\ next = Encode(file, f, intended) /\ SameLayout(next[f], intended)
      /\ layer.feature = f /\ layer.repairs = FindRepairs(next[f], intended, file[f])
  BY DEF LayerMade, Faithful
<1> DEFINE slots == Slots[f]
           before == file[f]
           v == ApplyBackward(slots, nonce[f], next[f])
<1>1. /\ slots \in Seq(Domain) /\ before \in [DOMAIN slots -> Int]
      /\ file = [g \in Features |-> file[g]] /\ DOMAIN file = Features
  BY <1>0, LockCoreAssumption DEF FileOk
<1>2. intended \in [DOMAIN slots -> Int]
  BY <1>0, <1>1, ForwardStaysInDomain DEF TransformLayer
<1>3. ApplyBackward(slots, nonce[f], intended) = before
  BY <1>0, <1>1, RoundTrip DEF TransformLayer
<1>4. next = [file EXCEPT ![f] = next[f]] /\ next[f] = Stored(f, intended)
  BY <1>0, <1>1 DEF Encode
<1>5. ASSUME ApplyRepairs(v, layer.repairs) = before
      PROVE  UndoLayer(next, layer, nonce) = file
  <2>1. UndoLayer(next, layer, nonce) = [next EXCEPT ![f] = Stored(f, before)]
    BY <1>0, <1>5 DEF UndoLayer, TransformLayer, Encode
  <2>2. Stored(f, before) = before
    BY <1>0, StoredHeld
  <2>3. [[file EXCEPT ![f] = next[f]] EXCEPT ![f] = before] = file
    BY <1>1
  <2> QED BY <1>4, <2>1, <2>2, <2>3
<1>6. ASSUME next[f] \in [DOMAIN slots -> Int],
             trap = None \/ trap.feature # f \/ next[f][trap.slot] # trap.wrote
      PROVE  FileOk(next)
  <2>1. /\ next = [g \in Features |-> next[g]]
        /\ \A g \in Features : g # f => next[g] = file[g]
    BY <1>1, <1>4
  <2>2. \A g \in Features : next[g] \in [DOMAIN Slots[g] -> Int]
    BY <1>0, <1>6, <2>1 DEF FileOk
  <2>3. trap = None \/ next[trap.feature][trap.slot] # trap.wrote
    <3>1. trap # None => trap.feature \in Features
      BY <1>0, LockCoreAssumption
    <3> QED BY <1>0, <1>6, <2>1, <3>1 DEF FileOk
  <2> QED BY <2>1, <2>2, <2>3 DEF FileOk
<1> HIDE DEF slots, before, v
<1>7. CASE next[f] = intended /\ (trap = None \/ trap.feature # f \/ intended[trap.slot] # trap.wrote)
  <2>1. v = before
    BY <1>3, <1>7 DEF v
  <2>2. layer.repairs = FindRepairs(intended, intended, before)
    BY <1>0, <1>7 DEF before
  <2>3. before \in [DOMAIN slots -> Int]
    BY <1>1
  <2>4. ApplyRepairs(before, FindRepairs(intended, intended, before)) = before
    BY <2>3, NoRepairs
  <2> QED BY <1>2, <1>5, <1>6, <1>7, <2>1, <2>2, <2>4
<1>8. CASE ~(trap = None \/ trap.feature # f \/ intended[trap.slot] # trap.wrote)
  <2>0. PICK s, r : s = trap.slot /\ r = trap.reads
    OBVIOUS
  <2>1. s \in DOMAIN slots /\ r \in Int \cup {Reshape} /\ r # intended[s]
    BY <1>0, <1>8, <2>0, LockCoreAssumption DEF slots
  <2>2. r # Reshape
    <3>1. SUFFICES ASSUME r = Reshape PROVE FALSE
      OBVIOUS
    <3>2. next[f] = SubSeq(intended, 1, Len(intended) - 1)
      BY <1>0, <1>4, <1>8, <2>0, <3>1 DEF Stored
    <3>3. DOMAIN SubSeq(intended, 1, Len(intended) - 1) # DOMAIN intended
      BY <1>1, <1>2, <2>1, CutShorter
    <3> QED BY <1>0, <3>2, <3>3 DEF SameLayout
  <2>3. next[f] = [intended EXCEPT ![s] = r] /\ r \in Int
    BY <1>0, <1>4, <1>8, <2>0, <2>1, <2>2 DEF Stored
  <2>4. next[f] \in [DOMAIN slots -> Int] /\ next[f][s] = r
        /\ \A i \in DOMAIN slots : i # s => next[f][i] = intended[i]
    <3>1. PICK z : z = next[f]
      OBVIOUS
    <3>2. z = [intended EXCEPT ![s] = r] /\ r \in Int
      BY <2>3, <3>1
    <3>3. z \in [DOMAIN slots -> Int] /\ z[s] = r
          /\ \A i \in DOMAIN slots : i # s => z[i] = intended[i]
      BY ONLY <1>2, <2>1, <3>2
    <3> QED BY <3>1, <3>3
  <2>5. nonce[f] \in Plans(slots, "substitute", dense)
    BY <1>0, <1>8, <2>0, <2>2 DEF slots
  <2>6. ASSUME NEW i \in DOMAIN slots, i # s
        PROVE  v[i] = before[i]
    <3>1. next[f][i] = intended[i]
      BY <2>4, <2>6
    <3>2. PICK p, z : p = nonce[f] /\ z = next[f]
      OBVIOUS
    <3>3. p \in Plans(slots, "substitute", dense) /\ z[i] = intended[i] /\ i \in DOMAIN slots
      BY <2>5, <2>6, <3>1, <3>2
    <3>4. ApplyBackward(slots, p, z)[i] = ApplyBackward(slots, p, intended)[i]
      BY ONLY <3>3, SlotAlone
    <3> QED BY <1>3, <3>2, <3>4 DEF v
  <2>7. DOMAIN v = DOMAIN slots /\ v = [i \in DOMAIN slots |-> v[i]]
    BY DEF v, ApplyBackward, Substitute
  <2>8. layer.repairs = FindRepairs(next[f], intended, before)
    BY <1>0 DEF before
  <2>9. before \in [DOMAIN slots -> Int]
    BY <1>1
  <2>10. ApplyRepairs(v, FindRepairs(next[f], intended, before)) = before
    <3>1. PICK b, w, z, S : b = before /\ w = v /\ z = next[f] /\ S = DOMAIN slots
      OBVIOUS
    <3>2. /\ b \in [S -> Int] /\ s \in S /\ DOMAIN w = S
          /\ \A i \in S : z[i] # intended[i] <=> i = s
          /\ \A i \in S : i # s => w[i] = b[i]
      BY <2>1, <2>4, <2>6, <2>7, <2>9, <3>1
    <3>3. ApplyRepairs(w, FindRepairs(z, intended, b)) = b
      BY ONLY <3>2, OneRepair
    <3> QED BY <3>1, <3>3
  <2>11. r # trap.wrote
    BY <1>0, <1>8, <2>0, LockCoreAssumption
  <2> QED BY <1>5, <1>6, <2>0, <2>4, <2>8, <2>10, <2>11
<1>9. trap = None \/ trap.feature # f \/ intended[trap.slot] # trap.wrote => next[f] = intended
  BY <1>0, <1>4 DEF Stored
<1> QED BY <1>7, <1>8, <1>9

-----------------------------------------------------------------------------
(* Undoing layers.                                                          *)

LEMMA BackedStart ==
  ASSUME NEW m, m.layers = <<>>
  PROVE  Backed(m, m.carrier)
<1>1. PICK t : t = [i \in {0} |-> m.carrier]
  OBVIOUS
<1>2. Len(m.layers) = 0
  OBVIOUS
<1>3. DOMAIN t = 0 .. 0 /\ t[0] = m.carrier
  BY <1>1
<1> QED BY <1>2, <1>3 DEF Backed

LEMMA BackedStep ==
  ASSUME NEW m, NEW S, m.layers \in Seq(S), NEW file, Backed(m, file),
         NEW layer, NEW next, UndoLayer(next, layer, m.nonce) = file,
         NEW n, n.carrier = m.carrier, n.nonce = m.nonce, n.layers = Append(m.layers, layer)
  PROVE  Backed(n, next)
<1>1. PICK k \in Nat : k = Len(m.layers)
  BY LenProperties
<1>2. /\ Len(n.layers) = k + 1 /\ n.layers[k + 1] = layer
      /\ \A i \in 1 .. k : n.layers[i] = m.layers[i]
  BY <1>1
<1>3. PICK t : /\ DOMAIN t = 0 .. k /\ t[0] = m.carrier /\ t[k] = file
               /\ \A i \in 1 .. k : t[i - 1] = UndoLayer(t[i], m.layers[i], m.nonce)
  BY <1>1 DEF Backed
<1>4. PICK u : u = [i \in 0 .. k + 1 |-> IF i = k + 1 THEN next ELSE t[i]]
  OBVIOUS
<1>5. DOMAIN u = 0 .. k + 1 /\ u[k + 1] = next /\ \A i \in 0 .. k : u[i] = t[i]
  BY <1>1, <1>4
<1>6. ASSUME NEW i \in 1 .. k + 1
      PROVE  u[i - 1] = UndoLayer(u[i], n.layers[i], n.nonce)
  <2>1. CASE i = k + 1
    <3>1. u[i] = next /\ n.layers[i] = layer /\ u[i - 1] = t[k]
      BY <1>1, <1>2, <1>5, <2>1
    <3> QED BY <1>3, <3>1
  <2>2. CASE i # k + 1
    <3>1. i \in 1 .. k /\ i \in 0 .. k /\ i - 1 \in 0 .. k
      BY <1>1, <2>2
    <3>2. u[i] = t[i] /\ u[i - 1] = t[i - 1] /\ n.layers[i] = m.layers[i]
      BY <1>2, <1>5, <3>1
    <3> QED BY <1>3, <3>1, <3>2
  <2> QED BY <2>1, <2>2
<1>7. u[0] = n.carrier /\ u[Len(n.layers)] = next /\ DOMAIN u = 0 .. Len(n.layers)
  BY <1>1, <1>2, <1>3, <1>5
<1> QED BY <1>2, <1>6, <1>7 DEF Backed

LEMMA BackedUndone ==
  ASSUME NEW m, NEW n, Backed(m, n.locked), n.carrier = m.carrier, n.layers = m.layers,
         n.nonce = m.nonce
  PROVE  Undone(n, 0, n.carrier)
  BY DEF Backed, Undone, Undoing

LEMMA UndoneStart ==
  ASSUME NEW m, Len(m.layers) \in Nat
  PROVE  Undone(m, Len(m.layers), m.locked)
<1> DEFINE t == [i \in 0 .. Len(m.layers) |-> m.locked]
<1>1. Undoing(t, m, Len(m.layers)) /\ t[Len(m.layers)] = m.locked
  BY DEF Undoing
<1> QED BY <1>1 DEF Undone

LEMMA UndoneStep ==
  ASSUME NEW m, Len(m.layers) \in Nat, NEW layer \in 1 .. Len(m.layers), NEW file,
         Undone(m, layer, file)
  PROVE  Undone(m, layer - 1, UndoLayer(file, m.layers[layer], m.nonce))
<1> DEFINE n == Len(m.layers)
           next == UndoLayer(file, m.layers[layer], m.nonce)
<1>1. PICK t : Undoing(t, m, layer) /\ t[layer] = file
  BY DEF Undone
<1> DEFINE u == [i \in 0 .. n |-> IF i = layer - 1 THEN next ELSE t[i]]
<1>2. /\ DOMAIN u = 0 .. n /\ u[layer - 1] = next
      /\ \A i \in 0 .. n : i # layer - 1 => u[i] = t[i]
  OBVIOUS
<1> HIDE DEF u, next
<1>3. u[n] = m.locked /\ u[layer] = file
  BY <1>1, <1>2 DEF Undoing
<1>4. ASSUME NEW i \in (layer - 1) + 1 .. n
      PROVE  u[i - 1] = UndoLayer(u[i], m.layers[i], m.nonce)
  <2>1. CASE i = layer
    BY <1>2, <1>3, <2>1 DEF next
  <2>2. CASE i # layer
    <3>1. u[i] = t[i] /\ u[i - 1] = t[i - 1]
      BY <1>2, <2>2
    <3>2. t[i - 1] = UndoLayer(t[i], m.layers[i], m.nonce)
      BY <1>1, <2>2 DEF Undoing
    <3> QED BY <3>1, <3>2
  <2> QED BY <2>1, <2>2
<1>5. Undoing(u, m, layer - 1) /\ u[layer - 1] = next
  BY <1>2, <1>3, <1>4 DEF Undoing
<1> QED BY <1>5 DEF Undone, next

LEMMA WayStart ==
  ASSUME NEW m, Len(m.layers) \in Nat, Undone(m, 0, m.carrier)
  PROVE  OnTheWay(m, Len(m.layers), m.locked)
  BY DEF Undone, OnTheWay, Undoing

LEMMA WayStep ==
  ASSUME NEW m, Len(m.layers) \in Nat, NEW layer \in 1 .. Len(m.layers), NEW file,
         OnTheWay(m, layer, file)
  PROVE  OnTheWay(m, layer - 1, UndoLayer(file, m.layers[layer], m.nonce))
<1>1. PICK t : Undoing(t, m, 0) /\ t[0] = m.carrier /\ t[layer] = file
  BY DEF OnTheWay
<1>2. t[layer - 1] = UndoLayer(file, m.layers[layer], m.nonce)
  BY <1>1 DEF Undoing
<1> QED BY <1>1, <1>2 DEF OnTheWay

LEMMA WayEnd ==
  ASSUME NEW m, NEW file, OnTheWay(m, 0, file)
  PROVE  file = m.carrier
  BY DEF OnTheWay

(* Only these fields of a manifest matter to undoing.                         *)
LEMMA SameFields ==
  ASSUME NEW m, NEW n, n.locked = m.locked, n.layers = m.layers, n.nonce = m.nonce,
         n.carrier = m.carrier, n.order = m.order, n.request = m.request
  PROVE  /\ \A layer, file : Undone(m, layer, file) => Undone(n, layer, file)
         /\ Undoes(m) => Undoes(n)
         /\ Vouched(m) => Vouched(n)
         /\ HasLayers(m) => HasLayers(n)
         /\ Sound(n) => Sound(m)
         /\ n.selftest = m.selftest /\ Good(m) => Good(n)
<1>1. \A t, layer : Undoing(t, m, layer) => Undoing(t, n, layer)
  BY DEF Undoing
<1>2. \A layer, file : Undone(m, layer, file) => Undone(n, layer, file)
  BY <1>1 DEF Undone
<1>3. Undoes(m) => Undoes(n)
  BY <1>2 DEF Undoes, AudioUndone
<1> QED BY <1>2, <1>3 DEF Vouched, HasLayers, Sound, Trusted, Good

(* The encoder does not change during a run.                                  *)
LEMMA SameEncoder ==
  ASSUME UNCHANGED <<kind, trap>>
  PROVE  /\ \A m, layer, file : Undone(m, layer, file)' = Undone(m, layer, file)
         /\ \A m, layer, file : OnTheWay(m, layer, file)' = OnTheWay(m, layer, file)
         /\ \A m : Undoes(m)' = Undoes(m)
         /\ \A m : Good(m)' = Good(m)
         /\ \A m : HasLayers(m)' = HasLayers(m)
         /\ \A m : Sound(m)' = Sound(m)
         /\ \A m : Trusted(m)' = Trusted(m)
         /\ \A file, f, vals : Encode(file, f, vals)' = Encode(file, f, vals)
         /\ \A m, file : Backed(m, file)' = Backed(m, file)
         /\ \A file : FileOk(file)' = FileOk(file)
         /\ \A m, w : AtLayer(m, w)' = AtLayer(m, w)
<1>1. \A file, layer, plans : UndoLayer(file, layer, plans)' = UndoLayer(file, layer, plans)
  BY DEF UndoLayer, Encode, Stored
<1>2. \A t, m, layer : Undoing(t, m, layer)' = Undoing(t, m, layer)
  BY <1>1 DEF Undoing
<1>3. \A m, layer, file : Undone(m, layer, file)' = Undone(m, layer, file)
  BY <1>2 DEF Undone
<1>4. \A m, layer, file : OnTheWay(m, layer, file)' = OnTheWay(m, layer, file)
  BY <1>2 DEF OnTheWay
<1>5. \A m : Undoes(m)' = Undoes(m)
  BY <1>3 DEF Undoes
<1>6. \A m : Sound(m)' = Sound(m)
  BY DEF Sound, Faithful
<1>7. \A m, file : Backed(m, file)' = Backed(m, file)
  BY <1>1 DEF Backed
<1>8. \A file : FileOk(file)' = FileOk(file)
  BY DEF FileOk
<1>9. \A m, w : AtLayer(m, w)' = AtLayer(m, w)
  BY <1>6, <1>7, <1>8 DEF AtLayer
<1> QED BY <1>3, <1>4, <1>5, <1>6, <1>7, <1>8, <1>9 DEF Good, Trusted, HasLayers, Encode, Stored

-----------------------------------------------------------------------------
(* The tag.                                                                 *)

LEMMA SealFacts ==
  ASSUME NEW m, IsManifest(m), NEW key, NEW s, s = Seal(m, key)
  PROVE  /\ IsManifest(s) /\ Verify(s, s.mac.key)
         /\ s.locked = m.locked /\ s.layers = m.layers /\ s.nonce = m.nonce
         /\ s.carrier = m.carrier /\ s.order = m.order /\ s.request = m.request
         /\ s.selftest = m.selftest
<1> DEFINE k == [nonce |-> m.nonce, request |-> m.request, order |-> m.order,
                 layers |-> m.layers, kdf |-> "key-file-sha256", carrier |-> m.carrier,
                 locked |-> m.locked, selftest |-> m.selftest,
                 mac |-> [key |-> key, body |-> Body(m)]]
           b == [nonce |-> m.nonce, request |-> m.request, order |-> m.order,
                 layers |-> m.layers, kdf |-> "key-file-sha256", carrier |-> m.carrier,
                 locked |-> m.locked, selftest |-> m.selftest, mac |-> None]
           g == [nonce |-> m.nonce, request |-> m.request, order |-> m.order,
                 layers |-> m.layers, kdf |-> "key-file-sha256", carrier |-> m.carrier,
                 locked |-> m.locked, selftest |-> m.selftest,
                 mac |-> [key |-> key, body |-> b]]
<1>1. [Sign(m, key) EXCEPT !.kdf = "key-file-sha256"] = k
  <2> DEFINE tag == [key |-> key, body |-> Body(m)]
  <2>1. Sign(m, key) = [m EXCEPT !.mac = tag]
    BY DEF Sign
  <2> HIDE DEF tag
  <2>2. [m EXCEPT !.mac = tag] =
           [nonce |-> m.nonce, request |-> m.request, order |-> m.order,
            layers |-> m.layers, kdf |-> m.kdf, carrier |-> m.carrier,
            locked |-> m.locked, selftest |-> m.selftest, mac |-> tag]
    BY DEF IsManifest
  <2>3. [[nonce |-> m.nonce, request |-> m.request, order |-> m.order,
          layers |-> m.layers, kdf |-> m.kdf, carrier |-> m.carrier,
          locked |-> m.locked, selftest |-> m.selftest, mac |-> tag]
            EXCEPT !.kdf = "key-file-sha256"]
        = [nonce |-> m.nonce, request |-> m.request, order |-> m.order,
           layers |-> m.layers, kdf |-> "key-file-sha256", carrier |-> m.carrier,
           locked |-> m.locked, selftest |-> m.selftest, mac |-> tag]
    OBVIOUS
  <2>4. k = [nonce |-> m.nonce, request |-> m.request, order |-> m.order,
             layers |-> m.layers, kdf |-> "key-file-sha256", carrier |-> m.carrier,
             locked |-> m.locked, selftest |-> m.selftest, mac |-> tag]
    BY DEF tag
  <2> HIDE DEF k
  <2> QED BY <2>1, <2>2, <2>3, <2>4
<1>2. Body(k) = b
  BY DEF Body
<1>3. s = g
  BY <1>1, <1>2 DEF Seal, Sign
<1>4. Body(g) = b
  BY DEF Body
<1>5. Verify(s, s.mac.key)
  <2>1. g.mac = [key |-> key, body |-> b] /\ g.mac.key = key
    OBVIOUS
  <2> QED BY <1>3, <1>4, <2>1 DEF Verify
<1>6. IsManifest(g) /\ g.locked = m.locked /\ g.layers = m.layers /\ g.nonce = m.nonce
      /\ g.carrier = m.carrier /\ g.order = m.order /\ g.request = m.request
      /\ g.selftest = m.selftest
  BY DEF IsManifest
<1> QED BY <1>3, <1>5, <1>6

LEMMA VerifyFacts ==
  ASSUME NEW m, NEW key, Verify(m, key)
  PROVE  m.mac.key = key /\ m.mac.body = Body(m)
  BY DEF Verify

-----------------------------------------------------------------------------
(* The invariant.                                                           *)

LEMMA InitInv == Init => Inv
  BY DEF Init, Inv, Shape, AtLayers, AtDigest, AtUnlock, AtVerdict, AtSave, AtIntegrity, OnDisk

(* The saved manifest, when a step leaves it alone.                           *)
LEMMA OnDiskStays ==
  ASSUME Inv, UNCHANGED <<kind, carrier, trap, edited>>,
         disk'.manifest \in {disk.manifest, None, Torn}
  PROVE  OnDisk'
<1>1. CASE disk'.manifest \in {None, Torn}
  BY <1>1 DEF OnDisk
<1>2. CASE disk'.manifest = disk.manifest
  <2>1. \A m : Saved(m)' = Saved(m)
    BY SameEncoder DEF Saved
  <2> QED BY <1>2, <2>1 DEF OnDisk, Inv
<1> QED BY <1>1, <1>2

(* A command that ends, or is killed.                                         *)
LEMMA EndInv ==
  ASSUME Inv, pc' = "idle", UNCHANGED <<kind, carrier, trap, edited>>,
         disk'.manifest = disk.manifest,
         disk' = [out |-> disk'.out, manifest |-> disk'.manifest, restored |-> disk'.restored]
  PROVE  Inv'
<1>1. Shape'
  BY DEF Inv, Shape
<1> QED
  BY <1>1, OnDiskStays DEF Inv, AtLayers, AtDigest, AtUnlock, AtVerdict, AtSave, AtIntegrity

LEMMA LockStartInv ==
  ASSUME Fixed, Inv, NEW key \in Keys, NEW req \in Requests, NEW order \in Orders,
         LockStart(key, req, order)
  PROVE  Inv'
<1>1. PICK plans \in PlanFamilies(req, order) : manifest' = NewManifest(req, order, plans)
  BY DEF LockStart
<1>2. IsManifest(manifest') /\ manifest'.carrier = carrier /\ manifest'.layers = <<>>
      /\ manifest'.selftest = "not-run"
  BY <1>1 DEF NewManifest, IsManifest
<1>3. /\ job'.op = "lock" /\ work' = [layer |-> 1, current |-> carrier, intended |-> None]
      /\ pc' = IF kind = "audio" THEN "audio" ELSE "transform"
      /\ UNCHANGED <<kind, carrier, trap, disk, edited>>
  BY DEF LockStart, Idle
<1>4. Shape'
  BY <1>2, <1>3 DEF Inv, Shape
<1>5. PICK m, w : m = manifest' /\ w = work'
  OBVIOUS
<1>6. AtLayer(m, w)
  <2>1. /\ m.layers = <<>> /\ m.carrier = carrier /\ m.order = order /\ m.request = req
        /\ m.nonce = plans
    BY <1>1, <1>5 DEF NewManifest
  <2>2. order \in Seq(Features) /\ Len(order) \in Nat \ {0} /\ DOMAIN order = 1 .. Len(order)
    <3>1. order \in Seq(Features) /\ order # <<>>
      BY LockCoreAssumption
    <3> QED BY <3>1, EmptySeq, LenProperties
  <2>3. \A i \in 1 .. Len(order) : plans[order[i]] \in Plans(Slots[order[i]], req.mode, req.dense)
    BY <2>2 DEF PlanFamilies
  <2>4. w.layer = 1 /\ w.current = carrier
    BY <1>3, <1>5
  <2>5. FileOk(carrier) /\ Backed(m, carrier)
    BY <2>1, BackedStart DEF Fixed
  <2>6. Len(m.layers) = 0
    BY <2>1
  <2> QED BY <2>1, <2>2, <2>3, <2>4, <2>5, <2>6 DEF AtLayer
<1>7. AtLayers'
  <2>1. m.layers \in Seq({}) /\ m.selftest = "not-run"
    BY <1>2, <1>5, EmptySeq
  <2>2. AtLayer(m, w)'
    BY <1>3, <1>6, SameEncoder
  <2>3. Planned(m.order, m.nonce, m.request.mode, m.request.dense)
    BY <1>6 DEF AtLayer, Planned
  <2> QED BY <1>3, <1>5, <2>1, <2>2, <2>3 DEF AtLayers
<1> QED
  BY <1>3, <1>4, <1>7, OnDiskStays DEF Inv, AtDigest, AtUnlock, AtVerdict, AtSave, AtIntegrity

LEMMA TransformInv ==
  ASSUME Fixed, Inv, LockTransform
  PROVE  Inv'
<1>1. CASE pc' = "idle"
  BY <1>1, EndInv DEF LockTransform, Inv, Shape
<1>2. CASE pc' # "idle"
  <2>1. /\ pc = "transform" /\ pc' = "apply"
        /\ UNCHANGED <<kind, carrier, trap, disk, edited, job, manifest>>
        /\ work' = [work EXCEPT !.intended =
                      TransformLayer(Feature, manifest.nonce[Feature], TRUE,
                                     work.current[Feature])]
    BY <1>2 DEF LockTransform, Done
  <2>2. Shape'
    <3>1. work' = [layer |-> work.layer, current |-> work.current,
                   intended |-> work'.intended]
      BY <2>1 DEF Inv, Shape
    <3>2. work' = [layer |-> work'.layer, current |-> work'.current,
                   intended |-> work'.intended]
      BY <3>1
    <3> QED BY <2>1, <3>2 DEF Inv, Shape, IsManifest
  <2>3. PICK m, w, u, f : m = manifest /\ w = work /\ u = work' /\ f = m.order[w.layer]
    OBVIOUS
  <2>4. /\ u.layer = w.layer /\ u.current = w.current
        /\ u.intended = TransformLayer(f, m.nonce[f], TRUE, w.current[f])
        /\ AllInDomain(Slots[f], w.current[f])
    BY <1>2, <2>1, <2>3 DEF Inv, Shape, LockTransform, Done, Feature
  <2>5. AtLayer(m, w) /\ (\E S : m.layers \in Seq(S)) /\ kind # "audio"
        /\ job.op = "lock" /\ m.selftest = "not-run"
    BY <2>1, <2>3 DEF Inv, AtLayers
  <2>6. AtLayer(m, u)
    BY <2>4, <2>5 DEF AtLayer
  <2>7. AtLayer(m, u)'
    BY <2>1, <2>6, SameEncoder
  <2>8. u.intended = TransformLayer(f, m.nonce[f], TRUE, u.current[f])
        /\ AllInDomain(Slots[f], u.current[f])
    BY <2>4
  <2>9. AtLayers'
    <3>1. Feature' = f
      BY <2>1, <2>3, <2>4 DEF Feature
    <3> QED BY <2>1, <2>3, <2>5, <2>7, <2>8, <3>1 DEF AtLayers
  <2> QED
    BY <2>1, <2>2, <2>9, OnDiskStays DEF Inv, AtDigest, AtUnlock, AtVerdict, AtSave, AtIntegrity
<1> QED BY <1>1, <1>2

LEMMA ApplyInv ==
  ASSUME Inv, LockApply
  PROVE  Inv'
<1>1. /\ pc = "apply" /\ UNCHANGED <<kind, carrier, trap, edited>>
      /\ disk' = disk \/ \E x : disk' = [disk EXCEPT !.out = x]
      /\ pc' = "idle" \/ (pc' = "verify" /\ UNCHANGED <<job, work, manifest>>)
  BY DEF LockApply, Done
<1>2. /\ disk'.manifest = disk.manifest
      /\ disk' = [out |-> disk'.out, manifest |-> disk'.manifest, restored |-> disk'.restored]
  BY <1>1 DEF Inv, Shape
<1>3. CASE pc' = "idle"
  BY <1>1, <1>2, <1>3, EndInv
<1>4. CASE pc' = "verify" /\ UNCHANGED <<job, work, manifest>>
  <2>1. PICK m, w, f, e : /\ m = manifest /\ w = work /\ f = m.order[w.layer]
                          /\ e = Encode(w.current, f, w.intended)
    OBVIOUS
  <2>2. /\ AtLayer(m, w) /\ (\E S : m.layers \in Seq(S)) /\ kind # "audio"
        /\ job.op = "lock" /\ m.selftest = "not-run"
        /\ Sound(m) => /\ AllInDomain(Slots[f], w.current[f])
                       /\ w.intended = TransformLayer(f, m.nonce[f], TRUE, w.current[f])
    BY <1>1, <2>1 DEF Inv, AtLayers, Feature
  <2>3. AtLayer(m, w)' /\ Encode(w.current, f, w.intended)' = e /\ Sound(m)' = Sound(m)
    <3>1. AtLayer(m, w)' = AtLayer(m, w) /\ Sound(m)' = Sound(m)
      BY <1>1, SameEncoder
    <3>2. Encode(w.current, f, w.intended)' = Encode(w.current, f, w.intended)
      BY <1>1, SameEncoder
    <3> QED BY <2>1, <2>2, <3>1, <3>2
  <2>4. IsLast => disk'.out = e
    <3>1. IsLast => disk' = [disk EXCEPT !.out = e]
      BY <1>1, <1>4, <2>1 DEF LockApply, Done, WritesOutput, Feature
    <3> QED BY <3>1 DEF Inv, Shape
  <2>5. Feature' = f /\ IsLast' = IsLast
    BY <1>4, <2>1 DEF Feature, IsLast
  <2>6. AtLayers'
    <3>1. m = manifest' /\ w = work' /\ pc' = "verify" /\ job' = job
      BY <1>4, <2>1
    <3>2. Encode(work.current, Feature, work.intended)' = e
      BY <2>3, <2>5, <3>1
    <3>3. \E S : m.layers \in Seq(S)
      BY <2>2
    <3> QED BY <1>1, <2>2, <2>3, <2>4, <2>5, <3>1, <3>2, <3>3 DEF AtLayers
  <2>7. Shape' /\ AtLayers'
    BY <1>1, <1>2, <1>4, <2>6 DEF Inv, Shape, IsManifest
  <2> QED
    BY <1>1, <1>2, <1>4, <2>7, OnDiskStays
    DEF Inv, AtDigest, AtUnlock, AtVerdict, AtSave, AtIntegrity
<1> QED BY <1>1, <1>3, <1>4

(* A layer that kept the layout is undone by what was recorded of it.         *)
LEMMA VerifyUndone ==
  ASSUME Fixed, Inv, pc = "verify", Sound(manifest),
         NEW next, next = Encode(work.current, Feature, work.intended),
         SameLayout(next[Feature], work.intended),
         NEW x, x.feature = Feature,
         x.repairs = FindRepairs(next[Feature], work.intended, work.current[Feature])
  PROVE  UndoLayer(next, x, manifest.nonce) = work.current /\ FileOk(next)
<1>1. PICK m, f, file, intended, nonce, mode, dense :
          /\ m = manifest /\ f = Feature /\ file = work.current /\ intended = work.intended
          /\ nonce = m.nonce /\ mode = m.request.mode /\ dense = m.request.dense
  OBVIOUS
<1>2. AtLayer(m, work) /\ FileOk(file) /\ AllInDomain(Slots[f], file[f])
      /\ intended = TransformLayer(f, nonce[f], TRUE, file[f])
  BY <1>1 DEF Inv, AtLayers, AtLayer
<1>3. f \in Features /\ nonce[f] \in Plans(Slots[f], mode, dense)
  <2>1. /\ m.order \in Seq(Features) /\ work.layer \in 1 .. Len(m.order)
        /\ \A i \in 1 .. Len(m.order) :
              nonce[m.order[i]] \in Plans(Slots[m.order[i]], mode, dense)
    BY <1>1, <1>2 DEF AtLayer
  <2> QED BY <1>1, <2>1, ElementOfSeq DEF Feature
<1>4. kind = "video" /\ Faithful(mode) /\ trap \in Traps \cup {None}
  BY <1>1 DEF Sound, Fixed
<1>5. LayerMade(mode, dense, file, f, nonce, intended, next, x)
  BY <1>1, <1>2, <1>3, <1>4 DEF LayerMade
<1>6. UndoLayer(next, x, nonce) = file /\ FileOk(next)
  BY ONLY <1>5, LayerUndone
<1> QED BY <1>1, <1>6

LEMMA VerifyInv ==
  ASSUME Fixed, Inv, LockVerify
  PROVE  Inv'
<1>1. CASE pc' = "idle"
  BY <1>1, EndInv DEF LockVerify, Inv, Shape
<1>2. CASE pc' # "idle"
  <2>0. PICK m, w, f, next, x, n :
            /\ m = manifest /\ w = work /\ f = m.order[w.layer]
            /\ next = Encode(w.current, f, w.intended)
            /\ x = [feature |-> f,
                    repairs |-> FindRepairs(next[f], w.intended, w.current[f])]
            /\ n = [m EXCEPT !.layers = Append(@, x)]
    OBVIOUS
  <2>1. /\ pc = "verify" /\ pc' = (IF IsLast THEN "digest" ELSE "transform")
        /\ UNCHANGED <<kind, carrier, trap, disk, edited, job>>
        /\ SameLayout(next[f], w.intended) /\ manifest' = n
        /\ work' = [layer |-> w.layer + 1, current |-> next, intended |-> None]
    BY <1>2, <2>0 DEF LockVerify, Done, Feature
  <2>2. /\ IsManifest(m) /\ m.carrier = carrier /\ m.selftest = "not-run" /\ job.op = "lock"
        /\ kind # "audio" /\ AtLayer(m, w)
        /\ Sound(m) => /\ AllInDomain(Slots[f], w.current[f])
                       /\ w.intended = TransformLayer(f, m.nonce[f], TRUE, w.current[f])
        /\ IsLast => disk.out = next
    BY <2>0, <2>1 DEF Inv, Shape, AtLayers, Feature
  <2>3. PICK S : m.layers \in Seq(S)
    BY <2>0, <2>1 DEF Inv, AtLayers
  <2>4. /\ Append(m.layers, x) \in Seq(S \cup {x})
        /\ Len(Append(m.layers, x)) = Len(m.layers) + 1 /\ Len(m.layers) \in Nat
    <3>1. m.layers \in Seq(S \cup {x})
      BY <2>3
    <3> QED BY <2>3, <3>1
  <2>5. /\ IsManifest(n) /\ n.carrier = carrier /\ n.selftest = "not-run"
        /\ n.layers = Append(m.layers, x) /\ n.order = m.order /\ n.nonce = m.nonce
        /\ n.request = m.request
    BY <2>0, <2>2 DEF IsManifest
  <2>6. Sound(n) <=> Sound(m)
    BY <2>5 DEF Sound
  <2>7. ASSUME Sound(n) PROVE FileOk(next) /\ Backed(n, next)
    <3>1. FileOk(w.current) /\ Backed(m, w.current)
      BY <2>2, <2>6, <2>7 DEF AtLayer
    <3>2. UndoLayer(next, x, m.nonce) = w.current /\ FileOk(next)
      <4>1. pc = "verify" /\ Sound(manifest) /\ f = Feature /\ m = manifest /\ w = work
        BY <2>0, <2>1, <2>6, <2>7 DEF Feature
      <4>2. /\ next = Encode(work.current, Feature, work.intended)
            /\ SameLayout(next[Feature], work.intended) /\ x.feature = Feature
            /\ x.repairs = FindRepairs(next[Feature], work.intended, work.current[Feature])
        BY <2>0, <2>1, <4>1
      <4>3. UndoLayer(next, x, manifest.nonce) = work.current /\ FileOk(next)
        BY <4>1, <4>2, VerifyUndone
      <4> QED BY <4>1, <4>3
    <3> QED BY <2>2, <2>3, <2>5, <3>1, <3>2, BackedStep
  <2>8. Shape'
    BY <2>1, <2>5 DEF Inv, Shape
  <2>9. Sound(n)' = Sound(n) /\ Backed(n, next)' = Backed(n, next)
    BY <2>1, SameEncoder
  <2>10. AtDigest'
    <3>1. SUFFICES ASSUME IsLast PROVE AtDigest'
      BY <2>1 DEF AtDigest
    <3>2. Len(n.layers) \in Nat \ {0}
      BY <2>4, <2>5
    <3> QED BY <2>1, <2>2, <2>5, <2>7, <2>9, <3>1, <3>2 DEF AtDigest, HasLayers
  <2>11. AtLayers'
    <3>1. SUFFICES ASSUME ~IsLast PROVE AtLayers'
      BY <2>1 DEF AtLayers
    <3>2. PICK u : u = work'
      OBVIOUS
    <3>3. /\ m.order \in Seq(Features) /\ Len(m.order) \in Nat
          /\ w.layer = Len(m.layers) + 1 /\ w.layer \in 1 .. Len(m.order)
          /\ w.layer # Len(m.order)
      BY <2>0, <2>2, <3>1, LenProperties DEF AtLayer, IsLast
    <3>4. u.layer = w.layer + 1 /\ u.current = next
      BY <2>1, <3>2
    <3>5. u.layer = Len(n.layers) + 1 /\ u.layer \in 1 .. Len(n.order)
      BY <2>4, <2>5, <3>3, <3>4
    <3>6. AtLayer(n, u)
      BY <2>2, <2>5, <2>7, <3>3, <3>4, <3>5 DEF AtLayer
    <3>7. AtLayer(n, u)'
      BY <2>1, <3>6, SameEncoder
    <3> QED BY <2>1, <2>2, <2>4, <2>5, <3>1, <3>2, <3>7 DEF AtLayers
  <2> QED
    BY <2>1, <2>8, <2>10, <2>11, OnDiskStays DEF Inv, AtUnlock, AtVerdict, AtSave, AtIntegrity
<1> QED BY <1>1, <1>2

LEMMA AudioInv ==
  ASSUME Fixed, Inv, LockAudio
  PROVE  Inv'
<1>1. CASE pc' = "idle"
  BY <1>1, EndInv DEF LockAudio, Inv, Shape
<1>2. CASE pc' # "idle"
  <2>0. PICK m, out : m = manifest /\ out = AudioPass(carrier, m.order, m.nonce, TRUE)
    OBVIOUS
  <2>1. /\ pc = "audio" /\ pc' = "digest" /\ out # None
        /\ UNCHANGED <<kind, carrier, trap, edited, job, work>>
        /\ disk' = [disk EXCEPT !.out = out]
        /\ \E x : manifest' = [m EXCEPT !.layers = x]
    BY <1>2, <2>0 DEF LockAudio, Done
  <2>2. /\ disk'.manifest = disk.manifest /\ disk'.out = out
        /\ disk' = [out |-> disk'.out, manifest |-> disk'.manifest, restored |-> disk'.restored]
    BY <2>1 DEF Inv, Shape
  <2>3. /\ IsManifest(m) /\ m.carrier = carrier /\ m.selftest = "not-run"
        /\ job.op = "lock" /\ kind = "audio" /\ kind # "video"
        /\ Planned(m.order, m.nonce, m.request.mode, m.request.dense)
    BY <2>0, <2>1 DEF Inv, Shape, AtLayers
  <2>4. /\ IsManifest(manifest') /\ manifest'.carrier = carrier
        /\ manifest'.selftest = "not-run"
        /\ manifest'.order = m.order /\ manifest'.nonce = m.nonce
    BY <2>1, <2>3 DEF IsManifest
  <2>5. carrier \in Whole
    BY DEF Fixed, FileOk, Whole
  <2>6. AudioPass(out, m.order, m.nonce, FALSE) = carrier
    <3>1. PICK order, plans, mode, dense : /\ order = m.order /\ plans = m.nonce
                                           /\ mode = m.request.mode /\ dense = m.request.dense
      OBVIOUS
    <3>2. Planned(order, plans, mode, dense) /\ AudioPass(carrier, order, plans, TRUE) # None
      BY <2>0, <2>1, <2>3, <3>1
    <3>3. AudioPass(AudioPass(carrier, order, plans, TRUE), order, plans, FALSE) = carrier
      BY ONLY <2>5, <3>2, AudioRoundTrip
    <3> QED BY <2>0, <3>1, <3>3
  <2>7. AtDigest'
    BY <2>1, <2>2, <2>3, <2>4, <2>6 DEF AtDigest, HasLayers, Sound
  <2>8. Shape'
    BY <2>1, <2>2, <2>3, <2>4 DEF Inv, Shape
  <2> QED
    BY <2>1, <2>2, <2>7, <2>8, OnDiskStays
    DEF Inv, AtLayers, AtUnlock, AtVerdict, AtSave, AtIntegrity
<1> QED BY <1>1, <1>2

LEMMA DigestInv ==
  ASSUME Inv, LockDigest
  PROVE  Inv'
<1>1. CASE pc' = "idle"
  <2>1. UNCHANGED <<kind, carrier, trap, edited>> /\ disk' \in {disk, Discarded}
    BY <1>1 DEF LockDigest
  <2> QED BY <1>1, <2>1, EndInv DEF Discarded, Inv, Shape
<1>2. CASE pc' # "idle"
  <2>0. PICK m : m = [manifest EXCEPT !.locked = disk.out]
    OBVIOUS
  <2>1. /\ pc = "digest" /\ manifest' = m /\ pc' \in {"unlock", "sign"}
        /\ m.request.allowNoop \/ ~IsCopy(m)
        /\ work' = [Idle EXCEPT !.layer = Len(m.layers), !.current = disk.out]
        /\ UNCHANGED <<kind, carrier, trap, disk, edited, job>>
    BY <1>2, <2>0 DEF LockDigest, Done
  <2>2. /\ IsManifest(manifest) /\ manifest.carrier = carrier /\ job.op = "lock"
        /\ manifest.selftest = "not-run" /\ HasLayers(manifest)
    BY <2>1 DEF Inv, Shape, AtDigest
  <2>3. /\ IsManifest(m) /\ m.locked = disk.out /\ m.layers = manifest.layers
        /\ m.selftest = "not-run" /\ m.carrier = carrier
    BY <2>0, <2>2 DEF IsManifest
  <2>4. Vouched(m) /\ HasLayers(m)
    BY <2>1, <2>2, <2>3 DEF IsCopy, Vouched, HasLayers
  <2>5. work' = [layer |-> Len(m.layers), current |-> disk.out, intended |-> None]
    BY <2>1 DEF Idle
  <2>6. Shape'
    BY <2>1, <2>3, <2>5 DEF Inv, Shape
  <2>7. Good(m)
    <3>1. PICK b : b = manifest
      OBVIOUS
    <3>2. /\ m.nonce = b.nonce /\ m.request = b.request /\ m.carrier = b.carrier
          /\ m.layers = b.layers /\ m.order = b.order
      BY <2>0, <2>2, <2>3, <3>1 DEF IsManifest
    <3>3. ASSUME Sound(m) PROVE Undoes(m)
      <4>1. Sound(b)
        BY <3>2, <3>3 DEF Sound
      <4>2. Backed(b, m.locked)
        BY <2>1, <2>3, <3>1, <4>1 DEF Inv, AtDigest
      <4>3. Undone(m, 0, m.carrier)
        BY <3>2, <4>2, BackedUndone
      <4> QED BY <3>3, <4>3 DEF Undoes, Sound
    <3>4. ASSUME kind = "audio" PROVE Undoes(m)
      <4>1. AudioPass(m.locked, b.order, b.nonce, FALSE) = b.carrier
        BY <2>1, <2>3, <3>1, <3>4 DEF Inv, AtDigest
      <4> QED BY <3>2, <3>4, <4>1 DEF Undoes, AudioUndone
    <3> QED BY <2>3, <3>3, <3>4 DEF Good, Trusted
  <2>8. HasLayers(m)' /\ Vouched(m)' /\ Good(m)'
    BY <2>1, <2>4, <2>7, SameEncoder DEF Vouched
  <2>9. kind = "video" => Len(m.layers) \in Nat \ {0} /\ Undone(m, Len(m.layers), m.locked)
    BY <2>4, UndoneStart DEF HasLayers
  <2>10. AtUnlock'
    <3>1. kind = "video" => Undone(m, Len(m.layers), m.locked)'
      BY <2>1, <2>9, SameEncoder
    <3>2. work'.layer = Len(m.layers) /\ work'.current = m.locked /\ job'.op = "lock"
      BY <2>1, <2>2, <2>3, <2>5
    <3> QED BY <2>1, <2>3, <2>8, <2>9, <3>1, <3>2 DEF AtUnlock
  <2>11. AtSave'
    BY <2>1, <2>8 DEF AtSave
  <2> QED
    BY <2>1, <2>6, <2>10, <2>11, OnDiskStays DEF Inv, AtLayers, AtDigest, AtVerdict, AtIntegrity
<1> QED BY <1>1, <1>2

LEMMA SelfTestInv ==
  ASSUME Inv, SelfTestVerdict
  PROVE  Inv'
<1>1. CASE pc' = "idle"
  <2>1. UNCHANGED <<kind, carrier, trap, edited>> /\ disk' \in {disk, Discarded}
    BY <1>1 DEF SelfTestVerdict
  <2> QED BY <1>1, <2>1, EndInv DEF Discarded, Inv, Shape
<1>2. CASE pc' # "idle"
  <2>0. PICK m : m = [manifest EXCEPT !.selftest = "pass"]
    OBVIOUS
  <2>1. /\ pc = "verdict" /\ work.current = manifest.carrier /\ manifest' = m
        /\ pc' = "sign" /\ UNCHANGED <<kind, carrier, trap, disk, edited, job, work>>
    BY <1>2, <2>0 DEF SelfTestVerdict, Done
  <2>2. /\ IsManifest(manifest) /\ manifest.carrier = carrier
        /\ HasLayers(manifest) /\ Vouched(manifest) /\ Undoes(manifest)
    BY <2>1 DEF Inv, Shape, AtVerdict, Undoes
  <2>3. /\ IsManifest(m) /\ m.locked = manifest.locked /\ m.layers = manifest.layers
        /\ m.nonce = manifest.nonce /\ m.carrier = manifest.carrier
        /\ m.order = manifest.order /\ m.request = manifest.request
    BY <2>0, <2>2 DEF IsManifest
  <2>4. Undoes(m) /\ Vouched(m) /\ HasLayers(m)
    BY <2>2, <2>3, SameFields
  <2>5. Good(m)' /\ Vouched(m)' /\ HasLayers(m)'
    BY <2>1, <2>4, SameEncoder DEF Good, Vouched
  <2>6. Shape' /\ AtSave'
    BY <2>1, <2>2, <2>3, <2>5 DEF Inv, Shape, AtSave
  <2> QED
    BY <2>1, <2>6, OnDiskStays
    DEF Inv, AtLayers, AtDigest, AtUnlock, AtVerdict, AtIntegrity
<1> QED BY <1>1, <1>2

LEMMA SignInv ==
  ASSUME Inv, SignAndOpen
  PROVE  Inv'
<1>0. PICK s : s = Seal(manifest, job.key)
  OBVIOUS
<1>1. /\ pc = "sign" /\ manifest' = s /\ pc' = "save"
      /\ disk' = [disk EXCEPT !.manifest = Torn]
      /\ UNCHANGED <<kind, carrier, trap, job, work>>
  BY <1>0 DEF SignAndOpen
<1>2. /\ IsManifest(manifest) /\ manifest.carrier = carrier
      /\ HasLayers(manifest) /\ Vouched(manifest) /\ Good(manifest)
  BY <1>1 DEF Inv, Shape, AtSave
<1>3. /\ IsManifest(s) /\ Verify(s, s.mac.key)
      /\ s.locked = manifest.locked /\ s.layers = manifest.layers
      /\ s.nonce = manifest.nonce /\ s.carrier = manifest.carrier
      /\ s.order = manifest.order /\ s.request = manifest.request
      /\ s.selftest = manifest.selftest
  BY <1>0, <1>2, SealFacts
<1>4. Good(s) /\ Vouched(s) /\ HasLayers(s)
  BY <1>2, <1>3, SameFields DEF Good
<1>5. Good(s)' /\ Vouched(s)' /\ HasLayers(s)' /\ Verify(s, s.mac.key)'
  BY <1>1, <1>3, <1>4, SameEncoder DEF Vouched, Verify
<1>6. disk' = [out |-> disk.out, manifest |-> Torn, restored |-> disk.restored]
  BY <1>1 DEF Inv, Shape
<1>7. Shape' /\ AtSave' /\ OnDisk'
  BY <1>1, <1>2, <1>3, <1>5, <1>6 DEF Inv, Shape, AtSave, OnDisk
<1> QED
  BY <1>1, <1>7 DEF Inv, AtLayers, AtDigest, AtUnlock, AtVerdict, AtIntegrity

LEMMA SaveInv ==
  ASSUME Inv, SaveManifest
  PROVE  Inv'
<1>1. /\ pc = "save" /\ pc' = "idle" /\ disk' = [disk EXCEPT !.manifest = manifest]
      /\ UNCHANGED <<kind, carrier, trap, edited>>
  BY DEF SaveManifest, Done
<1>2. /\ IsManifest(manifest) /\ manifest.carrier = carrier /\ HasLayers(manifest)
      /\ Vouched(manifest) /\ Good(manifest) /\ Verify(manifest, manifest.mac.key)
  BY <1>1 DEF Inv, Shape, AtSave
<1>3. disk' = [out |-> disk.out, manifest |-> manifest, restored |-> disk.restored]
  BY <1>1 DEF Inv, Shape
<1>0. PICK m : m = manifest
  OBVIOUS
<1>4. Saved(m) /\ disk'.manifest = m
  BY <1>0, <1>2, <1>3 DEF Saved
<1>5. Saved(m)' = Saved(m)
  BY <1>1, SameEncoder DEF Saved
<1>6. Shape' /\ OnDisk'
  BY <1>1, <1>3, <1>4, <1>5 DEF Inv, Shape, OnDisk
<1> QED
  BY <1>1, <1>6 DEF Inv, AtLayers, AtDigest, AtUnlock, AtVerdict, AtSave, AtIntegrity

LEMMA UnlockStartInv ==
  ASSUME Inv, NEW key \in Keys, UnlockStart(key)
  PROVE  Inv'
<1>1. CASE pc' = "idle"
  BY <1>1, EndInv DEF UnlockStart, Inv, Shape
<1>2. CASE pc' # "idle"
  <2>0. PICK m : m = disk.manifest
    OBVIOUS
  <2>1. /\ m \notin {None, Torn} /\ Verify(m, key) /\ disk.out = m.locked
        /\ manifest' = m /\ job' = [op |-> "unlock", key |-> key] /\ pc' = "unlock"
        /\ work' = [Idle EXCEPT !.layer = Len(m.layers), !.current = disk.out]
        /\ UNCHANGED <<kind, carrier, trap, disk, edited>>
    BY <1>2, <2>0 DEF UnlockStart, Done
  <2>2. IsManifest(m) /\ m.carrier = carrier /\ HasLayers(m) /\ Good(m)
    BY <2>0, <2>1, VerifyFacts DEF Inv, OnDisk, Saved
  <2>3. work' = [layer |-> Len(m.layers), current |-> m.locked, intended |-> None]
    BY <2>1 DEF Idle
  <2>4. Shape'
    BY <2>1, <2>2, <2>3 DEF Inv, Shape
  <2>5. Trusted(m) =>
          IF kind = "video" THEN OnTheWay(m, Len(m.layers), m.locked) ELSE Undoes(m)
    BY <2>2, WayStart DEF Good, Undoes, HasLayers
  <2>6. kind = "video" => Len(m.layers) \in 1 .. Len(m.layers)
    BY <2>2 DEF HasLayers
  <2>7. AtUnlock'
    <3>1. HasLayers(m)' /\ (Trusted(m) =>
            IF kind = "video" THEN OnTheWay(m, Len(m.layers), m.locked)' ELSE Undoes(m)')
      BY <2>1, <2>2, <2>5, SameEncoder
    <3>2. Trusted(m)' = Trusted(m)
      BY <2>1, SameEncoder
    <3> QED BY <2>1, <2>3, <2>6, <3>1, <3>2 DEF AtUnlock
  <2> QED
    BY <2>1, <2>4, <2>7, OnDiskStays
    DEF Inv, AtLayers, AtDigest, AtVerdict, AtSave, AtIntegrity
<1> QED BY <1>1, <1>2

LEMMA UnlockVideoInv ==
  ASSUME Inv, UnlockVideoLayer
  PROVE  Inv'
<1>0. PICK m, layer, next : /\ m = manifest /\ layer = work.layer
                             /\ next = UndoLayer(work.current, m.layers[layer], m.nonce)
  OBVIOUS
<1>1. /\ pc = "unlock" /\ kind = "video"
      /\ UNCHANGED <<kind, carrier, trap, edited>>
      /\ disk' = disk \/ \E x : disk' = [disk EXCEPT !.restored = x]
  BY DEF UnlockVideoLayer
<1>2. /\ disk'.manifest = disk.manifest
      /\ disk' = [out |-> disk'.out, manifest |-> disk'.manifest, restored |-> disk'.restored]
  BY <1>1 DEF Inv, Shape
<1>3. CASE pc' = "idle"
  BY <1>1, <1>2, <1>3, EndInv
<1>4. CASE pc' # "idle"
  <2>1. /\ work' = [work EXCEPT !.layer = @ - 1, !.current = next]
        /\ pc' = IF layer # 1 THEN "unlock" ELSE IF Probing THEN "verdict" ELSE "integrity"
        /\ disk' = IF layer = 1 /\ ~Probing THEN [disk EXCEPT !.restored = next] ELSE disk
        /\ UNCHANGED <<job, manifest>>
    BY <1>0, <1>4 DEF UnlockVideoLayer, Done
  <2>2. /\ IsManifest(m) /\ m.carrier = carrier /\ HasLayers(m)
        /\ layer \in 1 .. Len(m.layers) /\ Len(m.layers) \in Nat
        /\ job.op = "lock" => /\ m.selftest = "not-run" /\ Vouched(m)
                              /\ Undone(m, layer, work.current)
        /\ job.op # "lock" /\ Trusted(m) => OnTheWay(m, layer, work.current)
    BY <1>0, <1>1 DEF Inv, Shape, AtUnlock, HasLayers
  <2>3. job.op = "lock" => Undone(m, layer - 1, next)
    BY <1>0, <2>2, UndoneStep
  <2>4. job.op # "lock" /\ Trusted(m) => OnTheWay(m, layer - 1, next)
    BY <1>0, <2>2, WayStep
  <2>5. work' = [layer |-> layer - 1, current |-> next, intended |-> work.intended]
    BY <1>0, <1>1, <2>1 DEF Inv, Shape
  <2>6. work'.layer = layer - 1 /\ work'.current = next
    BY <2>5
  <2>7. Shape'
    BY <1>0, <1>1, <1>2, <2>1, <2>2, <2>5 DEF Inv, Shape
  <2>8. /\ HasLayers(m)'
        /\ job.op = "lock" => Undone(m, layer - 1, next)' /\ Vouched(m)'
        /\ job.op # "lock" /\ Trusted(m) => OnTheWay(m, layer - 1, next)'
        /\ Trusted(m)' = Trusted(m)
    BY <1>1, <2>1, <2>2, <2>3, <2>4, SameEncoder DEF Vouched
  <2>9. AtUnlock'
    <3>1. layer # 1 => layer - 1 \in 1 .. Len(m.layers)
      BY <2>2
    <3> QED BY <1>0, <1>1, <2>1, <2>2, <2>6, <2>8, <3>1 DEF AtUnlock
  <2>10. AtVerdict'
    BY <1>0, <1>1, <2>1, <2>2, <2>6, <2>8 DEF AtVerdict, Probing
  <2>11. AtIntegrity'
    <3>1. SUFFICES ASSUME pc' = "integrity", Trusted(m)
                   PROVE  disk'.restored = carrier
      BY <1>0, <1>1, <2>1, <2>8 DEF AtIntegrity
    <3>2. layer = 1 /\ ~Probing
      BY <2>1, <3>1
    <3>3. disk'.restored = next
      BY <2>1, <3>2 DEF Inv, Shape
    <3>4. OnTheWay(m, 0, next)
      BY <2>4, <3>1, <3>2 DEF Probing
    <3> QED BY <2>2, <3>3, <3>4, WayEnd
  <2> QED
    BY <1>1, <1>2, <2>1, <2>7, <2>9, <2>10, <2>11, OnDiskStays
    DEF Inv, AtLayers, AtDigest, AtSave
<1> QED BY <1>3, <1>4

LEMMA UnlockAudioInv ==
  ASSUME Inv, UnlockAudio
  PROVE  Inv'
<1>0. PICK m, next : /\ m = manifest
                     /\ next = AudioPass(work.current, m.order, m.nonce, FALSE)
  OBVIOUS
<1>1. /\ pc = "unlock" /\ kind = "audio"
      /\ work' = [work EXCEPT !.layer = 0, !.current = next]
      /\ disk' = IF Probing THEN disk ELSE [disk EXCEPT !.restored = next]
      /\ pc' = IF Probing THEN "verdict" ELSE "integrity"
      /\ UNCHANGED <<kind, carrier, trap, job, manifest, edited>>
  BY <1>0 DEF UnlockAudio
<1>2. /\ IsManifest(m) /\ m.carrier = carrier /\ HasLayers(m) /\ next = AudioUndone(m)
      /\ job.op = "lock" => Vouched(m)
      /\ job.op # "lock" /\ Trusted(m) => Undoes(m)
  BY <1>0, <1>1 DEF Inv, Shape, AtUnlock, AudioUndone
<1>3. /\ disk'.manifest = disk.manifest
      /\ disk' = [out |-> disk'.out, manifest |-> disk'.manifest, restored |-> disk'.restored]
      /\ ~Probing => disk'.restored = next
  BY <1>1 DEF Inv, Shape
<1>4. work' = [layer |-> 0, current |-> next, intended |-> work.intended]
  BY <1>1 DEF Inv, Shape
<1>5. Shape'
  BY <1>0, <1>1, <1>2, <1>3, <1>4 DEF Inv, Shape
<1>6. AtVerdict'
  <2>1. HasLayers(m)' /\ (Probing => Vouched(m)')
    BY <1>1, <1>2, SameEncoder DEF Vouched, Probing
  <2>2. work'.current = AudioUndone(m)
    BY <1>2, <1>4
  <2>3. AudioUndone(m)' = AudioUndone(m)
    BY <1>1 DEF AudioUndone
  <2> QED BY <1>0, <1>1, <2>1, <2>2, <2>3 DEF AtVerdict
<1>7. AtIntegrity'
  <2>1. Trusted(m)' = Trusted(m)
    BY <1>1, SameEncoder
  <2> QED BY <1>0, <1>1, <1>2, <1>3, <2>1 DEF AtIntegrity, Probing, Undoes
<1> QED
  BY <1>1, <1>3, <1>5, <1>6, <1>7, OnDiskStays
  DEF Inv, AtLayers, AtDigest, AtUnlock, AtSave

LEMMA CrashInv ==
  ASSUME Inv, Crash
  PROVE  Inv'
<1>1. /\ pc' = "idle" /\ UNCHANGED <<kind, carrier, trap, edited>>
      /\ disk' = disk \/ disk' = [disk EXCEPT !.out = Torn]
         \/ disk' = [disk EXCEPT !.restored = Torn]
  BY DEF Crash, Done
<1>2. /\ disk'.manifest = disk.manifest
      /\ disk' = [out |-> disk'.out, manifest |-> disk'.manifest, restored |-> disk'.restored]
  BY <1>1 DEF Inv, Shape
<1> QED BY <1>1, <1>2, EndInv

LEMMA EditInv ==
  ASSUME Inv, EditManifest
  PROVE  Inv'
<1>0. PICK m, n : m = disk.manifest /\ n = [m EXCEPT !.locked = disk.out]
  OBVIOUS
<1>1. /\ pc = "idle" /\ ~edited /\ edited' /\ m \notin {None, Torn}
      /\ m.locked # disk.out /\ disk' = [disk EXCEPT !.manifest.locked = disk.out]
      /\ UNCHANGED <<kind, carrier, trap, pc, job, work, manifest>>
  BY <1>0 DEF EditManifest
<1>2. /\ IsManifest(m) /\ m.carrier = carrier /\ HasLayers(m) /\ Verify(m, m.mac.key)
  BY <1>0, <1>1 DEF Inv, OnDisk, Saved
<1>3. /\ IsManifest(n) /\ n.carrier = m.carrier /\ n.layers = m.layers
      /\ n.locked = disk.out /\ n.mac = m.mac
  BY <1>0, <1>2 DEF IsManifest
<1>4. disk' = [out |-> disk.out, manifest |-> n, restored |-> disk.restored]
  BY <1>0, <1>1 DEF Inv, Shape
<1>5. m.mac.body = Body(m)
  BY <1>2, VerifyFacts
<1>6. Body(m).locked = m.locked /\ Body(n).locked = n.locked
  BY <1>2, <1>3 DEF Body, IsManifest
<1>7. n.mac.body # Body(n)
  BY <1>1, <1>3, <1>5, <1>6
<1>8. Saved(n)'
  <2>1. HasLayers(n)'
    BY <1>1, <1>2, <1>3 DEF HasLayers
  <2> QED BY <1>1, <1>2, <1>3, <1>7, <2>1 DEF Saved
<1>9. Shape' /\ OnDisk'
  BY <1>1, <1>4, <1>8 DEF Inv, Shape, OnDisk
<1> QED
  BY <1>1, <1>9 DEF Inv, AtLayers, AtDigest, AtUnlock, AtVerdict, AtSave, AtIntegrity

LEMMA IntegrityInv ==
  ASSUME Inv, UnlockIntegrity
  PROVE  Inv'
  BY EndInv DEF UnlockIntegrity, Done, Inv, Shape

LEMMA NextInv == Fixed /\ Inv /\ [Next]_vars => Inv'
<1> SUFFICES ASSUME Fixed, Inv, [Next]_vars PROVE Inv'
  OBVIOUS
<1>1. CASE UNCHANGED vars
  <2>1. UNCHANGED <<kind, carrier, trap, disk, pc, job, work, manifest, edited>>
    BY <1>1 DEF vars
  <2>2. OnDisk'
    BY <2>1, OnDiskStays
  <2>3. AtUnlock'
    BY <2>1, SameEncoder DEF Inv, AtUnlock, Vouched
  <2>4. AtVerdict' /\ AtSave'
    BY <2>1, SameEncoder DEF Inv, AtVerdict, AtSave, Vouched, Verify, AudioUndone
  <2>5. AtLayers'
    <3>1. PICK m, w, e : m = manifest /\ w = work /\ e = Encode(w.current, Feature, w.intended)
      OBVIOUS
    <3>2. /\ Feature' = Feature /\ IsLast' = IsLast /\ Sound(m)' = Sound(m)
          /\ AtLayer(m, w)' = AtLayer(m, w)
      BY <2>1, SameEncoder DEF Feature, IsLast
    <3>3. PICK f : f = Feature
      OBVIOUS
    <3>4. Encode(w.current, f, w.intended)' = e
      BY <2>1, <3>1, <3>3, SameEncoder
    <3> QED BY <2>1, <3>1, <3>2, <3>3, <3>4 DEF Inv, AtLayers
  <2>6. AtDigest' /\ AtIntegrity'
    <3>1. PICK m, out : m = manifest /\ out = disk.out
      OBVIOUS
    <3>2. /\ Sound(m)' = Sound(m) /\ Trusted(m)' = Trusted(m)
          /\ Backed(m, out)' = Backed(m, out) /\ HasLayers(m)' = HasLayers(m)
      BY <2>1, SameEncoder
    <3> QED BY <2>1, <3>1, <3>2 DEF Inv, AtDigest, AtIntegrity
  <2> QED
    BY <2>1, <2>2, <2>3, <2>4, <2>5, <2>6 DEF Inv, Shape, IsManifest
<1>2. CASE Lock
  BY <1>2, LockStartInv, TransformInv, ApplyInv, VerifyInv, AudioInv, DigestInv,
     SelfTestInv, SignInv, SaveInv DEF Lock
<1>3. CASE Unlock
  BY <1>3, UnlockStartInv, UnlockVideoInv, UnlockAudioInv, IntegrityInv DEF Unlock
<1> QED BY <1>1, <1>2, <1>3, CrashInv, EditInv DEF Next

LEMMA SpecFixed == Spec => []Fixed
<1>1. Init => Fixed
  <2> SUFFICES ASSUME Init PROVE Fixed
    OBVIOUS
  <2>1. carrier \in Carriers /\ trap \in Traps \cup {None}
        /\ (trap = None \/ carrier[trap.feature][trap.slot] # trap.wrote)
    BY DEF Init
  <2> QED BY <2>1, LockCoreAssumption DEF Fixed, FileOk
<1>2. Fixed /\ [Next]_vars => Fixed'
  <2> SUFFICES ASSUME Fixed, [Next]_vars PROVE Fixed'
    OBVIOUS
  <2>1. UNCHANGED <<kind, carrier, trap>>
    BY DEF Next, vars, Lock, Unlock, LockStart, LockTransform, LockApply, LockVerify,
           LockAudio, LockDigest, SelfTestVerdict, SignAndOpen, SaveManifest, UnlockStart,
           UnlockVideoLayer, UnlockAudio, UnlockIntegrity, Crash, EditManifest
  <2> QED BY <2>1, SameEncoder DEF Fixed
<1> QED BY <1>1, <1>2, PTL DEF Spec

LEMMA SpecInv == Spec => []Inv
  BY SpecFixed, InitInv, NextInv, PTL DEF Spec

NoJob == pc = "idle" => job = None

LEMMA NoJobInv == NoJob /\ [Next]_vars => NoJob'
  BY DEF NoJob, vars, Next, Lock, Unlock, LockStart, LockTransform, LockApply, LockVerify,
     LockAudio, LockDigest, SelfTestVerdict, SignAndOpen, SaveManifest, UnlockStart,
     UnlockVideoLayer, UnlockAudio, UnlockIntegrity, Crash, EditManifest, Done

(* Until its last layer is applied, a lock has not touched the output path.    *)
OutUntouched ==
    \/ pc \in {"transform", "apply", "audio"}
    \/ pc = "verify" /\ ~IsLast
    => disk.out = job.before

LEMMA OutUntouchedInv == Inv /\ OutUntouched /\ [Next]_vars => OutUntouched'
<1> SUFFICES ASSUME Inv, OutUntouched, [Next]_vars PROVE OutUntouched'
  OBVIOUS
<1>1. CASE UNCHANGED vars
  BY <1>1 DEF vars, OutUntouched, IsLast
<1>2. CASE \E k \in Keys, r \in Requests, o \in Orders : LockStart(k, r, o)
  <2>1. job'.before = disk.out /\ disk' = disk /\ pc' \in {"audio", "transform"}
    BY <1>2 DEF LockStart
  <2> QED BY <2>1 DEF OutUntouched
<1>3. CASE LockTransform
  BY <1>3 DEF LockTransform, Done, OutUntouched
<1>4. CASE LockApply
  <2>1. CASE pc' = "idle"
    BY <2>1 DEF OutUntouched
  <2>2. CASE pc' # "idle"
    <3>1. /\ pc' = "verify" /\ UNCHANGED <<job, work, manifest>>
          /\ ~IsLast => disk' = disk
      BY <1>4, <2>2 DEF LockApply, Done, WritesOutput
    <3>2. pc = "apply" /\ IsLast' = IsLast
      BY <1>4, <3>1 DEF LockApply, IsLast
    <3> QED BY <3>1, <3>2 DEF OutUntouched
  <2> QED BY <2>1, <2>2
<1>5. CASE LockVerify
  <2>1. CASE pc' = "idle"
    BY <2>1 DEF OutUntouched
  <2>2. CASE pc' # "idle"
    <3>1. /\ pc = "verify" /\ UNCHANGED <<job, disk>>
          /\ pc' = IF IsLast THEN "digest" ELSE "transform"
      BY <1>5, <2>2 DEF LockVerify, Done
    <3> QED BY <3>1 DEF OutUntouched
  <2> QED BY <2>1, <2>2
<1>6. CASE \/ LockAudio \/ LockDigest \/ SelfTestVerdict \/ SignAndOpen \/ SaveManifest
           \/ Unlock \/ Crash \/ EditManifest
  <2>1. pc' \in {"idle", "digest", "unlock", "sign", "save", "verdict", "integrity"}
    BY <1>6 DEF LockAudio, LockDigest, SelfTestVerdict, SignAndOpen, SaveManifest, Unlock,
       UnlockStart, UnlockVideoLayer, UnlockAudio, UnlockIntegrity, Crash, EditManifest, Done
  <2> QED BY <2>1 DEF OutUntouched
<1> QED BY <1>1, <1>2, <1>3, <1>4, <1>5, <1>6 DEF Next, Lock

-----------------------------------------------------------------------------
(* What every variable holds.  The commands read files of the full layout     *)
(* only: a lock refuses one that lost a slot, and an unlock never makes one   *)
(* it has yet to read (Readable), for the encoder that drops slots did not    *)
(* drop one on the way there.                                                *)

Dropping == kind = "video" /\ trap # None /\ trap.reads = Reshape

\* Undoing the layers up to this one, each file on the way can be read.
Retraced(m, layer, file) ==
    \E t : /\ t[layer] = file /\ \A i \in 0 .. layer : FileOk(t[i])
           /\ \A i \in 1 .. layer : t[i - 1] = UndoLayer(t[i], m.layers[i], m.nonce)

Readable(m, layer, file) == file \in Whole /\ (Dropping => Retraced(m, layer, file))

LayerOk(m, x) ==
    /\ x.feature \in Features
    /\ m.nonce[x.feature] \in Plans(Slots[x.feature], m.request.mode, m.request.dense)
    /\ \A i \in DOMAIN x.repairs : x.repairs[i] \in Int

\* A manifest with some of its layers made, or all.
Laid(m) ==
    /\ Planned(m.order, m.nonce, m.request.mode, m.request.dense)
    /\ Len(m.order) \in Nat \ {0} /\ Len(m.layers) <= Len(m.order)
    /\ \E S : m.layers \in Seq(S)
    /\ \A i \in 1 .. Len(m.layers) : LayerOk(m, m.layers[i])
    /\ m.selftest \in {"not-run", "pass"}

Finished(m) == Laid(m) /\ Len(m.layers) \in Nat \ {0}

Held(file) == file \in {None, Torn} \/ FileType(file)

Plain ==
    /\ carrier \in Carriers /\ locks \in 0 .. MaxLocks /\ edited \in BOOLEAN
    /\ last.exit \in {0, 1, 2, 3, 137}
    /\ pc \in {"idle", "transform", "apply", "verify", "audio", "digest", "unlock",
               "verdict", "sign", "save", "integrity"}
    /\ pc = "idle" => job = None /\ manifest = None
    /\ pc # "idle" => job.op \in {"lock", "unlock"}

Layering ==
    pc \in {"transform", "apply", "verify"} =>
        /\ Readable(manifest, Len(manifest.layers), work.current)
        /\ pc # "transform" => work.intended \in [DOMAIN Slots[Feature] -> Int]

ReadBack ==
    /\ pc = "digest" =>
          Finished(manifest) /\ Readable(manifest, Len(manifest.layers), disk.out)
    /\ pc \in {"unlock", "verdict", "sign", "save"} =>
          Finished(manifest) /\ Readable(manifest, Len(manifest.layers), manifest.locked)
    /\ pc = "unlock" =>
          work.layer \in 1 .. Len(manifest.layers) /\ Readable(manifest, work.layer, work.current)

Filed(m) ==
    Finished(m) /\ (m.mac.body = Body(m) => Readable(m, Len(m.layers), m.locked))

Shelved == disk.manifest \notin {None, Torn} => Filed(disk.manifest)

Types == /\ Held(disk.out) /\ Held(disk.restored)
         /\ pc # "idle" => Laid(manifest)
         /\ Layering /\ ReadBack /\ Shelved

LEMMA WholeType ==
  ASSUME NEW x \in Whole
  PROVE  FileType(x)
<1> SUFFICES ASSUME NEW f \in Features PROVE x[f] \in Seq(Int)
  BY DEF FileType
<1>1. PICK n \in Nat : n = Len(Slots[f]) /\ DOMAIN Slots[f] = 1 .. n
  BY LockCoreAssumption, LenProperties
<1>2. x[f] \in [1 .. n -> Int]
  BY <1>1 DEF Whole
<1> QED BY <1>2, SeqDef

LEMMA FileOkWhole ==
  ASSUME NEW x, FileOk(x)
  PROVE  x \in Whole
  BY DEF FileOk, Whole

LEMMA PassTyped ==
  ASSUME NEW file \in Whole, NEW order, NEW plans, NEW mode, NEW dense,
         Planned(order, plans, mode, dense), NEW forward \in BOOLEAN
  PROVE  AudioPass(file, order, plans, forward) \in Whole \cup {None}
<1>1. PICK r : /\ Passes(r, file, order, plans, forward)
               /\ r[Len(order)] = AudioPass(file, order, plans, forward)
  BY PassExists
<1>2. Len(order) \in 0 .. Len(order)
  BY DEF Planned
<1> QED BY <1>1, <1>2 DEF Passes

LEMMA StoredType ==
  ASSUME Fixed, kind = "video", NEW f \in Features, NEW vals \in [DOMAIN Slots[f] -> Int]
  PROVE  /\ Stored(f, vals) \in Seq(Int)
         /\ ~Dropping => Stored(f, vals) \in [DOMAIN Slots[f] -> Int]
<1>1. PICK n \in Nat : n = Len(Slots[f]) /\ DOMAIN Slots[f] = 1 .. n
  BY LockCoreAssumption, LenProperties
<1>2. vals \in Seq(Int) /\ vals \in [1 .. n -> Int]
  BY <1>1, SeqDef
<1>3. \A w \in [1 .. n -> Int] : w \in Seq(Int)
  BY SeqDef
<1>4. CASE trap = None
  BY <1>2, <1>4 DEF Stored
<1>5. CASE trap # None
  <2>1. PICK s, r : s = trap.slot /\ r = trap.reads
    OBVIOUS
  <2>2. r \in Int \cup {Reshape}
    BY <1>5, <2>1, LockCoreAssumption DEF Fixed
  <2>3. CASE r # Reshape
    <3>1. Stored(f, vals) \in {vals, [vals EXCEPT ![s] = r]}
      BY <2>1, <2>3 DEF Stored
    <3>2. [vals EXCEPT ![s] = r] \in [1 .. n -> Int]
      BY <1>2, <2>2, <2>3
    <3>3. Stored(f, vals) \in [1 .. n -> Int]
      BY <1>2, <3>1, <3>2
    <3> QED BY <1>1, <1>3, <3>3
  <2>4. CASE r = Reshape
    <3>1. Stored(f, vals) \in {vals, SubSeq(vals, 1, Len(vals) - 1)}
      BY <1>5, <2>1, <2>4 DEF Stored
    <3>2. SubSeq(vals, 1, Len(vals) - 1) \in Seq(Int)
      <4>1. PICK k \in Nat : k = Len(vals) /\ \A j \in 1 .. k : vals[j] \in Int
        BY <1>2, LenProperties
      <4>2. \A j \in 1 .. k - 1 : vals[j] \in Int
        BY <4>1
      <4> QED BY <4>1, <4>2, SubSeqProperties
    <3> QED BY <1>2, <1>5, <2>1, <2>4, <3>1, <3>2 DEF Dropping
  <2> QED BY <2>3, <2>4
<1> QED BY <1>4, <1>5

LEMMA EncodeType ==
  ASSUME Fixed, kind = "video", NEW f \in Features, NEW vals \in [DOMAIN Slots[f] -> Int],
         NEW file \in Whole
  PROVE  FileType(Encode(file, f, vals)) /\ (~Dropping => Encode(file, f, vals) \in Whole)
<1>1. PICK v, next : v = Stored(f, vals) /\ next = Encode(file, f, vals)
  OBVIOUS
<1>2. v \in Seq(Int) /\ (~Dropping => v \in [DOMAIN Slots[f] -> Int])
  BY <1>1, StoredType
<1>3. /\ DOMAIN file = Features /\ next = [file EXCEPT ![f] = v]
      /\ \A g \in Features : file[g] \in [DOMAIN Slots[g] -> Int]
  BY <1>1 DEF Whole, Encode
<1>4. FileType(next)
  BY <1>2, <1>3, WholeType DEF FileType
<1>5. ASSUME ~Dropping PROVE next \in Whole
  <2>1. v \in [DOMAIN Slots[f] -> Int]
    BY <1>2, <1>5
  <2> QED BY <1>3, <2>1 DEF Whole
<1> QED BY <1>1, <1>4, <1>5

(* Undoing a layer.                                                          *)
LEMMA UndoReads ==
  ASSUME Fixed, kind = "video", NEW m, Laid(m), NEW i \in 1 .. Len(m.layers),
         NEW file, Readable(m, i, file)
  PROVE  LET next == UndoLayer(file, m.layers[i], m.nonce)
         IN  FileType(next) /\ Readable(m, i - 1, next)
<1>1. PICK next, x, f, p : /\ next = UndoLayer(file, x, m.nonce) /\ x = m.layers[i]
                           /\ f = x.feature /\ p = m.nonce[f]
  OBVIOUS
<1>2. /\ f \in Features /\ p \in Plans(Slots[f], m.request.mode, m.request.dense)
      /\ \A j \in DOMAIN x.repairs : x.repairs[j] \in Int
      /\ file \in Whole /\ i \in Nat
  BY <1>1 DEF Laid, LayerOk, Readable
<1>3. PICK v, w : v = ApplyBackward(Slots[f], p, file[f]) /\ w = ApplyRepairs(v, x.repairs)
  OBVIOUS
<1>4. v \in [DOMAIN Slots[f] -> Int]
  <2>1. Slots[f] \in Seq(Domain) /\ file[f] \in [DOMAIN Slots[f] -> Int]
    BY <1>2, LockCoreAssumption DEF Whole
  <2> QED BY <1>2, <1>3, <2>1, BackwardTyped
<1>5. w \in [DOMAIN Slots[f] -> Int]
  BY <1>2, <1>3, <1>4 DEF ApplyRepairs
<1>6. next = Encode(file, f, w)
  BY <1>1, <1>3 DEF UndoLayer, TransformLayer
<1>7. FileType(next) /\ (~Dropping => next \in Whole)
  BY <1>2, <1>5, <1>6, EncodeType
<1>8. ASSUME Dropping PROVE next \in Whole /\ Retraced(m, i - 1, next)
  <2>1. PICK t : /\ t[i] = file /\ \A j \in 0 .. i : FileOk(t[j])
                 /\ \A j \in 1 .. i : t[j - 1] = UndoLayer(t[j], m.layers[j], m.nonce)
    BY <1>8 DEF Readable, Retraced
  <2>2. i \in 1 .. i /\ i - 1 \in 0 .. i
        /\ (\A j \in 0 .. i - 1 : j \in 0 .. i) /\ (\A j \in 1 .. i - 1 : j \in 1 .. i)
    BY <1>2
  <2>3. t[i - 1] = next /\ FileOk(t[i - 1])
    BY <1>1, <2>1, <2>2
  <2> QED BY <2>1, <2>2, <2>3, FileOkWhole DEF Retraced
<1> QED BY <1>1, <1>7, <1>8 DEF Readable

(* Making one.                                                               *)
LEMMA RetracedStep ==
  ASSUME NEW m, NEW S, m.layers \in Seq(S), NEW file, Retraced(m, Len(m.layers), file),
         NEW x, NEW next, UndoLayer(next, x, m.nonce) = file, FileOk(next),
         NEW n, n.nonce = m.nonce, n.layers = Append(m.layers, x)
  PROVE  Retraced(n, Len(n.layers), next)
<1>1. PICK k \in Nat : k = Len(m.layers)
  BY LenProperties
<1>2. /\ Len(n.layers) = k + 1 /\ n.layers[k + 1] = x
      /\ \A i \in 1 .. k : n.layers[i] = m.layers[i]
  BY <1>1
<1>3. PICK t : /\ t[k] = file /\ \A i \in 0 .. k : FileOk(t[i])
               /\ \A i \in 1 .. k : t[i - 1] = UndoLayer(t[i], m.layers[i], m.nonce)
  BY <1>1 DEF Retraced
<1>4. PICK u : u = [i \in 0 .. k + 1 |-> IF i = k + 1 THEN next ELSE t[i]]
  OBVIOUS
<1>5. u[k + 1] = next /\ \A i \in 0 .. k : u[i] = t[i]
  BY <1>1, <1>4
<1>6. ASSUME NEW i \in 1 .. k + 1
      PROVE  u[i - 1] = UndoLayer(u[i], n.layers[i], n.nonce)
  <2>1. CASE i = k + 1
    <3>1. u[i] = next /\ n.layers[i] = x /\ u[i - 1] = t[k]
      BY <1>1, <1>2, <1>5, <2>1
    <3> QED BY <1>3, <3>1
  <2>2. CASE i # k + 1
    <3>1. i \in 1 .. k /\ i \in 0 .. k /\ i - 1 \in 0 .. k
      BY <1>1, <2>2
    <3>2. u[i] = t[i] /\ u[i - 1] = t[i - 1] /\ n.layers[i] = m.layers[i]
      BY <1>2, <1>5, <3>1
    <3> QED BY <1>3, <3>1, <3>2
  <2> QED BY <2>1, <2>2
<1>7. \A i \in 0 .. k + 1 : FileOk(u[i])
  <2> TAKE i \in 0 .. k + 1
  <2>1. CASE i = k + 1
    BY <1>5, <2>1
  <2>2. CASE i # k + 1
    <3>1. i \in 0 .. k
      BY <1>1, <2>2
    <3> QED BY <1>3, <1>5, <3>1
  <2> QED BY <2>1, <2>2
<1> QED BY <1>2, <1>5, <1>6, <1>7 DEF Retraced

(* Only these fields matter.                                                 *)
LEMMA ReadableSame ==
  ASSUME NEW m, NEW n, n.layers = m.layers, n.nonce = m.nonce, NEW layer, NEW file
  PROVE  Readable(m, layer, file) => Readable(n, layer, file)
  BY DEF Readable, Retraced

LEMMA LaidSame ==
  ASSUME NEW m, NEW n, n.layers = m.layers, n.nonce = m.nonce, n.order = m.order,
         n.request = m.request, n.selftest \in {"not-run", "pass"}, Laid(m)
  PROVE  Laid(n)
  BY DEF Laid, LayerOk

LEMMA ReadableStays ==
  ASSUME UNCHANGED <<kind, trap>>
  PROVE  \A m, layer, file : Readable(m, layer, file)' = Readable(m, layer, file)
<1>1. Dropping' = Dropping
  BY DEF Dropping
<1>2. \A file : FileOk(file)' = FileOk(file)
  BY DEF FileOk
<1>3. \A file, x, plans : UndoLayer(file, x, plans)' = UndoLayer(file, x, plans)
  BY DEF UndoLayer, Encode, Stored
<1>4. \A m, layer, file : Retraced(m, layer, file)' = Retraced(m, layer, file)
  BY <1>2, <1>3 DEF Retraced
<1> QED BY <1>1, <1>4 DEF Readable

LEMMA ShelfStays ==
  ASSUME Shelved, UNCHANGED <<kind, trap>>,
         disk'.manifest \in {disk.manifest, None, Torn}
  PROVE  Shelved'
<1>1. \A m : Filed(m)' = Filed(m)
  BY ReadableStays DEF Filed
<1> QED BY <1>1 DEF Shelved

LEMMA PlainInit == Init => Plain
<1> SUFFICES ASSUME Init PROVE Plain
  OBVIOUS
<1>1. last.exit = 0 /\ locks = 0 /\ pc = "idle" /\ job = None /\ manifest = None
      /\ carrier \in Carriers /\ edited = FALSE
  BY DEF Init
<1>2. 0 \in 0 .. MaxLocks
  BY LockCoreAssumption
<1> QED BY <1>1, <1>2 DEF Plain

LEMMA PlainInv == Plain /\ Inv /\ [Next]_vars => Plain'
<1> SUFFICES ASSUME Plain, Inv, [Next]_vars PROVE Plain'
  OBVIOUS
<1>1. CASE \E k \in Keys, r \in Requests, o \in Orders : LockStart(k, r, o)
  <2>1. /\ locks' \in {locks + 1, MaxLocks} /\ locks < MaxLocks /\ job'.op = "lock"
        /\ pc' \in {"audio", "transform"} /\ UNCHANGED <<carrier, edited, last>>
    BY <1>1 DEF LockStart
  <2>2. locks' \in 0 .. MaxLocks
    BY <2>1, LockCoreAssumption DEF Plain
  <2> QED BY <2>1, <2>2 DEF Plain
<1>2. ASSUME NEW k \in Keys, UnlockStart(k) PROVE Plain'
  <2>1. carrier' = carrier /\ edited' = edited /\ locks' = locks
    BY <1>2 DEF UnlockStart
  <2>2. CASE pc' = "idle"
    <3>1. job' = None /\ manifest' = None /\ last'.exit \in {1, 2}
      BY <1>2, <2>2 DEF UnlockStart, Done
    <3> QED BY <2>1, <2>2, <3>1 DEF Plain
  <2>3. CASE pc' # "idle"
    <3>1. job'.op = "unlock" /\ pc' = "unlock" /\ last' = last
      BY <1>2, <2>3 DEF UnlockStart, Done
    <3> QED BY <2>1, <3>1 DEF Plain
  <2> QED BY <2>2, <2>3
<1>3. CASE /\ pc' = "idle"
           /\ \/ LockTransform \/ LockApply \/ LockVerify \/ LockAudio \/ LockDigest
              \/ SelfTestVerdict \/ SaveManifest \/ UnlockVideoLayer \/ UnlockIntegrity
              \/ Crash
  <2>1. carrier' = carrier /\ edited' = edited /\ locks' = locks
    BY <1>3 DEF LockTransform, LockApply, LockVerify, LockAudio, LockDigest, SelfTestVerdict,
       SaveManifest, UnlockVideoLayer, UnlockIntegrity, Crash
  <2>2. CASE LockTransform \/ LockApply \/ LockVerify \/ LockAudio \/ LockDigest
    <3>1. CASE LockTransform
      BY <1>3, <2>1, <3>1 DEF LockTransform, Done, Plain
    <3>2. CASE LockApply
      BY <1>3, <2>1, <3>2 DEF LockApply, Done, Plain
    <3>3. CASE LockVerify
      BY <1>3, <2>1, <3>3 DEF LockVerify, Done, Plain
    <3>4. CASE LockAudio
      <4>1. Done("lock", 1, "domain")
        BY <1>3, <3>4 DEF LockAudio
      <4> QED BY <1>3, <2>1, <4>1 DEF Done, Plain
    <3>5. CASE LockDigest
      <4>1. Done("lock", 1, "noop")
        BY <1>3, <3>5 DEF LockDigest
      <4> QED BY <1>3, <2>1, <4>1 DEF Done, Plain
    <3> QED BY <2>2, <3>1, <3>2, <3>3, <3>4, <3>5
  <2>3. CASE SelfTestVerdict \/ SaveManifest \/ UnlockVideoLayer \/ UnlockIntegrity \/ Crash
    <3>1. job' = None /\ manifest' = None /\ last'.exit \in {0, 1, 3, 137}
      BY <1>3, <2>3 DEF SelfTestVerdict, SaveManifest, UnlockVideoLayer, UnlockIntegrity,
         Crash, Done
    <3> QED BY <1>3, <2>1, <3>1 DEF Plain
  <2> QED BY <1>3, <2>2, <2>3
<1>4. CASE /\ pc' # "idle"
           /\ \/ LockTransform \/ LockApply \/ LockVerify \/ LockAudio \/ LockDigest
              \/ SelfTestVerdict \/ SignAndOpen \/ UnlockVideoLayer \/ UnlockAudio
  <2>1. /\ pc # "idle" /\ job' = job /\ last' = last
        /\ pc' \in {"transform", "apply", "verify", "digest", "unlock", "verdict", "sign",
                    "save", "integrity"}
        /\ edited' \in {edited, FALSE} /\ UNCHANGED <<carrier, locks>>
    BY <1>4 DEF LockTransform, LockApply, LockVerify, LockAudio, LockDigest, SelfTestVerdict,
       SignAndOpen, UnlockVideoLayer, UnlockAudio, Done
  <2> QED BY <1>4, <2>1 DEF Plain
<1>5. CASE EditManifest
  <2>1. pc = "idle" /\ edited' = TRUE /\ UNCHANGED <<carrier, locks, last, pc, job, manifest>>
    BY <1>5 DEF EditManifest
  <2> QED BY <2>1 DEF Plain
<1>6. CASE UNCHANGED vars
  BY <1>6 DEF vars, Plain
<1>7. /\ SaveManifest \/ UnlockIntegrity \/ Crash => pc' = "idle"
      /\ SignAndOpen \/ UnlockAudio => pc' # "idle"
  BY DEF SaveManifest, UnlockIntegrity, Crash, SignAndOpen, UnlockAudio, Done
<1> QED BY <1>1, <1>2, <1>3, <1>4, <1>5, <1>6, <1>7 DEF Next, Lock, Unlock

LEMMA TypesInit == Init => Types
  BY DEF Init, Types, Held, Layering, ReadBack, Shelved

(* A command that ends, or is killed.                                         *)
LEMMA TypesEnd ==
  ASSUME Types, pc' = "idle", UNCHANGED <<kind, trap>>, disk'.manifest = disk.manifest,
         Held(disk'.out), Held(disk'.restored)
  PROVE  Types'
  BY ShelfStays DEF Types, Layering, ReadBack, Held, FileType

LEMMA LockStartTypes ==
  ASSUME Fixed, Inv, Types, NEW key \in Keys, NEW req \in Requests, NEW order \in Orders,
         LockStart(key, req, order)
  PROVE  Types'
<1>1. PICK plans \in PlanFamilies(req, order) : manifest' = NewManifest(req, order, plans)
  BY DEF LockStart
<1>2. PICK m : m = manifest'
  OBVIOUS
<1>3. /\ m.layers = <<>> /\ m.order = order /\ m.request = req /\ m.nonce = plans
      /\ m.selftest = "not-run"
  BY <1>1, <1>2 DEF NewManifest
<1>4. order \in Seq(Features) /\ Len(order) \in Nat \ {0} /\ DOMAIN order = 1 .. Len(order)
  <2>1. order \in Seq(Features) /\ order # <<>>
    BY LockCoreAssumption
  <2> QED BY <2>1, EmptySeq, LenProperties
<1>5. \A i \in 1 .. Len(order) : plans[order[i]] \in Plans(Slots[order[i]], req.mode, req.dense)
  BY <1>4 DEF PlanFamilies
<1>6. Laid(m)
  <2>1. Planned(m.order, m.nonce, m.request.mode, m.request.dense)
    BY <1>3, <1>4, <1>5 DEF Planned
  <2>2. m.layers \in Seq({}) /\ Len(m.layers) = 0
    BY <1>3, EmptySeq
  <2> QED BY <1>3, <1>4, <2>1, <2>2 DEF Laid
<1>7. /\ work' = [layer |-> 1, current |-> carrier, intended |-> None]
      /\ pc' \in {"audio", "transform"} /\ UNCHANGED <<kind, trap, disk>>
  BY DEF LockStart, Idle
<1>8. Readable(m, Len(m.layers), carrier)
  <2>1. Len(m.layers) = 0
    BY <1>3
  <2>2. FileOk(carrier) /\ carrier \in Whole
    BY FileOkWhole DEF Fixed
  <2>3. PICK t : t = [i \in {0} |-> carrier]
    OBVIOUS
  <2>4. t[0] = carrier /\ 0 .. 0 = {0} /\ 1 .. 0 = {}
    BY <2>3
  <2>5. Retraced(m, 0, carrier)
    BY <2>2, <2>4 DEF Retraced
  <2> QED BY <2>1, <2>2, <2>5 DEF Readable
<1>9. Readable(m, Len(m.layers), carrier)'
  <2>1. PICK c : c = carrier
    OBVIOUS
  <2>2. Readable(m, Len(m.layers), c)'
    BY <1>7, <1>8, <2>1, ReadableStays
  <2>3. carrier' = c
    BY <2>1 DEF LockStart
  <2> QED BY <2>2, <2>3
<1>10. Layering'
  <2>1. work'.current = carrier'
    BY <1>7 DEF LockStart
  <2> QED BY <1>2, <1>7, <1>9, <2>1 DEF Layering
<1> QED BY <1>2, <1>6, <1>7, <1>10, ShelfStays DEF Types, ReadBack, Held, FileType

(* The slots of the layer being made.                                         *)
LEMMA AtFeature ==
  ASSUME Inv, Types, pc \in {"transform", "apply", "verify"}
  PROVE  /\ kind = "video" /\ Feature \in Features
         /\ manifest.nonce[Feature]
               \in Plans(Slots[Feature], manifest.request.mode, manifest.request.dense)
         /\ work.current \in Whole
         /\ work.current[Feature] \in [DOMAIN Slots[Feature] -> Int]
         /\ Slots[Feature] \in Seq(Domain)
         /\ Readable(manifest, Len(manifest.layers), work.current)
         /\ work.layer = Len(manifest.layers) + 1 /\ work.layer \in 1 .. Len(manifest.order)
<1>1. PICK m, w, f : m = manifest /\ w = work /\ f = m.order[w.layer]
  OBVIOUS
<1>2. kind \in Kinds /\ kind # "audio" /\ AtLayer(m, w)
  BY <1>1 DEF Inv, Shape, AtLayers
<1>3. kind = "video"
  BY <1>2, LockCoreAssumption
<1>4. /\ m.order \in Seq(Features) /\ w.layer \in 1 .. Len(m.order)
      /\ w.layer = Len(m.layers) + 1
      /\ \A i \in 1 .. Len(m.order) :
            m.nonce[m.order[i]] \in Plans(Slots[m.order[i]], m.request.mode, m.request.dense)
  BY <1>2 DEF AtLayer
<1>5. f \in Features
  BY <1>1, <1>4, ElementOfSeq
<1>6. Readable(m, Len(m.layers), w.current) /\ w.current \in Whole
  BY <1>1 DEF Types, Layering, Readable
<1>7. Feature = f
  BY <1>1 DEF Feature
<1> QED BY <1>1, <1>3, <1>4, <1>5, <1>6, <1>7, LockCoreAssumption DEF Whole

LEMMA TransformTypes ==
  ASSUME Fixed, Inv, Types, LockTransform
  PROVE  Types'
<1>1. CASE pc' = "idle"
  BY <1>1, TypesEnd DEF LockTransform, Types
<1>2. CASE pc' # "idle"
  <2>1. PICK m, c, f, v : /\ m = manifest /\ c = work.current /\ f = Feature
                          /\ v = TransformLayer(f, m.nonce[f], TRUE, c[f])
    OBVIOUS
  <2>2. /\ pc = "transform" /\ pc' = "apply" /\ AllInDomain(Slots[f], c[f])
        /\ UNCHANGED <<kind, trap, disk, job, manifest>>
        /\ work' = [work EXCEPT !.intended = v]
    BY <1>2, <2>1 DEF LockTransform, Done
  <2>3. work' = [layer |-> work.layer, current |-> c, intended |-> v]
    BY <2>1, <2>2 DEF Inv, Shape
  <2>4. /\ f \in Features /\ m.nonce[f] \in Plans(Slots[f], m.request.mode, m.request.dense)
        /\ c[f] \in [DOMAIN Slots[f] -> Int] /\ Slots[f] \in Seq(Domain)
        /\ Readable(m, Len(m.layers), c)
    BY <2>1, <2>2, AtFeature
  <2>5. v \in [DOMAIN Slots[f] -> Int]
    BY <2>1, <2>2, <2>4, ForwardStaysInDomain DEF TransformLayer
  <2>6. Feature' = f /\ work'.current = c /\ work'.intended = v /\ manifest' = m
    BY <2>1, <2>2, <2>3 DEF Feature
  <2>7. Readable(m, Len(m.layers), c)'
    BY <2>2, <2>4, ReadableStays
  <2>8. Layering'
    BY <2>5, <2>6, <2>7 DEF Layering
  <2>9. Laid(m)
    BY <2>1, <2>2 DEF Types
  <2> QED BY <2>2, <2>6, <2>8, <2>9, ShelfStays DEF Types, ReadBack, Held, FileType
<1> QED BY <1>1, <1>2

LEMMA ApplyTypes ==
  ASSUME Fixed, Inv, Types, LockApply
  PROVE  Types'
<1>1. PICK m, c, f, v, e : /\ m = manifest /\ c = work.current /\ f = Feature
                           /\ v = work.intended /\ e = Encode(c, f, v)
  OBVIOUS
<1>2. /\ pc = "apply" /\ UNCHANGED <<kind, trap>>
      /\ disk' \in {disk, [disk EXCEPT !.out = e], [disk EXCEPT !.out = Torn]}
      /\ pc' = "idle" \/ (pc' = "verify" /\ UNCHANGED <<job, work, manifest>>)
  BY <1>1 DEF LockApply, Done
<1>3. /\ kind = "video" /\ f \in Features /\ c \in Whole /\ Readable(m, Len(m.layers), c)
      /\ v \in [DOMAIN Slots[f] -> Int] /\ Laid(m)
  <2>1. work.intended \in [DOMAIN Slots[Feature] -> Int] /\ Laid(m)
    BY <1>1, <1>2 DEF Types, Layering
  <2> QED BY <1>1, <1>2, <2>1, AtFeature
<1>4. FileType(e)
  BY <1>1, <1>3, EncodeType
<1>5. Held(disk'.out) /\ Held(disk'.restored) /\ disk'.manifest = disk.manifest
  BY <1>2, <1>4 DEF Inv, Shape, Types, Held
<1>6. CASE pc' = "idle"
  BY <1>2, <1>5, <1>6, TypesEnd
<1>7. CASE pc' = "verify" /\ UNCHANGED <<job, work, manifest>>
  <2>1. Feature' = f /\ manifest' = m /\ work'.current = c /\ work'.intended = v
    BY <1>1, <1>7 DEF Feature
  <2>2. Readable(m, Len(m.layers), c)'
    BY <1>2, <1>3, ReadableStays
  <2>3. Layering'
    BY <1>3, <2>1, <2>2 DEF Layering
  <2>4. Held(disk.out)' /\ Held(disk.restored)'
    BY <1>5 DEF Held, FileType
  <2> QED BY <1>2, <1>3, <1>5, <1>7, <2>1, <2>3, <2>4, ShelfStays DEF Types, ReadBack
<1> QED BY <1>2, <1>6, <1>7

LEMMA VerifyTypes ==
  ASSUME Fixed, Inv, Types, LockVerify
  PROVE  Types'
<1>1. CASE pc' = "idle"
  BY <1>1, TypesEnd DEF LockVerify, Types
<1>2. CASE pc' # "idle"
  <2>0. PICK m, c, f, v, next, x, n :
            /\ m = manifest /\ c = work.current /\ f = Feature /\ v = work.intended
            /\ next = Encode(c, f, v)
            /\ x = [feature |-> f, repairs |-> FindRepairs(next[f], v, c[f])]
            /\ n = [m EXCEPT !.layers = Append(@, x)]
    OBVIOUS
  <2>1. /\ pc = "verify" /\ pc' = (IF IsLast THEN "digest" ELSE "transform")
        /\ UNCHANGED <<kind, trap, disk, job>>
        /\ SameLayout(next[f], v) /\ manifest' = n
        /\ work' = [layer |-> work.layer + 1, current |-> next, intended |-> None]
    BY <1>2, <2>0 DEF LockVerify, Done
  <2>2. /\ kind = "video" /\ f \in Features
        /\ m.nonce[f] \in Plans(Slots[f], m.request.mode, m.request.dense)
        /\ c \in Whole /\ c[f] \in [DOMAIN Slots[f] -> Int]
        /\ Readable(m, Len(m.layers), c)
        /\ work.layer = Len(m.layers) + 1 /\ work.layer \in 1 .. Len(m.order)
    BY <2>0, <2>1, AtFeature
  <2>3. v \in [DOMAIN Slots[f] -> Int] /\ Laid(m) /\ IsManifest(m)
    BY <2>0, <2>1 DEF Types, Layering, Inv, Shape
  <2>4. /\ n.layers = Append(m.layers, x) /\ n.order = m.order /\ n.nonce = m.nonce
        /\ n.request = m.request /\ n.selftest = m.selftest
    BY <2>0, <2>3 DEF IsManifest
  <2>5. PICK S : m.layers \in Seq(S)
    BY <2>3 DEF Laid
  <2>6. PICK k \in Nat : k = Len(m.layers) /\ \A i \in 1 .. k : LayerOk(m, m.layers[i])
    BY <2>3, <2>5, LenProperties DEF Laid
  <2>7. /\ n.layers \in Seq(S \cup {x}) /\ Len(n.layers) = k + 1 /\ n.layers[k + 1] = x
        /\ \A i \in 1 .. k : n.layers[i] = m.layers[i]
    <3>1. m.layers \in Seq(S \cup {x})
      BY <2>5
    <3> QED BY <2>4, <2>5, <2>6, <3>1
  <2>8. LayerOk(n, x)
    <3>1. x.feature = f /\ x.repairs = FindRepairs(next[f], v, c[f])
      BY <2>0
    <3>2. \A i \in DOMAIN x.repairs : x.repairs[i] \in Int
      BY <2>2, <3>1 DEF FindRepairs
    <3> QED BY <2>2, <2>4, <3>1, <3>2 DEF LayerOk
  <2>9. Finished(n)
    <3>1. \A i \in 1 .. k + 1 : LayerOk(n, n.layers[i])
      <4> TAKE i \in 1 .. k + 1
      <4>1. CASE i = k + 1
        BY <2>7, <2>8, <4>1
      <4>2. CASE i # k + 1
        <5>1. i \in 1 .. k
          BY <2>6, <4>2
        <5>2. LayerOk(m, m.layers[i]) /\ n.layers[i] = m.layers[i]
          BY <2>6, <2>7, <5>1
        <5> QED BY <2>4, <5>2 DEF LayerOk
      <4> QED BY <4>1, <4>2
    <3>2. Len(n.layers) <= Len(n.order) /\ Len(n.layers) \in Nat \ {0}
      BY <2>2, <2>4, <2>6, <2>7
    <3> QED BY <2>3, <2>4, <2>7, <3>1, <3>2 DEF Laid, Finished
  <2>10. Readable(n, Len(n.layers), next)
    <3>1. CASE Dropping
      <4>1. Sound(m) /\ Sound(manifest)
        BY <2>0, <3>1 DEF Dropping, Sound, Faithful
      <4>2. UndoLayer(next, x, m.nonce) = c /\ FileOk(next)
        <5>1. /\ next = Encode(work.current, Feature, work.intended)
              /\ SameLayout(next[Feature], work.intended) /\ x.feature = Feature
              /\ x.repairs = FindRepairs(next[Feature], work.intended, work.current[Feature])
          BY <2>0, <2>1
        <5>2. UndoLayer(next, x, manifest.nonce) = work.current /\ FileOk(next)
          BY <2>1, <4>1, <5>1, VerifyUndone
        <5> QED BY <2>0, <5>2
      <4>3. Retraced(m, Len(m.layers), c)
        BY <2>2, <3>1 DEF Readable
      <4>4. Retraced(n, Len(n.layers), next)
        BY <2>4, <2>5, <4>2, <4>3, RetracedStep
      <4> QED BY <4>2, <4>4, FileOkWhole DEF Readable
    <3>2. CASE ~Dropping
      BY <2>0, <2>2, <2>3, <3>2, EncodeType DEF Readable
    <3> QED BY <3>1, <3>2
  <2>11. Readable(n, Len(n.layers), next)'
    BY <2>1, <2>10, ReadableStays
  <2>12. Layering'
    BY <2>1, <2>11 DEF Layering
  <2>13. ReadBack'
    <3>1. SUFFICES ASSUME IsLast PROVE ReadBack'
      BY <2>1 DEF ReadBack
    <3>2. disk.out = next
      BY <2>0, <2>1, <3>1 DEF Inv, AtLayers
    <3> QED BY <2>1, <2>9, <2>11, <3>1, <3>2 DEF ReadBack
  <2> QED BY <2>1, <2>9, <2>12, <2>13, ShelfStays DEF Types, Held, FileType, Finished
<1> QED BY <1>1, <1>2

LEMMA AudioTypes ==
  ASSUME Fixed, Inv, Types, LockAudio
  PROVE  Types'
<1>1. CASE pc' = "idle"
  BY <1>1, TypesEnd DEF LockAudio, Types
<1>2. CASE pc' # "idle"
  <2>0. PICK m, out, ls, n :
            /\ m = manifest /\ out = AudioPass(carrier, m.order, m.nonce, TRUE)
            /\ ls = [i \in DOMAIN m.order |-> [feature |-> m.order[i], repairs |-> <<>>]]
            /\ n = [m EXCEPT !.layers = ls]
    OBVIOUS
  <2>1. /\ pc = "audio" /\ pc' = "digest" /\ out # None /\ UNCHANGED <<kind, trap, job, work>>
        /\ disk' = [disk EXCEPT !.out = out] /\ manifest' = n
    BY <1>2, <2>0 DEF LockAudio, Done
  <2>2. /\ disk'.manifest = disk.manifest /\ disk'.out = out
        /\ disk'.restored = disk.restored
    BY <2>1 DEF Inv, Shape
  <2>3. Laid(m) /\ IsManifest(m) /\ kind = "audio"
    BY <2>0, <2>1 DEF Types, Inv, Shape, AtLayers
  <2>4. /\ n.layers = ls /\ n.order = m.order /\ n.nonce = m.nonce
        /\ n.request = m.request /\ n.selftest = m.selftest
    BY <2>0, <2>3 DEF IsManifest
  <2>5. PICK k : /\ k = Len(m.order) /\ k \in Nat \ {0} /\ DOMAIN m.order = 1 .. k
                 /\ \A i \in 1 .. k : /\ m.order[i] \in Features
                                      /\ m.nonce[m.order[i]]
                                            \in Plans(Slots[m.order[i]], m.request.mode,
                                                      m.request.dense)
    <3>1. m.order \in Seq(Features) /\ Len(m.order) \in Nat \ {0}
      BY <2>3 DEF Laid, Planned
    <3> QED BY <2>3, <3>1, LenProperties, ElementOfSeq DEF Laid, Planned
  <2>6. PICK S : S = {[feature |-> m.order[i], repairs |-> <<>>] : i \in 1 .. k}
    OBVIOUS
  <2>7. ls \in [1 .. k -> S]
    BY <2>0, <2>5, <2>6
  <2>8. ls \in Seq(S) /\ Len(ls) = k
    <3>1. ls \in Seq(S)
      BY <2>5, <2>7, SeqDef
    <3> QED BY <2>5, <2>7, <3>1, LenProperties
  <2>9. \A i \in 1 .. k : LayerOk(n, ls[i])
    <3> TAKE i \in 1 .. k
    <3>1. ls[i].feature = m.order[i] /\ ls[i].repairs = <<>>
      BY <2>0, <2>5
    <3>2. DOMAIN (<<>>) = {}
      OBVIOUS
    <3> QED BY <2>4, <2>5, <3>1, <3>2 DEF LayerOk
  <2>10. Finished(n)
    <3>1. Planned(n.order, n.nonce, n.request.mode, n.request.dense)
          /\ n.selftest \in {"not-run", "pass"}
      BY <2>3, <2>4 DEF Laid
    <3>2. Len(n.layers) = k /\ Len(n.order) = k /\ k <= k
      BY <2>4, <2>5, <2>8
    <3> QED BY <2>4, <2>5, <2>8, <2>9, <3>1, <3>2 DEF Laid, Finished
  <2>11. out \in Whole
    <3>1. carrier \in Whole
      BY FileOkWhole DEF Fixed
    <3>2. Planned(m.order, m.nonce, m.request.mode, m.request.dense)
      BY <2>3 DEF Laid
    <3> QED BY <2>0, <2>1, <3>1, <3>2, PassTyped
  <2>12. Readable(n, Len(n.layers), out)
    BY <2>3, <2>11 DEF Readable, Dropping
  <2>13. Readable(n, Len(n.layers), out)'
    BY <2>1, <2>12, ReadableStays
  <2>14. ReadBack'
    BY <2>1, <2>2, <2>10, <2>13 DEF ReadBack
  <2>15. Held(disk'.out) /\ Held(disk'.restored)
    BY <2>2, <2>11, WholeType DEF Types, Held
  <2>16. Held(disk.out)' /\ Held(disk.restored)'
    BY <2>15 DEF Held, FileType
  <2> QED BY <2>1, <2>2, <2>10, <2>14, <2>16, ShelfStays DEF Types, Layering, Finished
<1> QED BY <1>1, <1>2

LEMMA DigestTypes ==
  ASSUME Inv, Types, LockDigest
  PROVE  Types'
<1>1. CASE pc' = "idle"
  <2>1. UNCHANGED <<kind, trap>> /\ disk' \in {disk, Discarded}
    BY <1>1 DEF LockDigest
  <2>2. Held(disk'.out) /\ Held(disk'.restored) /\ disk'.manifest = disk.manifest
    BY <2>1 DEF Discarded, Inv, Shape, Types, Held
  <2> QED BY <1>1, <2>1, <2>2, TypesEnd
<1>2. CASE pc' # "idle"
  <2>0. PICK b, m : b = manifest /\ m = [b EXCEPT !.locked = disk.out]
    OBVIOUS
  <2>1. /\ pc = "digest" /\ manifest' = m /\ pc' \in {"unlock", "sign"}
        /\ work' = [layer |-> Len(m.layers), current |-> disk.out, intended |-> None]
        /\ UNCHANGED <<kind, trap, disk, job>>
    BY <1>2, <2>0 DEF LockDigest, Done, Idle
  <2>2. Finished(b) /\ Readable(b, Len(b.layers), disk.out) /\ IsManifest(b)
    BY <2>0, <2>1 DEF Inv, Shape, Types, ReadBack
  <2>3. /\ m.locked = disk.out /\ m.layers = b.layers /\ m.order = b.order
        /\ m.nonce = b.nonce /\ m.request = b.request /\ m.selftest = b.selftest
    BY <2>0, <2>2 DEF IsManifest
  <2>4. Finished(m)
    <3>1. b.selftest \in {"not-run", "pass"} /\ Laid(b)
      BY <2>2 DEF Finished, Laid
    <3>2. Laid(m)
      BY <2>3, <3>1, LaidSame
    <3> QED BY <2>2, <2>3, <3>2 DEF Finished
  <2>5. Readable(m, Len(m.layers), m.locked)
    BY <2>2, <2>3, ReadableSame
  <2>6. Readable(m, Len(m.layers), m.locked)'
    BY <2>1, <2>5, ReadableStays
  <2>7. Len(m.layers) \in 1 .. Len(m.layers)
    BY <2>4 DEF Finished
  <2>8. ReadBack'
    BY <2>1, <2>3, <2>4, <2>6, <2>7 DEF ReadBack
  <2> QED BY <2>1, <2>4, <2>8, ShelfStays DEF Types, Layering, Held, FileType, Finished
<1> QED BY <1>1, <1>2

LEMMA SelfTestTypes ==
  ASSUME Inv, Types, SelfTestVerdict
  PROVE  Types'
<1>1. CASE pc' = "idle"
  <2>1. UNCHANGED <<kind, trap>> /\ disk' \in {disk, Discarded}
    BY <1>1 DEF SelfTestVerdict
  <2>2. Held(disk'.out) /\ Held(disk'.restored) /\ disk'.manifest = disk.manifest
    BY <2>1 DEF Discarded, Inv, Shape, Types, Held
  <2> QED BY <1>1, <2>1, <2>2, TypesEnd
<1>2. CASE pc' # "idle"
  <2>0. PICK b, m : b = manifest /\ m = [b EXCEPT !.selftest = "pass"]
    OBVIOUS
  <2>1. /\ pc = "verdict" /\ manifest' = m /\ pc' = "sign"
        /\ UNCHANGED <<kind, trap, disk, job, work>>
    BY <1>2, <2>0 DEF SelfTestVerdict, Done
  <2>2. Finished(b) /\ Readable(b, Len(b.layers), b.locked) /\ IsManifest(b)
    BY <2>0, <2>1 DEF Inv, Shape, Types, ReadBack
  <2>3. /\ m.locked = b.locked /\ m.layers = b.layers /\ m.order = b.order
        /\ m.nonce = b.nonce /\ m.request = b.request /\ m.selftest = "pass"
    BY <2>0, <2>2 DEF IsManifest
  <2>4. Finished(m)
    <3>1. Laid(m)
      BY <2>2, <2>3, LaidSame DEF Finished
    <3> QED BY <2>2, <2>3, <3>1 DEF Finished
  <2>5. Readable(m, Len(m.layers), m.locked)
    BY <2>2, <2>3, ReadableSame
  <2>6. Readable(m, Len(m.layers), m.locked)'
    BY <2>1, <2>5, ReadableStays
  <2>7. ReadBack'
    BY <2>1, <2>4, <2>6 DEF ReadBack
  <2> QED BY <2>1, <2>4, <2>7, ShelfStays DEF Types, Layering, Held, FileType, Finished
<1> QED BY <1>1, <1>2

LEMMA SignTypes ==
  ASSUME Inv, Types, SignAndOpen
  PROVE  Types'
<1>0. PICK b, s : b = manifest /\ s = Seal(b, job.key)
  OBVIOUS
<1>1. /\ pc = "sign" /\ manifest' = s /\ pc' = "save"
      /\ disk' = [disk EXCEPT !.manifest = Torn] /\ UNCHANGED <<kind, trap, job, work>>
  BY <1>0 DEF SignAndOpen
<1>2. Finished(b) /\ Readable(b, Len(b.layers), b.locked) /\ IsManifest(b)
  BY <1>0, <1>1 DEF Inv, Shape, Types, ReadBack
<1>3. /\ s.locked = b.locked /\ s.layers = b.layers /\ s.nonce = b.nonce
      /\ s.order = b.order /\ s.request = b.request /\ s.selftest = b.selftest
  BY <1>0, <1>2, SealFacts
<1>4. Finished(s)
  <2>1. Laid(b) /\ b.selftest \in {"not-run", "pass"}
    BY <1>2 DEF Finished, Laid
  <2>2. Laid(s)
    BY <1>3, <2>1, LaidSame
  <2> QED BY <1>2, <1>3, <2>2 DEF Finished
<1>5. Readable(s, Len(s.layers), s.locked)
  BY <1>2, <1>3, ReadableSame
<1>6. Readable(s, Len(s.layers), s.locked)'
  BY <1>1, <1>5, ReadableStays
<1>7. ReadBack'
  BY <1>1, <1>4, <1>6 DEF ReadBack
<1>8. disk'.out = disk.out /\ disk'.restored = disk.restored /\ disk'.manifest = Torn
  BY <1>1 DEF Inv, Shape
<1> QED BY <1>1, <1>4, <1>7, <1>8, ShelfStays DEF Types, Layering, Held, FileType, Finished

LEMMA SaveTypes ==
  ASSUME Inv, Types, SaveManifest
  PROVE  Types'
<1>1. PICK m : m = manifest
  OBVIOUS
<1>2. pc = "save" /\ pc' = "idle" /\ UNCHANGED <<kind, trap>>
      /\ disk' = [disk EXCEPT !.manifest = m]
  BY <1>1 DEF SaveManifest, Done
<1>3. disk'.out = disk.out /\ disk'.restored = disk.restored /\ disk'.manifest = m
  BY <1>2 DEF Inv, Shape
<1>4. Filed(m)
  BY <1>1, <1>2 DEF Types, ReadBack, Filed
<1>5. Filed(m)'
  <2>1. Readable(m, Len(m.layers), m.locked)' = Readable(m, Len(m.layers), m.locked)
    BY <1>2, ReadableStays
  <2> QED BY <1>4, <2>1 DEF Filed
<1>6. Shelved'
  BY <1>3, <1>5 DEF Shelved
<1> QED BY <1>2, <1>3, <1>6 DEF Types, Layering, ReadBack, Held, FileType

LEMMA UnlockStartTypes ==
  ASSUME Inv, Types, NEW key \in Keys, UnlockStart(key)
  PROVE  Types'
<1>1. CASE pc' = "idle"
  <2>1. UNCHANGED <<kind, trap>> /\ disk' = disk
    BY DEF UnlockStart
  <2> QED BY <1>1, <2>1, TypesEnd DEF Types
<1>2. CASE pc' # "idle"
  <2>0. PICK m : m = disk.manifest
    OBVIOUS
  <2>1. /\ m \notin {None, Torn} /\ Verify(m, key) /\ disk.out = m.locked
        /\ manifest' = m /\ pc' = "unlock"
        /\ work' = [layer |-> Len(m.layers), current |-> m.locked, intended |-> None]
        /\ UNCHANGED <<kind, trap, disk>>
    BY <1>2, <2>0 DEF UnlockStart, Done, Idle
  <2>2. Finished(m) /\ Readable(m, Len(m.layers), m.locked)
    BY <2>0, <2>1, VerifyFacts DEF Types, Shelved, Filed
  <2>3. Readable(m, Len(m.layers), m.locked)'
    BY <2>1, <2>2, ReadableStays
  <2>4. Len(m.layers) \in 1 .. Len(m.layers)
    BY <2>2 DEF Finished
  <2>5. ReadBack'
    BY <2>1, <2>2, <2>3, <2>4 DEF ReadBack
  <2> QED BY <2>1, <2>2, <2>5, ShelfStays DEF Types, Layering, Held, FileType, Finished
<1> QED BY <1>1, <1>2

LEMMA UnlockVideoTypes ==
  ASSUME Fixed, Inv, Types, UnlockVideoLayer
  PROVE  Types'
<1>0. PICK m, layer, next : /\ m = manifest /\ layer = work.layer
                             /\ next = UndoLayer(work.current, m.layers[layer], m.nonce)
  OBVIOUS
<1>1. /\ pc = "unlock" /\ kind = "video" /\ UNCHANGED <<kind, trap>>
      /\ disk' \in {disk, [disk EXCEPT !.restored = next], [disk EXCEPT !.restored = Torn]}
  BY <1>0 DEF UnlockVideoLayer
<1>2. /\ Finished(m) /\ Readable(m, Len(m.layers), m.locked) /\ layer \in 1 .. Len(m.layers)
      /\ Readable(m, layer, work.current) /\ Laid(m) /\ Len(m.layers) \in Nat
  BY <1>0, <1>1 DEF Types, ReadBack, Finished
<1>3. FileType(next) /\ Readable(m, layer - 1, next)
  BY <1>0, <1>1, <1>2, UndoReads
<1>4. Held(disk'.out) /\ Held(disk'.restored) /\ disk'.manifest = disk.manifest
  BY <1>1, <1>3 DEF Inv, Shape, Types, Held
<1>5. CASE pc' = "idle"
  BY <1>1, <1>4, <1>5, TypesEnd
<1>6. CASE pc' # "idle"
  <2>1. /\ pc' \in {"unlock", "verdict", "integrity"} /\ (pc' = "unlock" => layer # 1)
        /\ work' = [work EXCEPT !.layer = @ - 1, !.current = next] /\ manifest' = m
    BY <1>0, <1>6 DEF UnlockVideoLayer, Done
  <2>2. work'.layer = layer - 1 /\ work'.current = next
    BY <1>0, <1>1, <2>1 DEF Inv, Shape
  <2>3. Readable(m, Len(m.layers), m.locked)' /\ Readable(m, layer - 1, next)'
    BY <1>1, <1>2, <1>3, ReadableStays
  <2>4. layer # 1 => layer - 1 \in 1 .. Len(m.layers)
    BY <1>2
  <2>5. ReadBack'
    BY <1>2, <2>1, <2>2, <2>3, <2>4 DEF ReadBack
  <2>6. Held(disk.out)' /\ Held(disk.restored)'
    BY <1>4 DEF Held, FileType
  <2> QED BY <1>1, <1>2, <1>4, <2>1, <2>5, <2>6, ShelfStays DEF Types, Layering
<1> QED BY <1>5, <1>6

LEMMA UnlockAudioTypes ==
  ASSUME Inv, Types, UnlockAudio
  PROVE  Types'
<1>0. PICK m, next : /\ m = manifest
                     /\ next = AudioPass(work.current, m.order, m.nonce, FALSE)
  OBVIOUS
<1>1. /\ pc = "unlock" /\ manifest' = m /\ pc' \in {"verdict", "integrity"}
      /\ disk' \in {disk, [disk EXCEPT !.restored = next]} /\ UNCHANGED <<kind, trap>>
  BY <1>0 DEF UnlockAudio
<1>2. /\ Finished(m) /\ Readable(m, Len(m.layers), m.locked) /\ Laid(m)
      /\ work.current \in Whole
  BY <1>0, <1>1 DEF Types, ReadBack, Finished, Readable
<1>3. next \in Whole \cup {None}
  BY <1>0, <1>2, PassTyped DEF Laid
<1>4. Held(next)
  BY <1>3, WholeType DEF Held
<1>5. Held(disk'.out) /\ Held(disk'.restored) /\ disk'.manifest = disk.manifest
  BY <1>1, <1>4 DEF Inv, Shape, Types
<1>6. Readable(m, Len(m.layers), m.locked)'
  BY <1>1, <1>2, ReadableStays
<1>7. ReadBack'
  BY <1>1, <1>2, <1>6 DEF ReadBack
<1>8. Held(disk.out)' /\ Held(disk.restored)'
  BY <1>5 DEF Held, FileType
<1> QED BY <1>1, <1>2, <1>5, <1>7, <1>8, ShelfStays DEF Types, Layering

LEMMA OtherTypes ==
  ASSUME Inv, Types, UnlockIntegrity \/ Crash
  PROVE  Types'
<1>1. /\ pc' = "idle" /\ UNCHANGED <<kind, trap>>
      /\ disk' \in {disk, [disk EXCEPT !.out = Torn], [disk EXCEPT !.restored = Torn]}
  BY DEF UnlockIntegrity, Crash, Done
<1>2. Held(disk'.out) /\ Held(disk'.restored) /\ disk'.manifest = disk.manifest
  BY <1>1 DEF Inv, Shape, Types, Held
<1> QED BY <1>1, <1>2, TypesEnd

LEMMA EditTypes ==
  ASSUME Inv, Types, EditManifest
  PROVE  Types'
<1>0. PICK m, n : m = disk.manifest /\ n = [m EXCEPT !.locked = disk.out]
  OBVIOUS
<1>1. /\ pc = "idle" /\ ~edited /\ m \notin {None, Torn} /\ m.locked # disk.out
      /\ disk' = [disk EXCEPT !.manifest.locked = disk.out]
      /\ UNCHANGED <<kind, trap, pc, job, work, manifest>>
  BY <1>0 DEF EditManifest
<1>2. /\ IsManifest(m) /\ Verify(m, m.mac.key) /\ Finished(m)
  BY <1>0, <1>1 DEF Inv, OnDisk, Saved, Types, Shelved, Filed
<1>3. /\ IsManifest(n) /\ n.layers = m.layers /\ n.order = m.order /\ n.nonce = m.nonce
      /\ n.request = m.request /\ n.selftest = m.selftest
      /\ n.locked = disk.out /\ n.mac = m.mac
  BY <1>0, <1>2 DEF IsManifest
<1>4. disk' = [out |-> disk.out, manifest |-> n, restored |-> disk.restored]
  BY <1>0, <1>1 DEF Inv, Shape
<1>5. m.mac.body = Body(m)
  BY <1>2, VerifyFacts
<1>6. Body(m).locked = m.locked /\ Body(n).locked = n.locked
  BY <1>2, <1>3 DEF Body, IsManifest
<1>7. n.mac.body # Body(n)
  BY <1>1, <1>3, <1>5, <1>6
<1>8. Finished(n)
  <2>1. Laid(m) /\ m.selftest \in {"not-run", "pass"}
    BY <1>2 DEF Finished, Laid
  <2>2. Laid(n)
    BY <1>3, <2>1, LaidSame
  <2> QED BY <1>2, <1>3, <2>2 DEF Finished
<1>9. Shelved'
  <2>1. Filed(n)'
    BY <1>7, <1>8 DEF Filed
  <2> QED BY <1>4, <2>1 DEF Shelved
<1> QED BY <1>1, <1>4, <1>9 DEF Types, Layering, ReadBack, Held, FileType

LEMMA TypesInv == Fixed /\ Inv /\ Types /\ [Next]_vars => Types'
<1> SUFFICES ASSUME Fixed, Inv, Types, [Next]_vars PROVE Types'
  OBVIOUS
<1>1. CASE UNCHANGED vars
  <2>1. UNCHANGED <<kind, carrier, trap, disk, pc, job, work, manifest>>
    BY <1>1 DEF vars
  <2>2. PICK m, c, o, k : /\ m = manifest /\ c = work.current /\ o = disk.out
                          /\ k = work.layer
    OBVIOUS
  <2>3. /\ Readable(m, Len(m.layers), c)' = Readable(m, Len(m.layers), c)
        /\ Readable(m, Len(m.layers), o)' = Readable(m, Len(m.layers), o)
        /\ Readable(m, Len(m.layers), m.locked)' = Readable(m, Len(m.layers), m.locked)
        /\ Readable(m, k, c)' = Readable(m, k, c)
    BY <2>1, ReadableStays
  <2>4. manifest' = m /\ work'.current = c /\ disk'.out = o /\ work'.layer = k
        /\ Feature' = Feature /\ work'.intended = work.intended
    BY <2>1, <2>2 DEF Feature
  <2>5. Layering'
    BY <2>1, <2>2, <2>3, <2>4 DEF Types, Layering
  <2>6. ReadBack'
    BY <2>1, <2>2, <2>3, <2>4 DEF Types, ReadBack
  <2> QED BY <2>1, <2>5, <2>6, ShelfStays DEF Types, Held, FileType
<1>2. CASE Lock
  BY <1>2, LockStartTypes, TransformTypes, ApplyTypes, VerifyTypes, AudioTypes, DigestTypes,
     SelfTestTypes, SignTypes, SaveTypes DEF Lock
<1>3. CASE Unlock
  BY <1>3, UnlockStartTypes, UnlockVideoTypes, UnlockAudioTypes, OtherTypes DEF Unlock
<1> QED BY <1>1, <1>2, <1>3, OtherTypes, EditTypes DEF Next

LEMMA SpecTypes == Spec => [](Plain /\ Types)
<1>1. Plain /\ Fixed /\ Inv /\ Types /\ [Next]_vars => Plain' /\ Types'
  BY PlainInv, TypesInv
<1> QED BY <1>1, PlainInit, TypesInit, SpecFixed, SpecInv, PTL DEF Spec

-----------------------------------------------------------------------------
(* Every variable holds what the program can put there, whatever the encoder:  *)
(* a command only ever reads files of the full layout, and indexes layers that *)
(* exist (core.lock and its layout check, core.unlock, the loops of both).     *)
THEOREM CommandsAreTyped == Spec => []TypeOK
<1>1. Fixed /\ Inv /\ Plain /\ Types => TypeOK
  <2> SUFFICES ASSUME Fixed, Inv, Plain, Types PROVE TypeOK
    OBVIOUS
  <2>1. PICK m : m = manifest
    OBVIOUS
  <2>2. kind \in Kinds /\ carrier \in Carriers /\ trap \in Traps \cup {None}
    BY DEF Inv, Shape, Plain, Fixed
  <2>3. \A file \in {disk.out, disk.restored} : file \in {None, Torn} \/ FileType(file)
    BY DEF Types, Held
  <2>4. pc # "idle" =>
           /\ job.op \in {"lock", "unlock"} /\ Len(m.layers) <= Len(m.order)
           /\ m.selftest \in {"not-run", "pass"}
    BY <2>1 DEF Plain, Types, Laid
  <2>5. pc \in {"transform", "apply", "verify"} => work.layer \in DOMAIN m.order
    <3>1. SUFFICES ASSUME pc \in {"transform", "apply", "verify"}
                   PROVE  work.layer \in DOMAIN m.order
      OBVIOUS
    <3>2. m.order \in Seq(Features) /\ work.layer \in 1 .. Len(m.order)
      BY <2>1, <3>1, AtFeature DEF Types, Laid, Planned
    <3> QED BY <3>2, LenProperties
  <2>6. pc = "unlock" => work.layer \in DOMAIN m.layers
    <3>1. SUFFICES ASSUME pc = "unlock" PROVE work.layer \in DOMAIN m.layers
      OBVIOUS
    <3>2. PICK S : m.layers \in Seq(S)
      BY <2>1, <3>1 DEF Types, Laid
    <3>3. work.layer \in 1 .. Len(m.layers)
      BY <2>1, <3>1 DEF Types, ReadBack
    <3> QED BY <3>2, <3>3, LenProperties
  <2> QED BY <2>1, <2>2, <2>3, <2>4, <2>5, <2>6 DEF TypeOK, Plain
<1> QED BY <1>1, SpecFixed, SpecInv, SpecTypes, PTL

(* A manifest that says its self-test passed is never followed by a mismatch,  *)
(* whatever was locked again, killed or edited in between (cmd_unlock).        *)
THEOREM ProvenIsNeverMismatch == Spec => []ProvenNeverMismatch
<1>1. Inv => ProvenNeverMismatch
  BY DEF Inv, AtIntegrity, Trusted, ProvenNeverMismatch
<1> QED BY <1>1, SpecInv, PTL

(* An output whose manifest was saved unlocks to the carrier, whether or not a *)
(* self-test ran: an audio file in every mode; a video in every mode with an   *)
(* encoder that stores what it is given, and in mode "substitute" with any     *)
(* that keeps the layout (core.lock, core.unlock, find_repairs,                *)
(* apply_repairs).                                                             *)
THEOREM SavedUnlocks == Spec => []UnlockRestores
<1>1. Inv => UnlockRestores
  <2> SUFFICES ASSUME Inv, pc = "integrity", Faithful(manifest.request.mode)
               PROVE  disk.restored = carrier
    BY DEF UnlockRestores, Faithful
  <2>1. kind \in {"video", "audio"}
    BY LockCoreAssumption DEF Inv, Shape
  <2>2. Trusted(manifest)
    BY <2>1 DEF Trusted, Sound
  <2> QED BY <2>2 DEF Inv, AtIntegrity
<1> QED BY <1>1, SpecInv, PTL

(* No saved manifest vouches for an output that is the plaintext, unless a     *)
(* copy was asked for (the copy check of core.lock).                           *)
THEOREM ShippedIsNoCopy == Spec => []ShippedIsScrambled
<1>1. Inv => ShippedIsScrambled
  BY DEF Inv, OnDisk, Saved, Vouched, ShippedIsScrambled
<1> QED BY <1>1, SpecInv, PTL

(* The tag of a saved manifest covers all of it as it was saved (sign, save).  *)
THEOREM SavedManifestVerifies == Spec => []SignedManifestVerifies
<1>1. Inv => SignedManifestVerifies
  BY DEF Inv, OnDisk, Saved, SignedManifestVerifies
<1> QED BY <1>1, SpecInv, PTL

(* A lock refused by the domain guard leaves the output path as it found it;   *)
(* one refused as a copy or by its self-test leaves nothing there (the scratch *)
(* files of core.lock, its os.remove).                                         *)
THEOREM RefusalLeavesNothing == Spec => RefusedLeavesNoOutput
<1> DEFINE
      Kept == job # None /\ job.op = "lock" /\ pc' = "idle" =>
                 /\ last'.why = "domain" => disk'.out = job.before
                 /\ last'.why \in {"noop", "selftest"} => disk'.out = None
<1>1. Init => OutUntouched /\ NoJob
  BY DEF Init, OutUntouched, NoJob
<1>2. Inv /\ OutUntouched /\ NoJob /\ [Next]_vars => [Kept]_vars
  <2> SUFFICES ASSUME Inv, OutUntouched, NoJob, Next, job # None, job.op = "lock", pc' = "idle"
               PROVE  /\ last'.why = "domain" => disk'.out = job.before
                      /\ last'.why \in {"noop", "selftest"} => disk'.out = None
    OBVIOUS
  <2>1. CASE LockTransform
    BY <2>1 DEF LockTransform, Done, OutUntouched
  <2>2. CASE LockAudio
    BY <2>2 DEF LockAudio, Done, OutUntouched
  <2>3. CASE LockDigest \/ SelfTestVerdict
    <3>1. disk' = Discarded
      BY <2>3 DEF LockDigest, SelfTestVerdict
    <3>2. last'.why \in {"noop", "selftest"}
      BY <2>3 DEF LockDigest, SelfTestVerdict, Done
    <3> QED BY <3>1, <3>2 DEF Discarded, Inv, Shape
  <2>4. CASE LockApply \/ LockVerify \/ SaveManifest \/ Crash \/ UnlockVideoLayer
    <3>1. last'.why \in {"ffedit", "geometry", "ok", "killed"}
      BY <2>4 DEF LockApply, LockVerify, SaveManifest, Crash, UnlockVideoLayer, Done
    <3> QED BY <3>1
  <2>5. CASE UnlockIntegrity
    <3>1. last'.why \in {"ok", "mismatch"}
      BY <2>5 DEF UnlockIntegrity, Done
    <3> QED BY <3>1
  <2>6. CASE \E k \in Keys : UnlockStart(k)
    BY <2>6 DEF UnlockStart, NoJob
  <2>7. CASE \/ SignAndOpen \/ UnlockAudio \/ EditManifest
             \/ \E k \in Keys, r \in Requests, o \in Orders : LockStart(k, r, o)
    <3>1. CASE EditManifest
      BY <3>1 DEF EditManifest, NoJob
    <3>2. CASE SignAndOpen \/ UnlockAudio
      <4>1. pc' \in {"save", "verdict", "integrity"}
        BY <3>2 DEF SignAndOpen, UnlockAudio
      <4> QED BY <4>1
    <3>3. CASE \E k \in Keys, r \in Requests, o \in Orders : LockStart(k, r, o)
      <4>1. pc' \in {"audio", "transform"}
        BY <3>3 DEF LockStart
      <4> QED BY <4>1
    <3> QED BY <2>7, <3>1, <3>2, <3>3
  <2> QED BY <2>1, <2>2, <2>3, <2>4, <2>5, <2>6, <2>7 DEF Next, Lock, Unlock
<1> QED BY <1>1, <1>2, SpecInv, OutUntouchedInv, NoJobInv, PTL DEF Spec, RefusedLeavesNoOutput
=============================================================================
