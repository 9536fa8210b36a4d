------------------------------- MODULE Draws -------------------------------
(***************************************************************************)
(* The integers drawn from a keystream (src/glitchlock/crypto.py):            *)
(* randbelow by rejection, and the Fisher-Yates shuffle permutation draws     *)
(* with it.  A plan's selection and offsets are drawn first, so a shuffle     *)
(* may begin anywhere in a block.  Transform takes from here that a plan's    *)
(* permutations can be any.                                                 *)
(***************************************************************************)
EXTENDS KeyStream, FiniteSets

CONSTANTS ByteBits,      \* bits in a byte of keystream (8 in the code)
          MaxSize        \* bound: the largest list shuffled

VARIABLES pc,            \* "plan": earlier draws; "ask" or "read": shuffling
          size,          \* the length of the list being shuffled
          i,             \* the loop's index, from size - 1 down to 0 when done
          perm,          \* the list: a function on 0 .. size - 1
          draws          \* history: the integers drawn

shuffle == <<size, i, perm, draws>>
drawVars == <<vars, pc, shuffle>>

-----------------------------------------------------------------------------
(* randbelow(n): mask enough bytes to the bits of n - 1, reject n and above. *)

\* Two to the power of k.
Pow2(k) == LET p[n \in 0 .. k] == IF n = 0 THEN 1 ELSE 2 * p[n - 1] IN p[k]

BitLength(n) == CHOOSE k \in 0 .. n : Pow2(k) > n /\ \A j \in 0 .. k - 1 : Pow2(j) <= n

Bits(n) == BitLength(n - 1)

NBytes(n) == (Bits(n) + ByteBits - 1) \div ByteBits

\* What nbytes bytes of keystream may spell.
Words(n) == 0 .. Pow2(ByteBits * NBytes(n)) - 1

Masked(n, word) == word % Pow2(Bits(n))

Accepted(n, value) == value < n

\* A read may be as long as the longest list needs.
ASSUME DrawsAssumption ==
    /\ ByteBits \in Nat \ {0} /\ MaxSize \in Nat
    /\ \A n \in 2 .. MaxSize : NBytes(n) <= MaxRead

-----------------------------------------------------------------------------
(* permutation(size).                                                       *)

\* Mutant: half a swap.
SwapHalf(f, a, b) == [f EXCEPT ![a] = f[b]]

Swap(f, a, b) == [f EXCEPT ![a] = f[b], ![b] = f[a]]

\* Mutant: no element may stay where it is.
DrawBoundTooSmall(idx) == idx

\* randbelow(i + 1): the element may stay where it is.
DrawBound(idx) == idx + 1

DrawInit ==
    /\ Init
    /\ pc = "plan"
    /\ size \in 0 .. MaxSize
    /\ i = IF size > 0 THEN size - 1 ELSE 0
    /\ perm = [k \in 0 .. size - 1 |-> k]
    /\ draws = <<>>

\* The selection and the offsets of the plan.
EarlierDraw == pc = "plan" /\ Next /\ UNCHANGED <<pc, shuffle>>

Begin == pc = "plan" /\ want = 0 /\ pc' = "ask" /\ UNCHANGED <<vars, shuffle>>

Ask ==
    /\ pc = "ask" /\ i > 0
    /\ LET nbytes == NBytes(DrawBound(i))
       IN  /\ Len(handed) + nbytes <= MaxHanded
           /\ ReadFast(nbytes) \/ ReadSlow(nbytes)
    /\ pc' = "read"
    /\ UNCHANGED shuffle

Fill == pc = "read" /\ (Refill \/ Take) /\ UNCHANGED <<pc, shuffle>>

Draw(word) ==
    LET j == Masked(DrawBound(i), word)
    IN  /\ pc = "read" /\ want = 0
        /\ Accepted(DrawBound(i), j)
        /\ perm' = Swap(perm, i, j)
        /\ draws' = Append(draws, j)
        /\ i' = i - 1
        /\ pc' = "ask"
        /\ UNCHANGED <<vars, size>>

\* The word is thrown away and the loop of randbelow reads another.
Reject(word) ==
    /\ pc = "read" /\ want = 0
    /\ ~Accepted(DrawBound(i), Masked(DrawBound(i), word))
    /\ pc' = "ask"
    /\ UNCHANGED <<vars, shuffle>>

DrawNext ==
    \/ EarlierDraw \/ Begin \/ Ask \/ Fill
    \/ i > 0 /\ \E word \in Words(DrawBound(i)) : Draw(word) \/ Reject(word)

DrawSpec == DrawInit /\ [][DrawNext]_drawVars

-----------------------------------------------------------------------------
(* Properties.                                                              *)

Done == i = 0

\* The shuffle as a function of the integers it draws, the first at size - 1.
ShuffleOf(ds) ==
    LET after[k \in 0 .. Len(ds)] ==
            IF k = 0 THEN [x \in 0 .. size - 1 |-> x]
            ELSE Swap(after[k - 1], size - k, ds[k])
    IN  after[Len(ds)]

DrawSequences ==
    {ds \in [1 .. size - 1 -> 0 .. size] : \A k \in 1 .. size - 1 : ds[k] < DrawBound(size - k)}

IsArrangement(f) == \A a, b \in DOMAIN f : f[a] = f[b] => a = b

Arrangements == {f \in [0 .. size - 1 -> 0 .. size - 1] : IsArrangement(f)}

\* The keystream's variables and the shuffle's hold values the program can put
\* there; the list is an arrangement at every step.
DrawTypeOK ==
    /\ TypeOK
    /\ pc \in {"plan", "ask", "read"}
    /\ size \in 0 .. MaxSize /\ i \in 0 .. size
    /\ perm \in [0 .. size - 1 -> 0 .. size - 1] /\ IsArrangement(perm)
    /\ draws \in Seq(0 .. size)

\* randbelow has no modulo bias: each value below n is what the same number of
\* words give, and more than half of the words are accepted.
BelowIsUniform ==
    \A n \in 2 .. size :
        LET For(v) == {w \in Words(n) : Masked(n, w) = v}
        IN  /\ \A v \in 0 .. n - 1 : Cardinality(For(v)) = Cardinality(For(0))
            /\ 2 * n * Cardinality(For(0)) > Cardinality(Words(n))

\* Each permutation of the list is what exactly one sequence of draws gives, so
\* equally likely draws make every permutation equally likely.
ShuffleIsUniform ==
    Done => /\ {ds \in DrawSequences : ShuffleOf(ds) = perm} = {draws}
            /\ Cardinality(DrawSequences) = Cardinality(Arrangements)

\* With a uniform keystream the shuffle is uniform: its draws are, and so is
\* what it makes of them.
DrawsAreUniform == BelowIsUniform /\ ShuffleIsUniform
=============================================================================
