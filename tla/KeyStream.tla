----------------------------- MODULE KeyStream -----------------------------
(***************************************************************************)
(* KeyStream of src/glitchlock/crypto.py: a counter-mode stream of pseudo-   *)
(* random blocks, read a few bytes at a time.  The hash is left out: byte    *)
(* `at` of block `block` stands for itself, so what the model shows is which *)
(* byte of the stream each read is given.                                   *)
(***************************************************************************)
EXTENDS Integers, Sequences

CONSTANTS BlockLen,      \* bytes in a block (32 in the code)
          MaxRead,       \* bound: bytes asked for at once
          MaxHanded      \* bound: bytes handed out before the model stops

ASSUME KeyStreamAssumption ==
    BlockLen \in Nat \ {0} /\ MaxRead \in Nat \ {0} /\ MaxHanded \in Nat

VARIABLES counter,       \* the number of the next block
          len, pos,      \* the length of _buf, and how much of it is used
          want,          \* bytes the running read still owes, 0 between reads
          handed         \* history: every byte handed out, in order

vars == <<counter, len, pos, want, handed>>

Init == counter = 0 /\ len = 0 /\ pos = 0 /\ want = 0 /\ handed = <<>>

\* The n bytes of the buffer from pos on.  _buf is the block before counter.
Buffered(n) == [i \in 1 .. n |-> [block |-> counter - 1, at |-> pos + i - 1]]

\* The draw fits in the current block.
ReadFast(count) ==
    /\ want = 0 /\ pos + count <= len
    /\ handed' = handed \o Buffered(count)
    /\ pos' = pos + count
    /\ UNCHANGED <<counter, len, want>>

\* Mutant: a read that does not fit throws the rest of the block away.
ReadSlowDiscards(count) ==
    /\ want = 0 /\ pos + count > len
    /\ want' = count
    /\ pos' = len
    /\ UNCHANGED <<counter, len, handed>>

ReadSlow(count) ==
    /\ want = 0 /\ pos + count > len
    /\ want' = count
    /\ UNCHANGED <<counter, len, pos, handed>>

\* One round of the loop: refill an exhausted buffer, then take what it has.
Refill ==
    /\ want > 0 /\ pos >= len
    /\ counter' = counter + 1
    /\ len' = BlockLen
    /\ pos' = 0
    /\ UNCHANGED <<want, handed>>

Take ==
    /\ want > 0 /\ pos < len
    /\ LET take == IF want < len - pos THEN want ELSE len - pos
       IN /\ handed' = handed \o Buffered(take)
          /\ pos' = pos + take
          /\ want' = want - take
    /\ UNCHANGED <<counter, len>>

Next == \/ \E count \in 1 .. MaxRead :
              Len(handed) + count <= MaxHanded /\ (ReadFast(count) \/ ReadSlow(count))
        \/ Refill \/ Take

Spec == Init /\ [][Next]_vars

-----------------------------------------------------------------------------
(* Properties of the stream.                                                *)

\* Every variable holds a value the program can put there.
TypeOK ==
    /\ counter \in Nat /\ len \in {0, BlockLen} /\ pos \in 0 .. len
    /\ want \in 0 .. MaxRead
    /\ handed \in Seq([block : Nat, at : 0 .. BlockLen - 1])

Follows(a, b) == \/ b.block = a.block /\ b.at = a.at + 1
                 \/ a.at = BlockLen - 1 /\ b = [block |-> a.block + 1, at |-> 0]

\* Reads of any sizes are given consecutive bytes of the stream from its first:
\* none is given twice, none is skipped at a block boundary.
ReadsAreContiguous ==
    /\ handed # <<>> => handed[1] = [block |-> 0, at |-> 0]
    /\ \A i \in 1 .. Len(handed) - 1 : Follows(handed[i], handed[i + 1])
=============================================================================
