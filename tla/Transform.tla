----------------------------- MODULE Transform -----------------------------
(***************************************************************************)
(* The reversible transform of one frame (src/glitchlock/transform.py) over *)
(* the value domains of src/glitchlock/domains.py.                          *)
(*                                                                         *)
(* A frame's slots are a sequence of domains in canonical order, and its    *)
(* values a function from slot positions to integers.  The keystream        *)
(* enters only through the plan it produces: Plans is the set of the plans  *)
(* plan_frame can return over all keys, nonces and labels.                  *)
(***************************************************************************)
EXTENDS Integers, Sequences, Functions

Mode == {"full", "substitute", "permute"}

\* A domain is the integers lo .. lo + n - 1.
Domain == [lo : Int, n : Nat \ {0}]

CheckInDomain(v, d) == d.lo <= v /\ v < d.lo + d.n

AllInDomain(slots, vals) == \A i \in DOMAIN slots : CheckInDomain(vals[i], slots[i])

-----------------------------------------------------------------------------
(* The plan of one frame: the slots it selects, an offset for each of them,  *)
(* and for each the selected slot of the same domain its value comes from.   *)

\* intensity >= 1.0 selects everything without a draw; below it, one draw a slot.
Selections(slots, dense) == IF dense THEN {DOMAIN slots} ELSE SUBSET DOMAIN slots

Residues(slots) == UNION {0 .. slots[i].n - 1 : i \in DOMAIN slots}

\* Mode "permute" leaves the offset list empty, which substitutes nothing.
OffsetChoices(slots, sel, mode) ==
    IF mode \in {"full", "substitute"}
    THEN {o \in [sel -> Residues(slots)] : \A i \in sel : o[i] < slots[i].n}
    ELSE {[i \in sel |-> 0]}

\* The buckets' permutations taken together: dst[i] = src[source[i]], and a
\* bucket holds slots of one domain only.
SourceChoices(slots, sel, mode) ==
    IF mode \in {"full", "permute"}
    THEN {p \in Bijection(sel, sel) : \A i \in sel : slots[p[i]] = slots[i]}
    ELSE {[i \in sel |-> i]}

Plans(slots, mode, dense) ==
    UNION {[selected : {sel},
            offsets  : OffsetChoices(slots, sel, mode),
            source   : SourceChoices(slots, sel, mode)] : sel \in Selections(slots, dense)}

-----------------------------------------------------------------------------
Shift(v, d, k) == d.lo + (((v - d.lo) + k) % d.n)

Substitute(slots, plan, sign, vals) ==
    [i \in DOMAIN slots |-> IF i \in plan.selected
                            THEN Shift(vals[i], slots[i], sign * plan.offsets[i])
                            ELSE vals[i]]

Permute(slots, plan, vals) ==
    [i \in DOMAIN slots |-> IF i \in plan.selected THEN vals[plan.source[i]] ELSE vals[i]]

InvertPermutation(perm) == [j \in DOMAIN perm |-> CHOOSE i \in DOMAIN perm : perm[i] = j]

Unpermute(slots, plan, vals) ==
    [i \in DOMAIN slots |-> IF i \in plan.selected
                            THEN vals[InvertPermutation(plan.source)[i]]
                            ELSE vals[i]]

\* apply_plan: lock substitutes then permutes, unlock undoes them in reverse.
ApplyForward(slots, plan, vals) == Permute(slots, plan, Substitute(slots, plan, 1, vals))

ApplyBackward(slots, plan, vals) == Substitute(slots, plan, -1, Unpermute(slots, plan, vals))

-----------------------------------------------------------------------------
(* Repairs: what the re-exported frame says the encoder did not reproduce,   *)
(* each address mapped to the plaintext value found there before the lock.   *)

\* Mutant: the value the lock meant to write is recorded.
FindRepairsIntended(actual, intended, before) ==
    [i \in {j \in DOMAIN before : actual[j] # intended[j]} |-> intended[i]]

FindRepairs(actual, intended, before) ==
    [i \in {j \in DOMAIN before : actual[j] # intended[j]} |-> before[i]]

ApplyRepairs(vals, repairs) ==
    [i \in DOMAIN vals |-> IF i \in DOMAIN repairs THEN repairs[i] ELSE vals[i]]
=============================================================================
