----------------------------- MODULE MCLockCore -----------------------------
(* Instances of LockCore for TLC.                                           *)
EXTENDS LockCore, TLC

MCFeatures == {"mv", "q_sign"}

\* Two vector slots that share a domain of three values, and one sign.
MCSlots == [mv     |-> << [lo |-> -1, n |-> 3], [lo |-> -1, n |-> 3] >>,
            q_sign |-> << [lo |-> 0, n |-> 2] >>]

\* Distinct vectors, equal vectors, and a sign outside its domain.
MCCarriers == { [mv |-> <<-1, 1>>, q_sign |-> <<0>>],
                [mv |-> <<0, 0>>,  q_sign |-> <<1>>],
                [mv |-> <<1, 0>>,  q_sign |-> <<2>>] }

\* The first slot stores one value as another, or loses a slot over it.
MCTraps == { [feature |-> "mv", slot |-> 1, wrote |-> 1,  reads |-> -1],
             [feature |-> "mv", slot |-> 1, wrote |-> 0,  reads |-> 1],
             [feature |-> "mv", slot |-> 2, wrote |-> -1, reads |-> Reshape] }

MCOrders == { <<"mv">>, <<"mv", "q_sign">>, <<"mv", "mv">> }

MCRequests == {[mode |-> m, dense |-> d, selftest |-> s, allowNoop |-> n] :
                  m \in Mode, d \in BOOLEAN, s \in BOOLEAN, n \in {FALSE}}
              \cup {[mode |-> "permute", dense |-> TRUE, selftest |-> TRUE, allowNoop |-> TRUE]}

\* Locking again: substitution of one feature, with and without the self-test,
\* or of two, the second of which may be refused.
MCAgain == LET Dense(s) == [mode |-> "substitute", dense |-> TRUE, selftest |-> s,
                            allowNoop |-> FALSE]
           IN  {<<Dense(TRUE), <<"mv">> >>, <<Dense(FALSE), <<"mv">> >>,
                <<Dense(FALSE), <<"mv", "q_sign">> >>}

\* A key is used as a key only.
Symmetry == Permutations(Keys)
=============================================================================
