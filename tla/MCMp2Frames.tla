---------------------------- MODULE MCMp2Frames ----------------------------
(* Instances of Mp2Frames for TLC.                                          *)
EXTENDS Mp2Frames, TLC

\* Two mono formats, one too short for most scfsi, and a protected joint-stereo
\* one with a shared subband.
MCFormats == (0 :> [size |-> 6, channels |-> 1, sblimit |-> 1, bound |-> 1, protection |-> FALSE])
          @@ (1 :> [size |-> 8, channels |-> 1, sblimit |-> 1, bound |-> 1, protection |-> FALSE])
          @@ (2 :> [size |-> 12, channels |-> 2, sblimit |-> 2, bound |-> 1, protection |-> TRUE])

\* A grouped codeword, and samples one by one.
MCQuant == << [count |-> 1, span |-> 3], [count |-> 2, span |-> 2], [count |-> 3, span |-> 3] >>

MCPlans == {[samples |-> [k \in 1 .. 20 |-> (k * a + b) % 3],
             scalefactors |-> [k \in 1 .. 20 |-> (k + b) % 3]] : a, b \in 0 .. 1}

MCLayers == { <<"samples">>, <<"samples", "scalefactors">> }

\* Mono frames with every allocation, some of which do not fit or hold a value
\* outside its range, some with a header inside.
Rest == { <<0, 1, 2, 0>>, <<2, 2, 1, 1>>, <<1, Sync, 1, 0>>, <<1, 2, Sync, 1>> }
Mono == {<<Sync, 1, a, c>> \o r : a \in 0 .. 3, c \in {0, 2}, r \in Rest}

\* Stereo frames, the allocation of the shared subband included.
Joint == {<<Sync, 2, 0, a, b, c>> \o r : a, b, c \in 0 .. 2,
                                         r \in { <<2, 2, 1, 0, 1, 1>>, <<2, 0, 0, 1, 1, 0>> }}

\* A short frame, behind a header whose frame never comes.
Short == {j \o <<Sync, 0, a, c, 1, 1>> : j \in { <<>>, <<Sync, 2>> }, a \in 0 .. 2, c \in {0, 2}}

Junk == {<<>>, <<Sync>>, <<0, Sync>>, <<Sync, 1>>, <<Sync, 2>>}

\* Two frames; a stereo header before the second kind of pair is refused for an
\* allocation that lies in the first frame.
Pairs == {<<Sync, 1, 1, 0>> \o r \o <<Sync, 1, 1, 0, 2, 2, 1, 1>> : r \in { <<0, 1, 2, 0>>, <<1, 1, 2, 0>> }}

MCStreams == {j \o m \o k : j \in Junk, m \in Mono, k \in { <<>>, <<Sync, 2>> }}
             \cup {j \o f : j \in { <<>>, <<Sync>> }, f \in Joint}
             \cup {j \o p \o k : j, k \in Junk, p \in Pairs}
             \cup Short
=============================================================================
