---------------------------- MODULE OrderedPipe ----------------------------
(***************************************************************************)
(* What src/glitchlock/stream.py promises of run_stream: the pieces of the  *)
(* stream come out one after the other, each once, and when something goes  *)
(* wrong what has come out is a prefix.  Who works on which piece, and how   *)
(* far ahead, is not part of the promise.                                   *)
(***************************************************************************)
EXTENDS Naturals, Sequences

CONSTANT N               \* pieces in the input

VARIABLES out,           \* the pieces written, by number
          status         \* "open", "complete" or "broken"

vars == <<out, status>>

Init == out = <<>> /\ status = "open"

Emit == /\ status = "open" /\ Len(out) < N
        /\ out' = Append(out, Len(out) + 1)
        /\ UNCHANGED status

Complete == /\ status = "open" /\ Len(out) = N
            /\ status' = "complete"
            /\ UNCHANGED out

Break == /\ status = "open"
         /\ status' = "broken"
         /\ UNCHANGED out

Next == Emit \/ Complete \/ Break

Spec == Init /\ [][Next]_vars
=============================================================================
