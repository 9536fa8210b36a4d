--------------------------- MODULE StreamPipeline ---------------------------
(***************************************************************************)
(* run_stream of src/glitchlock/stream.py: one thread reads pieces, hands    *)
(* them to a thread pool and writes the results; it keeps the futures in a   *)
(* deque and takes the oldest out when 2 x workers are in flight.           *)
(*                                                                         *)
(* Pieces are 1 .. N in arrival order.  What happens to a piece in the pool  *)
(* is settled by the piece: its lock or unlock succeeds, raises LockError    *)
(* (a partial GOP, a repair a stream cannot carry) or another exception      *)
(* (FFglitchError).  The pool is the library's: a FIFO of tasks, at most     *)
(* max(1, workers) of them running, and a shutdown that waits for them all.  *)
(***************************************************************************)
EXTENDS Naturals, Sequences, FiniteSets

CONSTANTS N,             \* pieces the input holds
          Workers,       \* the --workers option, 0 included
          FaultyIO       \* whether reading src or writing dst may fail

ASSUME StreamPipelineAssumption ==
    N \in Nat /\ Workers \in Nat /\ FaultyIO \in BOOLEAN

Fates == {"ok", "LockError", "FFglitchError"}
PoolSize == IF Workers < 1 THEN 1 ELSE Workers
Limit == PoolSize * 2

VARIABLES fate,          \* fate[p]: how work on piece p ends
          pc,            \* where the main thread is
          number,        \* the next piece to submit
          eof,           \* the input has ended
          pending,       \* deque of the pieces submitted and not taken out
          taken,         \* the piece whose future is awaited, or 0
          queue,         \* the pool's tasks not begun, oldest first
          running,       \* the pieces being worked on
          finished,      \* the pieces whose future has an outcome
          written,       \* the pieces written to dst, in order
          outcome        \* how run_stream ends, "none" until it is known

mainVars == <<pc, number, eof, pending, taken, written, outcome>>
poolVars == <<queue, running, finished>>
vars == <<fate, mainVars, poolVars>>

Init ==
    /\ fate \in [1 .. N -> Fates]
    /\ pc = "read" /\ number = 1 /\ eof = FALSE
    /\ pending = <<>> /\ taken = 0
    /\ queue = <<>> /\ running = {} /\ finished = {}
    /\ written = <<>> /\ outcome = "none"

-----------------------------------------------------------------------------
(* The main thread.                                                         *)

\* An exception leaves the with block, which joins the pool on the way.
Raise(what) == outcome' = what /\ pc' = "join"

\* Mutant: the reader gives one piece too many.
ReadPieceTooMany ==
    /\ pc = "read" /\ number <= N + 1
    /\ pc' = "drain"
    /\ UNCHANGED <<fate, number, eof, pending, taken, written, outcome, poolVars>>

ReadPiece ==
    /\ pc = "read" /\ number <= N
    /\ pc' = "drain"
    /\ UNCHANGED <<fate, number, eof, pending, taken, written, outcome, poolVars>>

ReadEnd ==
    /\ pc = "read" /\ number > N
    /\ eof' = TRUE
    /\ pc' = "finish"
    /\ UNCHANGED <<fate, number, pending, taken, written, outcome, poolVars>>

ReadFails ==
    /\ FaultyIO /\ pc = "read"
    /\ Raise("source failed")
    /\ UNCHANGED <<fate, number, eof, pending, taken, written, poolVars>>

\* Mutant: one piece more than the limit is let in.
FullLate == Len(pending) > Limit

Full == Len(pending) >= Limit

\* Mutant: the newest future is awaited (pop for popleft).
TakeNewest ==
    /\ taken' = pending[Len(pending)]
    /\ pending' = SubSeq(pending, 1, Len(pending) - 1)
    /\ pc' = "await"
    /\ UNCHANGED <<fate, number, eof, written, outcome, poolVars>>

Take ==
    /\ taken' = Head(pending)
    /\ pending' = Tail(pending)
    /\ pc' = "await"
    /\ UNCHANGED <<fate, number, eof, written, outcome, poolVars>>

\* drain(one=len(pending) >= limit), with the new piece in hand.
DrainOne == pc = "drain" /\ Full /\ Take

DrainNone ==
    /\ pc = "drain" /\ ~Full
    /\ pc' = "submit"
    /\ UNCHANGED <<fate, number, eof, pending, taken, written, outcome, poolVars>>

Resolved == pc = "await" /\ taken \in finished

PieceWritten ==
    /\ Resolved /\ fate[taken] = "ok"
    /\ written' = Append(written, taken)
    /\ taken' = 0
    /\ pc' = IF eof THEN "finish" ELSE "submit"
    /\ UNCHANGED <<fate, number, eof, pending, outcome, poolVars>>

WriteFails ==
    /\ FaultyIO /\ Resolved /\ fate[taken] = "ok"
    /\ Raise("write failed")
    /\ UNCHANGED <<fate, number, eof, pending, taken, written, poolVars>>

\* Mutant: the end of the input is taken for the last piece.
IsFinalPieceAtEof == eof

IsFinalPiece == pending = <<>> /\ eof

\* Mutant: a failed piece is left out and the loop goes on.
PieceFailsSkipped ==
    /\ Resolved /\ fate[taken] # "ok"
    /\ taken' = 0
    /\ pc' = IF eof THEN "finish" ELSE "submit"
    /\ UNCHANGED <<fate, number, eof, pending, written, outcome, poolVars>>

PieceFails ==
    /\ Resolved /\ fate[taken] # "ok"
    /\ Raise(IF fate[taken] = "LockError" /\ IsFinalPiece THEN "final piece" ELSE fate[taken])
    /\ UNCHANGED <<fate, number, eof, pending, taken, written, poolVars>>

Submit ==
    /\ pc = "submit"
    /\ queue' = Append(queue, number)
    /\ pending' = Append(pending, number)
    /\ number' = number + 1
    /\ pc' = "read"
    /\ UNCHANGED <<fate, eof, taken, written, outcome, running, finished>>

FinishOne == pc = "finish" /\ pending # <<>> /\ Take

FinishNone ==
    /\ pc = "finish" /\ pending = <<>>
    /\ pc' = "join"
    /\ UNCHANGED <<fate, number, eof, pending, taken, written, outcome, poolVars>>

\* shutdown(wait=True): tasks still queued are run, not cancelled.
PoolIdle == queue = <<>> /\ running = {}

\* Mutant: the pool is left without waiting for it.
JoinAtOnce ==
    /\ pc = "join"
    /\ pc' = IF outcome = "none" THEN "flush" ELSE "done"
    /\ UNCHANGED <<fate, number, eof, pending, taken, written, outcome, poolVars>>

Join ==
    /\ pc = "join" /\ PoolIdle
    /\ pc' = IF outcome = "none" THEN "flush" ELSE "done"
    /\ UNCHANGED <<fate, number, eof, pending, taken, written, outcome, poolVars>>

Flush ==
    /\ pc = "flush"
    /\ outcome' \in {"ok"} \cup (IF FaultyIO THEN {"write failed"} ELSE {})
    /\ pc' = "done"
    /\ UNCHANGED <<fate, number, eof, pending, taken, written, poolVars>>

Main == \/ ReadPiece \/ ReadEnd \/ ReadFails \/ DrainOne \/ DrainNone
        \/ PieceWritten \/ WriteFails \/ PieceFails \/ Submit
        \/ FinishOne \/ FinishNone \/ Join \/ Flush

-----------------------------------------------------------------------------
(* The pool.                                                                *)

StartWork ==
    /\ queue # <<>> /\ Cardinality(running) < PoolSize
    /\ running' = running \cup {Head(queue)}
    /\ queue' = Tail(queue)
    /\ UNCHANGED <<fate, mainVars, finished>>

\* Mutant: a piece that fails is tried again.
EndWorkRetried(p) ==
    /\ p \in running
    /\ running' = running \ {p}
    /\ IF fate[p] = "ok"
       THEN finished' = finished \cup {p} /\ queue' = queue
       ELSE finished' = finished /\ queue' = Append(queue, p)
    /\ UNCHANGED <<fate, mainVars>>

EndWork(p) ==
    /\ p \in running
    /\ running' = running \ {p}
    /\ finished' = finished \cup {p}
    /\ UNCHANGED <<fate, mainVars, queue>>

Pool == StartWork \/ \E p \in 1 .. N : EndWork(p)

Terminated == pc = "done" /\ UNCHANGED vars

Next == Main \/ Pool \/ Terminated

\* The main thread keeps running, and FFedit ends on every piece it is given.
\* A source that neither gives a piece nor ends would leave ReadPiece and
\* ReadEnd untaken: the fairness of Main says that the input does end.
Fairness == /\ WF_vars(Main)
            /\ WF_vars(StartWork)
            /\ \A p \in 1 .. N : WF_vars(EndWork(p))

Spec == Init /\ [][Next]_vars
FairSpec == Spec /\ Fairness

-----------------------------------------------------------------------------
(* Properties.                                                              *)

Outcomes == Fates \cup {"none", "final piece", "source failed", "write failed"}

\* Every variable holds a value the program can put there.
TypeOK ==
    /\ fate \in [1 .. N -> Fates]
    /\ pc \in {"read", "drain", "await", "submit", "finish", "join", "flush", "done"}
    /\ number \in 1 .. N + 1 /\ eof \in BOOLEAN /\ taken \in 0 .. N
    /\ pending \in Seq(1 .. N) /\ queue \in Seq(1 .. N) /\ written \in Seq(1 .. N)
    /\ running \subseteq 1 .. N /\ finished \subseteq 1 .. N
    /\ outcome \in Outcomes

\* Whatever order the pool finishes in, the output is the pieces in arrival
\* order, each once, with none skipped ("written strictly in arrival order").
WrittenInOrder == \A i \in 1 .. Len(written) : written[i] = i

\* Pieces read and not yet written never exceed twice the workers, the awaited
\* one included ("no more than twice workers are in flight").
InFlightBounded == number - 1 - Len(written) <= Limit

\* A failure is reported of the first piece that fails, all before it are out
\* and none after it is.
FailureIsFirst ==
    outcome \in {"LockError", "FFglitchError", "final piece"} =>
        /\ Len(written) < N
        /\ fate[Len(written) + 1] # "ok"
        /\ \A p \in 1 .. Len(written) : fate[p] = "ok"

\* The message "This is the final piece ... everything before it was written"
\* goes with a LockError of the last piece and with no other, and is then true.
FinalPieceIsLast ==
    outcome \in {"LockError", "final piece"} =>
        (outcome = "final piece" <=> Len(written) = N - 1)

\* What run_stream says when it raises is true: which piece failed, that all
\* before it were written, and whether it was the last one.
FailureIsReported == FailureIsFirst /\ FinalPieceIsLast

\* Success means the whole stream was written; when run_stream has returned or
\* raised, no task it started is still running.
ReturnIsClean ==
    /\ outcome = "ok" => Len(written) = N
    /\ pc = "done" => PoolIdle

\* run_stream ends on every finite input, whatever fails: the deque never waits
\* on a piece the pool will not run.
Terminates == <>(pc = "done")

Pipe == INSTANCE OrderedPipe WITH
            out <- written,
            status <- IF outcome = "none" THEN "open"
                      ELSE IF outcome = "ok" THEN "complete" ELSE "broken"

\* The pipeline implements the promise of OrderedPipe.
ImplementsOrderedPipe == Pipe!Spec
=============================================================================
