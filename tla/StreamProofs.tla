---------------------------- MODULE StreamProofs ----------------------------
(***************************************************************************)
(* Proofs about the two parts of stream.py: run_stream (StreamPipeline), for *)
(* every number of pieces and of workers, and the splitter that feeds it     *)
(* (SegmentReader), for every stream, every marker and every cut.            *)
(*                                                                         *)
(* The pipeline's properties follow from one inductive invariant, Inv.  Its  *)
(* heart is DequeIsRun: the deque holds exactly the consecutive pieces       *)
(* between the one last written (or awaited) and the one next submitted.     *)
(* None of the properties is inductive without it: that the next piece       *)
(* written is the right one depends on what is still in the deque.          *)
(*                                                                         *)
(* The splitter's follow from ReaderInv, which says what the buffer is as a   *)
(* function of the bytes fed: the tail of the stream from the last marker,   *)
(* or, before the first, as much of it as could begin one.                  *)
(***************************************************************************)
EXTENDS StreamPipeline, SegmentReader, DataInduction

Awaited == IF taken = 0 THEN 0 ELSE 1

DequeIsRun ==
    /\ Len(pending) = number - 1 - (Len(written) + Awaited)
    /\ \A i \in 1 .. Len(pending) : pending[i] = Len(written) + Awaited + i

TakenIsNext == taken # 0 => /\ taken = Len(written) + 1
                            /\ Len(pending) < Limit

WrittenWereOk == \A i \in 1 .. Len(written) : written[i] = i /\ fate[i] = "ok"

\* What each place of the main thread says of the rest of its state.
AtPlace ==
    /\ pc \in {"read", "drain", "submit"} => ~eof /\ taken = 0 /\ outcome = "none"
    /\ pc \in {"drain", "submit"} => number <= N
    /\ pc = "submit" => Len(pending) < Limit
    /\ pc = "await" => taken # 0 /\ outcome = "none"
    /\ taken # 0 /\ ~eof => number <= N
    /\ pc = "finish" => eof /\ taken = 0 /\ outcome = "none"
    /\ pc = "flush" => outcome = "none"
    /\ pc \in {"join", "flush"} /\ outcome = "none" => eof /\ taken = 0 /\ pending = <<>>
    /\ pc \in {"flush", "done"} => PoolIdle
    /\ eof => number = N + 1
    /\ Len(pending) <= Limit

AtOutcome ==
    /\ outcome # "none" => pc \in {"join", "done"}
    /\ outcome = "ok" => eof /\ taken = 0 /\ pending = <<>>
    /\ outcome \in {"LockError", "FFglitchError", "final piece"} =>
          taken # 0 /\ fate[taken] # "ok"
    /\ outcome = "final piece" => IsFinalPiece
    /\ outcome = "LockError" => ~IsFinalPiece

Inv == TypeOK /\ DequeIsRun /\ TakenIsNext /\ WrittenWereOk /\ AtPlace /\ AtOutcome

-----------------------------------------------------------------------------
\* The bound on the deque is a positive number.
LEMMA LimitFact == Limit \in Nat /\ Limit >= 2
BY StreamPipelineAssumption, SMT DEF Limit, PoolSize

\* The empty sequence has length 0, as a fact the SMT leaves can cite.
LEMMA EmptyFact == \A s : s = <<>> => Len(s) = 0
OBVIOUS

\* What taking the oldest element out of a sequence leaves.
LEMMA TailFacts ==
    ASSUME NEW S, NEW s \in Seq(S), s # <<>>
    PROVE  /\ Len(s) \in Nat /\ Len(s) >= 1
           /\ Head(s) \in S /\ Head(s) = s[1]
           /\ Tail(s) \in Seq(S) /\ Len(Tail(s)) = Len(s) - 1
           /\ \A i \in 1 .. Len(s) - 1 : Tail(s)[i] = s[i + 1]
OBVIOUS

\* The initial states satisfy the invariant.
LEMMA InitInv == Init => Inv
<1> SUFFICES ASSUME Init PROVE Inv
    OBVIOUS
<1>1. TypeOK
  <2>1. pending \in Seq(1 .. N) /\ queue \in Seq(1 .. N) /\ written \in Seq(1 .. N)
      BY DEF Init
  <2>2. number \in 1 .. N + 1 /\ taken \in 0 .. N BY StreamPipelineAssumption DEF Init
  <2> QED BY <2>1, <2>2 DEF Init, TypeOK, Outcomes
<1>2. Len(pending) = 0 /\ Len(written) = 0 BY EmptyFact DEF Init
<1>3. DequeIsRun
  <2>1. number = 1 /\ Awaited = 0 BY DEF Init, Awaited
  <2> QED BY <1>2, <2>1 DEF DequeIsRun
<1>4. TakenIsNext /\ WrittenWereOk BY <1>2 DEF Init, TakenIsNext, WrittenWereOk
<1>5. AtPlace /\ AtOutcome BY <1>2, LimitFact DEF Init, AtPlace, AtOutcome
<1> QED BY <1>1, <1>3, <1>4, <1>5 DEF Inv

\* Taking the oldest piece out, which two actions do at different times.
LEMMA TakeInv ==
    ASSUME Inv, Take, pending # <<>>, pc \in {"drain", "finish"}
    PROVE  Inv'
<1> USE StreamPipelineAssumption, LimitFact
<1> USE DEF Inv, Take, poolVars
<1>1. /\ Len(pending) \in Nat /\ Len(pending) >= 1
      /\ Head(pending) \in 1 .. N /\ Head(pending) = pending[1]
      /\ Tail(pending) \in Seq(1 .. N) /\ Len(Tail(pending)) = Len(pending) - 1
      /\ \A i \in 1 .. Len(pending) - 1 : Tail(pending)[i] = pending[i + 1]
    BY TailFacts DEF TypeOK
<1>2. /\ written \in Seq(1 .. N) /\ Len(written) \in Nat /\ number \in Nat
      /\ taken = 0 /\ outcome = "none" /\ (~eof => number <= N)
    BY DEF TypeOK, AtPlace
<1>3. TypeOK' BY <1>1 DEF TypeOK
<1>4. /\ taken' = Len(written) + 1 /\ taken' # 0
      /\ Len(pending') < Limit
    BY <1>1, <1>2 DEF DequeIsRun, Awaited, AtPlace
<1>5. DequeIsRun' BY <1>1, <1>2, <1>4 DEF DequeIsRun, Awaited
<1>6. TakenIsNext' /\ WrittenWereOk' BY <1>4 DEF TakenIsNext, WrittenWereOk
<1>7. AtPlace' BY <1>1, <1>2, <1>4 DEF AtPlace
<1>8. AtOutcome' BY <1>2 DEF AtOutcome
<1> QED BY <1>3, <1>5, <1>6, <1>7, <1>8

\* The pool's steps leave the main thread's state alone.
LEMMA PoolInv ==
    ASSUME Inv, Pool
    PROVE  Inv'
<1> USE DEF Inv
<1>1. UNCHANGED <<fate, mainVars>> BY DEF Pool, StartWork, EndWork
<1>2. TypeOK'
  <2>1. CASE StartWork
    <3>1. Head(queue) \in 1 .. N /\ Tail(queue) \in Seq(1 .. N)
        BY <2>1, TailFacts DEF StartWork, TypeOK
    <3> QED BY <2>1, <3>1 DEF StartWork, TypeOK, mainVars
  <2>2. CASE \E p \in 1 .. N : EndWork(p)
        BY <2>2 DEF EndWork, TypeOK, mainVars
  <2> QED BY <2>1, <2>2 DEF Pool
<1>3. ~PoolIdle BY DEF Pool, StartWork, EndWork, PoolIdle
<1>4. DequeIsRun' /\ TakenIsNext' /\ WrittenWereOk'
    BY <1>1 DEF DequeIsRun, TakenIsNext, WrittenWereOk, Awaited, mainVars
<1>5. AtPlace' BY <1>1, <1>3 DEF AtPlace, mainVars
<1>6. AtOutcome' BY <1>1 DEF AtOutcome, IsFinalPiece, mainVars
<1> QED BY <1>2, <1>4, <1>5, <1>6

\* Every step keeps the invariant.
LEMMA StepInv == Inv /\ [Next]_vars => Inv'
<1> SUFFICES ASSUME Inv, [Next]_vars PROVE Inv'
    OBVIOUS
<1> USE StreamPipelineAssumption, LimitFact
<1>1. CASE DrainOne
  <2>1. pending # <<>> BY <1>1, SMT DEF DrainOne, Full, Inv, TypeOK
  <2> QED BY <1>1, <2>1, TakeInv DEF DrainOne
<1>2. CASE FinishOne BY <1>2, TakeInv DEF FinishOne
<1>3. CASE Pool BY <1>3, PoolInv
<1> USE DEF Inv, TypeOK, DequeIsRun, TakenIsNext, WrittenWereOk, AtPlace, AtOutcome,
            Awaited, PoolIdle, Outcomes, Fates, IsFinalPiece, poolVars
<1>4. CASE ReadPiece BY <1>4 DEF ReadPiece
<1>5. CASE ReadEnd BY <1>5 DEF ReadEnd
<1>6. CASE ReadFails BY <1>6 DEF ReadFails, Raise
<1>7. CASE DrainNone BY <1>7 DEF DrainNone, Full
<1>8. CASE PieceWritten
  <2>1. TypeOK' BY <1>8 DEF PieceWritten, Resolved
  <2>2. DequeIsRun' /\ TakenIsNext' BY <1>8 DEF PieceWritten, Resolved
  <2>3. WrittenWereOk' BY <1>8 DEF PieceWritten, Resolved
  <2>4. AtPlace' BY <1>8 DEF PieceWritten, Resolved
  <2>5. AtOutcome' BY <1>8 DEF PieceWritten, Resolved
  <2> QED BY ONLY <2>1, <2>2, <2>3, <2>4, <2>5 DEF Inv
<1>9. CASE WriteFails
  <2>1. TypeOK' BY <1>9 DEF WriteFails, Raise, Resolved
  <2>2. DequeIsRun' /\ TakenIsNext' /\ WrittenWereOk' BY <1>9 DEF WriteFails, Raise, Resolved
  <2>3. AtPlace' BY <1>9 DEF WriteFails, Raise, Resolved
  <2>4. AtOutcome' BY <1>9 DEF WriteFails, Raise, Resolved
  <2> QED BY ONLY <2>1, <2>2, <2>3, <2>4 DEF Inv
<1>10. CASE PieceFails
  <2>1. TypeOK' BY <1>10 DEF PieceFails, Raise, Resolved
  <2>2. DequeIsRun' /\ TakenIsNext' /\ WrittenWereOk' BY <1>10 DEF PieceFails, Raise, Resolved
  <2>3. AtPlace' BY <1>10 DEF PieceFails, Raise, Resolved
  <2>4. AtOutcome' BY <1>10 DEF PieceFails, Raise, Resolved
  <2> QED BY ONLY <2>1, <2>2, <2>3, <2>4 DEF Inv
<1>11. CASE Submit BY <1>11 DEF Submit
<1>12. CASE FinishNone BY <1>12 DEF FinishNone
<1>13. CASE Join BY <1>13 DEF Join
<1>14. CASE Flush BY <1>14 DEF Flush
<1>15. CASE UNCHANGED vars BY <1>15 DEF vars, mainVars
<1> QED BY <1>1, <1>2, <1>3, <1>4, <1>5, <1>6, <1>7, <1>8, <1>9, <1>10, <1>11,
           <1>12, <1>13, <1>14, <1>15 DEF Next, Main, Terminated

\* The pieces written, awaited and still in the deque are those submitted.
LEMMA LengthsAdd ==
    ASSUME Inv
    PROVE  /\ number \in Nat /\ Len(written) \in Nat /\ Len(pending) \in Nat
           /\ Len(written) + Awaited + Len(pending) = number - 1
<1>1. number \in Nat /\ Len(written) \in Nat /\ Len(pending) \in Nat /\ Awaited \in {0, 1}
    BY StreamPipelineAssumption DEF Inv, TypeOK, Awaited
<1> QED BY <1>1 DEF Inv, DequeIsRun

\* The strengthened invariant holds in every reachable state.
THEOREM Invariance == Spec => []Inv
<1>1. Init => Inv BY InitInv
<1>2. Inv /\ [Next]_vars => Inv' BY StepInv
<1> QED BY <1>1, <1>2, PTL DEF Spec

-----------------------------------------------------------------------------
\* Every variable of the pipeline keeps its type: in particular no piece beyond
\* the N-th is ever queued, awaited or written.
THEOREM TypeCorrect == Spec => []TypeOK
<1>1. Inv => TypeOK BY DEF Inv
<1> QED BY <1>1, Invariance, PTL

\* For any pieces, workers and order of completion: what is written is the
\* pieces in arrival order, each once.
THEOREM OrderIsKept == Spec => []WrittenInOrder
<1>1. Inv => WrittenInOrder BY DEF Inv, WrittenWereOk, WrittenInOrder
<1> QED BY <1>1, Invariance, PTL

\* No more than twice the workers are in flight, the awaited piece included.
THEOREM MemoryIsBounded == Spec => []InFlightBounded
<1>1. Inv => InFlightBounded
    BY LimitFact DEF Inv, TypeOK, DequeIsRun, TakenIsNext, AtPlace, Awaited, InFlightBounded
<1> QED BY <1>1, Invariance, PTL

\* The failure run_stream reports is that of the first piece that fails, with
\* exactly the pieces before it written.
THEOREM FirstFailureIsReported == Spec => []FailureIsFirst
<1>1. ASSUME Inv, taken # 0 PROVE taken = Len(written) + 1 /\ taken \in 1 .. N
    BY <1>1 DEF Inv, TypeOK, TakenIsNext
<1>2. ASSUME Inv PROVE /\ Len(written) \in Nat
                       /\ \A p \in 1 .. Len(written) : fate[p] = "ok"
    BY <1>2 DEF Inv, TypeOK, WrittenWereOk
<1>3. ASSUME Inv, outcome \in {"LockError", "FFglitchError", "final piece"}
      PROVE  taken # 0 /\ fate[taken] # "ok"
    BY <1>3 DEF Inv, AtOutcome
<1>4. ASSUME Inv, outcome \in {"LockError", "FFglitchError", "final piece"}
      PROVE  Len(written) < N /\ fate[Len(written) + 1] # "ok"
  <2>1. taken = Len(written) + 1 /\ taken \in 1 .. N BY <1>1, <1>3, <1>4
  <2>2. Len(written) \in Nat /\ fate[taken] # "ok" BY <1>2, <1>3, <1>4
  <2>3. Len(written) < N BY <2>1, <2>2, StreamPipelineAssumption
  <2>4. fate[Len(written) + 1] # "ok" BY <2>1, <2>2
  <2> QED BY <2>3, <2>4
<1>5. Inv => FailureIsFirst BY <1>2, <1>4 DEF FailureIsFirst
<1> QED BY <1>5, Invariance, PTL

\* The "final piece" message is given of the last piece and of no other.
THEOREM FinalPieceMessageIsTrue == Spec => []FinalPieceIsLast
<1>1. ASSUME Inv, taken # 0 PROVE Len(pending) = number - 2 - Len(written)
  <2>1. Awaited = 1 BY <1>1 DEF Awaited
  <2> QED BY <1>1, <2>1, LengthsAdd
<1>2. ASSUME Inv PROVE number <= N + 1 /\ (pending = <<>> <=> Len(pending) = 0)
    BY <1>2, EmptyFact DEF Inv, TypeOK
<1>3. ASSUME Inv, taken # 0 PROVE (eof => number = N + 1) /\ (~eof => number <= N)
    BY <1>3 DEF Inv, AtPlace
<1>4. ASSUME Inv, taken # 0 PROVE IsFinalPiece <=> Len(written) = N - 1
  <2>1. number \in Nat /\ Len(written) \in Nat /\ Len(pending) \in Nat BY <1>4, LengthsAdd
  <2> QED BY <1>1, <1>2, <1>3, <1>4, <2>1, StreamPipelineAssumption DEF IsFinalPiece
<1>5. ASSUME Inv, outcome \in {"LockError", "final piece"}
      PROVE  taken # 0 /\ (outcome = "final piece" <=> IsFinalPiece)
    BY <1>5 DEF Inv, AtOutcome
<1>6. Inv => FinalPieceIsLast BY <1>4, <1>5 DEF FinalPieceIsLast
<1> QED BY <1>6, Invariance, PTL

\* Both halves of what a failing run_stream reports.
THEOREM FailureReportIsTrue == Spec => []FailureIsReported
BY FirstFailureIsReported, FinalPieceMessageIsTrue, PTL DEF FailureIsReported

\* Success means that everything was written, and returning that the pool is idle.
THEOREM ReturnsClean == Spec => []ReturnIsClean
<1>1. Inv => ReturnIsClean
  <2> SUFFICES ASSUME Inv PROVE ReturnIsClean
      OBVIOUS
  <2>1. ASSUME outcome = "ok" PROVE Len(written) = N
    <3>1. eof /\ taken = 0 /\ Len(pending) = 0 BY <2>1, EmptyFact DEF Inv, AtOutcome
    <3> QED BY <3>1, StreamPipelineAssumption, LengthsAdd DEF Inv, AtPlace, Awaited
  <2>2. pc = "done" => PoolIdle BY DEF Inv, AtPlace
  <2> QED BY <2>1, <2>2 DEF ReturnIsClean
<1> QED BY <1>1, Invariance, PTL

-----------------------------------------------------------------------------
\* Every step of the pipeline is a step of the ordered pipe, or a stutter.
LEMMA StepRefines == Inv /\ [Next]_vars => [Pipe!Next]_Pipe!vars
<1> SUFFICES ASSUME Inv, [Next]_vars PROVE [Pipe!Next]_Pipe!vars
    OBVIOUS
<1> USE StreamPipelineAssumption
<1> USE DEF Pipe!Next, Pipe!vars, Pipe!Emit, Pipe!Complete, Pipe!Break
<1>1. CASE PieceWritten
  <2>1. taken = Len(written) + 1 /\ taken \in 1 .. N /\ outcome = "none"
      BY <1>1 DEF PieceWritten, Resolved, Inv, TakenIsNext, AtPlace, TypeOK
  <2>2. Len(written) \in Nat BY DEF Inv, TypeOK
  <2>3. Pipe!Emit BY <1>1, <2>1, <2>2 DEF PieceWritten
  <2> QED BY <2>3
<1>2. CASE ReadFails \/ WriteFails \/ PieceFails
  <2>1. outcome = "none" /\ outcome' \notin {"none", "ok"}
      BY <1>2 DEF ReadFails, WriteFails, PieceFails, Raise, Resolved, Inv, AtPlace,
                  TypeOK, Fates
  <2>2. written' = written BY <1>2 DEF ReadFails, WriteFails, PieceFails
  <2>3. Pipe!Break BY <2>1, <2>2
  <2> QED BY <2>3
<1>3. CASE Flush
  <2>1. outcome = "none" /\ written' = written /\ Len(written) = N
    <3>1. outcome = "none" /\ eof /\ taken = 0 /\ Len(pending) = 0 /\ written' = written
        BY <1>3, EmptyFact DEF Flush, Inv, AtPlace
    <3> QED BY <3>1, LengthsAdd DEF Inv, AtPlace, Awaited
  <2>2. outcome' = "ok" \/ outcome' = "write failed" BY <1>3 DEF Flush
  <2> QED BY <2>1, <2>2
<1>4. CASE UNCHANGED <<written, outcome>> BY <1>4
<1> QED BY <1>1, <1>2, <1>3, <1>4
        DEF Next, Main, Pool, Terminated, vars, mainVars, ReadPiece, ReadEnd, DrainOne,
            DrainNone, Take, Submit, FinishOne, FinishNone, Join, StartWork, EndWork

\* run_stream keeps the promise of OrderedPipe: a prefix of the pieces, in order.
THEOREM PipelineImplementsPipe == Spec => ImplementsOrderedPipe
<1>1. Init => Pipe!Init BY DEF Init, Pipe!Init
<1>2. Inv /\ [Next]_vars => [Pipe!Next]_Pipe!vars BY StepRefines
<1> QED BY <1>1, <1>2, Invariance, PTL DEF Spec, ImplementsOrderedPipe, Pipe!Spec

-----------------------------------------------------------------------------
(* The splitter: sequences of offsets that rise.                              *)
\* A sequence that rises and holds the numbers of T, each once.
Rises(s) == \A i, k \in 1 .. Len(s) : i < k => s[i] < s[k]

Lists(s, T) ==
    /\ s \in Seq(Nat) /\ Rises(s)
    /\ \A i \in 1 .. Len(s) : s[i] \in T
    /\ \A t \in T : \E i \in 1 .. Len(s) : s[i] = t

LEMMA SeqElements ==
  ASSUME NEW S, NEW s \in Seq(S)
  PROVE  Len(s) \in Nat /\ \A i \in 1 .. Len(s) : s[i] \in S
OBVIOUS

LEMMA ListsAgree ==
  ASSUME NEW T, NEW s, Lists(s, T), NEW t, Lists(t, T)
  PROVE  \A k \in 1 .. Len(s) : k <= Len(t) /\ s[k] = t[k]
<1> USE DEF Lists, Rises
<1> DEFINE Bad == {k \in 1 .. Len(s) : ~ (k <= Len(t) /\ s[k] = t[k])}
<1> SUFFICES ASSUME Bad # {} PROVE FALSE
  OBVIOUS
<1>0. Bad \subseteq Nat
  OBVIOUS
<1>1. PICK k \in Bad : \A m \in Bad : k <= m
  <2> HIDE DEF Bad
  <2> QED BY ONLY <1>0, Bad # {}, LeastNumber
<1>2. k \in 1 .. Len(s) /\ Len(s) \in Nat /\ Len(t) \in Nat
  OBVIOUS
<1>3. \A i \in 1 .. k - 1 : i <= Len(t) /\ s[i] = t[i]
  <2> TAKE i \in 1 .. k - 1
  <2>1. i \in 1 .. Len(s) /\ ~ (k <= i)
    BY <1>2
  <2>2. i \notin Bad
    BY <1>1, <2>1
  <2> QED BY <2>1, <2>2
<1>4. \A i \in 1 .. Len(s) : s[i] \in Nat
  BY SeqElements
<1>5. \A i \in 1 .. Len(t) : t[i] \in Nat
  BY SeqElements
<1>6. PICK m \in 1 .. Len(t) : t[m] = s[k]
  BY <1>2
<1>7. m >= k
  <2> SUFFICES ASSUME m < k PROVE FALSE
    BY <1>2
  <2>1. m \in 1 .. k - 1 /\ m \in 1 .. Len(s)
    BY <1>2
  <2>2. s[m] < s[k] /\ s[m] = t[m]
    BY <1>2, <1>3, <2>1
  <2> QED BY <1>2, <1>4, <1>6, <2>1, <2>2
<1>8. k \in 1 .. Len(t)
  BY <1>2, <1>7
<1>9. PICK w \in 1 .. Len(s) : s[w] = t[k]
  BY <1>8
<1>10. w >= k
  <2> SUFFICES ASSUME w < k PROVE FALSE
    BY <1>2
  <2>1. w \in 1 .. k - 1 /\ w \in 1 .. Len(t)
    BY <1>2, <1>8
  <2>2. t[w] < t[k] /\ s[w] = t[w]
    BY <1>8, <1>3, <2>1
  <2>3. t[w] \in Nat /\ t[k] \in Nat /\ s[w] = t[k]
    BY <1>5, <1>8, <1>9, <2>1
  <2> QED BY ONLY <2>2, <2>3
<1>11. s[k] <= s[w]
  <2>1. k < w => s[k] < s[w]
    BY <1>2
  <2>2. s[k] \in Nat /\ s[w] \in Nat
    BY <1>2, <1>4
  <2>3. k = w \/ k < w
    BY <1>2, <1>10
  <2> QED BY ONLY <2>1, <2>2, <2>3
<1>12. t[k] <= t[m]
  <2>1. k < m => t[k] < t[m]
    BY <1>8
  <2>2. t[k] \in Nat /\ t[m] \in Nat
    BY <1>8, <1>5
  <2>3. k = m \/ k < m
    BY <1>2, <1>7
  <2> QED BY ONLY <2>1, <2>2, <2>3
<1>13. s[k] = t[k]
  <2>1. s[k] \in Nat /\ t[k] \in Nat
    BY <1>2, <1>4, <1>5, <1>8
  <2> QED BY ONLY <2>1, <1>6, <1>9, <1>11, <1>12
<1> QED BY <1>8, <1>13

LEMMA ListIsUnique ==
  ASSUME NEW T, NEW s, Lists(s, T), NEW t, Lists(t, T)
  PROVE  s = t
<1>1. \A k \in 1 .. Len(s) : k <= Len(t) /\ s[k] = t[k]
  BY ListsAgree
<1>2. \A k \in 1 .. Len(t) : k <= Len(s) /\ t[k] = s[k]
  BY ListsAgree
<1>3. s \in Seq(Nat) /\ t \in Seq(Nat)
  BY DEF Lists
<1>4. Len(s) = Len(t)
  <2>1. Len(s) \in Nat /\ Len(t) \in Nat
    BY <1>3
  <2>2. Len(s) <= Len(t)
    <3>1. CASE Len(s) = 0
      BY <2>1, <3>1
    <3>2. CASE Len(s) \in 1 .. Len(s)
      BY <1>1, <3>2
    <3> QED BY <2>1, <3>1, <3>2
  <2>3. Len(t) <= Len(s)
    <3>1. CASE Len(t) = 0
      BY <2>1, <3>1
    <3>2. CASE Len(t) \in 1 .. Len(t)
      BY <1>2, <3>2
    <3> QED BY <2>1, <3>1, <3>2
  <2> QED BY <2>1, <2>2, <2>3
<1> QED BY <1>1, <1>3, <1>4

LEMMA MarkerFacts ==
  Marker \in Seq(Byte) /\ Len(Marker) \in Nat /\ Len(Marker) >= 1 /\ Keep \in Nat
BY SegmentReaderAssumption DEF Keep

\* segment_offsets lists the offsets at which the marker occurs, in order.
LEMMA SegmentOffsetsList ==
  ASSUME NEW data \in Seq(Byte)
  PROVE  Lists(SegmentOffsets(data), Offsets(data))
<1> DEFINE n == Len(data)
           V == Seq(Nat)
           Step(p) == IF MarkerAt(data, p[2] - 1) THEN Append(p[1], p[2] - 1) ELSE p[1]
           step == [p \in V \X (1 .. n) |-> Step(p)]
           body(g, k) == IF k = 0 THEN <<>>
                         ELSE IF MarkerAt(data, k - 1) THEN Append(g[k - 1], k - 1)
                         ELSE g[k - 1]
           found == CHOOSE g : g = [k \in 0 .. n |-> body(g, k)]
<1>1. n \in Nat
  OBVIOUS
<1>2. step \in [V \X (1 .. n) -> V]
  <2>1. ASSUME NEW p \in V \X (1 .. n) PROVE Step(p) \in V
    <3>1. p[1] \in V /\ p[2] - 1 \in Nat
      OBVIOUS
    <3> QED BY <3>1
  <2> QED BY <2>1
<1>3. \A x \in V, k \in 1 .. n :
        step[<<x, k>>] = IF MarkerAt(data, k - 1) THEN Append(x, k - 1) ELSE x
  OBVIOUS
<1>4. <<>> \in V
  OBVIOUS
<1>5. PICK g : Steps(g, n, V, <<>>, step)
  <2> HIDE DEF n, V, step
  <2> QED BY ONLY <1>1, <1>2, <1>4, StepRecursion
<1> HIDE DEF step
<1>6. g = [k \in 0 .. n |-> body(g, k)]
  <2> HIDE DEF V
  <2>1. g \in [0 .. n -> V] /\ g[0] = <<>> /\ \A k \in 1 .. n : g[k] = step[<<g[k - 1], k>>]
    BY ONLY <1>5 DEF Steps
  <2>2. ASSUME NEW k \in 0 .. n PROVE g[k] = body(g, k)
    <3>1. CASE k = 0
      BY <2>1, <3>1
    <3>2. CASE k # 0
      <4>1. k \in 1 .. n /\ k - 1 \in 0 .. n
        BY <1>1, <3>2
      <4>2. g[k - 1] \in V
        BY <2>1, <4>1
      <4>3. g[k] = step[<<g[k - 1], k>>]
        BY <2>1, <4>1
      <4> QED BY <1>3, <3>2, <4>1, <4>2, <4>3
    <3> QED BY <3>1, <3>2
  <2> HIDE DEF body
  <2> QED BY <2>1, <2>2
<1>7. found = [k \in 0 .. n |-> body(found, k)]
  <2> HIDE DEF body
  <2> QED BY <1>6
<1>8. SegmentOffsets(data) = found[n]
  BY DEF SegmentOffsets
<1> HIDE DEF found
<1> DEFINE Below(k) == {j \in Offsets(data) : j < k}
           S == {k \in Nat : k <= n => Lists(found[k], Below(k))}
<1>9. 0 \in S
  <2>1. found[0] = <<>>
    BY <1>1, <1>7
  <2>2. Below(0) = {}
    BY DEF Offsets
  <2>3. Lists(<<>>, {})
    BY DEF Lists, Rises
  <2> HIDE DEF Below
  <2>4. Lists(found[0], Below(0))
    BY ONLY <2>1, <2>2, <2>3
  <2> QED BY <2>4
<1>10. ASSUME NEW k \in Nat, k \in S, k + 1 <= n
       PROVE  Lists(found[k + 1], Below(k + 1))
  <2>1. k \in 0 .. n /\ k + 1 \in 0 .. n /\ (k + 1) - 1 = k /\ k + 1 # 0
    BY <1>1, <1>10
  <2>2. found[k + 1] = IF MarkerAt(data, k) THEN Append(found[k], k) ELSE found[k]
    BY <1>7, <2>1
  <2>3. Lists(found[k], Below(k))
    BY <1>10, <2>1
  <2>4. k \in Offsets(data) <=> MarkerAt(data, k)
    BY <2>1 DEF Offsets
  <2>5. Offsets(data) \subseteq Nat
    BY <1>1 DEF Offsets
  <2>6. CASE MarkerAt(data, k)
    <3>1. Below(k + 1) = Below(k) \cup {k}
      BY <2>4, <2>5, <2>6
    <3> DEFINE s == found[k]
               b == Below(k)
               c == Below(k + 1)
    <3>2. \A t \in b : t < k
      OBVIOUS
    <3> HIDE DEF s, b, c
    <3>3. Lists(s, b) /\ c = b \cup {k} /\ k \in Nat
      BY <2>3, <3>1 DEF s, b, c
    <3>4. Len(s) \in Nat /\ s \in Seq(Nat)
      BY <3>3 DEF Lists
    <3> DEFINE u == Append(s, k)
    <3>5. u \in Seq(Nat) /\ Len(u) = Len(s) + 1 /\ u[Len(s) + 1] = k
            /\ \A i \in 1 .. Len(s) : u[i] = s[i]
      BY <3>3, <3>4
    <3> HIDE DEF u
    <3>10. \A i \in 1 .. Len(s) : s[i] \in b /\ s[i] < k
      BY <3>2, <3>3 DEF Lists
    <3>6. Rises(u)
      <4> SUFFICES ASSUME NEW i \in 1 .. Len(u), NEW m \in 1 .. Len(u), i < m
                   PROVE  u[i] < u[m]
        BY DEF Rises
      <4>1. i \in 1 .. Len(s)
        BY <3>4, <3>5
      <4>2. CASE m = Len(s) + 1
        BY <3>5, <3>10, <4>1, <4>2
      <4>3. CASE m \in 1 .. Len(s)
        <5>1. s[i] < s[m]
          BY <3>3, <4>1, <4>3 DEF Lists, Rises
        <5>2. u[i] = s[i] /\ u[m] = s[m]
          BY ONLY <3>5, <4>1, <4>3
        <5> QED BY ONLY <5>1, <5>2
      <4>4. m = Len(s) + 1 \/ m \in 1 .. Len(s)
        BY ONLY <3>4, <3>5, m \in 1 .. Len(u)
      <4> QED BY ONLY <4>2, <4>3, <4>4
    <3>7. \A i \in 1 .. Len(u) : u[i] \in c
      <4> TAKE i \in 1 .. Len(u)
      <4>1. i = Len(s) + 1 \/ i \in 1 .. Len(s)
        BY <3>4, <3>5
      <4> QED BY <3>3, <3>5, <3>10, <4>1
    <3>8. \A t \in c : \E i \in 1 .. Len(u) : u[i] = t
      <4> TAKE t \in c
      <4>1. CASE t = k
        <5>1. Len(s) + 1 \in 1 .. Len(u) /\ u[Len(s) + 1] = t
          BY ONLY <3>4, <3>5, <4>1
        <5> QED BY <5>1
      <4>2. CASE t \in b
        <5>1. PICK i \in 1 .. Len(s) : s[i] = t
          BY <3>3, <4>2 DEF Lists
        <5>2. i \in 1 .. Len(u) /\ u[i] = t
          BY <3>4, <3>5, <5>1
        <5> QED BY <5>2
      <4> QED BY <3>3, <4>1, <4>2
    <3>9. Lists(u, c)
      BY <3>5, <3>6, <3>7, <3>8 DEF Lists
    <3> QED BY <2>2, <2>6, <3>9 DEF u, s, c
  <2>7. CASE ~ MarkerAt(data, k)
    <3>1. Below(k + 1) = Below(k)
      BY <2>4, <2>5, <2>7
    <3> QED BY <2>2, <2>3, <2>7, <3>1
  <2> QED BY <2>6, <2>7
<1>11. \A k \in Nat : k \in S => k + 1 \in S
  <2> HIDE DEF Below
  <2> QED BY <1>10
<1> HIDE DEF S
<1>12. n \in S
  BY ONLY <1>1, <1>9, <1>11, Inductively
<1>13. Below(n) = Offsets(data)
  <2>1. \A j \in Offsets(data) : j \in Nat /\ j + Len(Marker) <= n
    BY <1>1 DEF Offsets, MarkerAt
  <2> QED BY <2>1, <1>1, MarkerFacts
<1>14. Lists(found[n], Below(n))
  <2> HIDE DEF Below
  <2> QED BY <1>1, <1>12 DEF S
<1> HIDE DEF Below
<1> QED BY ONLY <1>8, <1>13, <1>14

-----------------------------------------------------------------------------
LEMMA SequencesEqual ==
  ASSUME NEW S, NEW s \in Seq(S), NEW t \in Seq(S), Len(s) = Len(t),
         \A i \in 1 .. Len(s) : s[i] = t[i]
  PROVE  s = t
OBVIOUS

LEMMA SliceElements ==
  ASSUME NEW data \in Seq(Byte), NEW a \in Nat, NEW b \in Nat, a <= b, b <= Len(data)
  PROVE  /\ Slice(data, a, b) \in Seq(Byte) /\ Len(Slice(data, a, b)) = b - a
         /\ \A i \in 1 .. b - a : Slice(data, a, b)[i] = data[a + i]
<1>1. Len(data) \in Nat
  OBVIOUS
<1>2. \A i \in a + 1 .. b : i \in 1 .. Len(data)
  BY <1>1
<1> DEFINE s == SubSeq(data, a + 1, b)
<1>3. s \in Seq(Byte)
  BY <1>1, <1>2
<1>4. Len(s) = b - a
  BY <1>1
<1>5. \A i \in 1 .. b - a : s[i] = data[a + i]
  BY <1>1
<1> QED BY <1>3, <1>4, <1>5 DEF Slice

LEMMA JoinElements ==
  ASSUME NEW S, NEW a \in Seq(S), NEW b \in Seq(S)
  PROVE  /\ a \o b \in Seq(S) /\ Len(a \o b) = Len(a) + Len(b)
         /\ \A i \in 1 .. Len(a) : (a \o b)[i] = a[i]
         /\ \A i \in 1 .. Len(b) : (a \o b)[Len(a) + i] = b[i]
OBVIOUS

LEMMA SlicesJoin ==
  ASSUME NEW data \in Seq(Byte), NEW x \in Nat, NEW y \in Nat, NEW z \in Nat,
         x <= y, y <= z, z <= Len(data)
  PROVE  Slice(data, x, z) = Slice(data, x, y) \o Slice(data, y, z)
<1> DEFINE a == Slice(data, x, y)
           b == Slice(data, y, z)
           c == Slice(data, x, z)
           d == a \o b
<1>0. Len(data) \in Nat /\ x <= z /\ y <= Len(data)
        /\ x \in Nat /\ y \in Nat /\ z \in Nat /\ x <= y /\ y <= z /\ z <= Len(data)
  OBVIOUS
<1>1. a \in Seq(Byte) /\ Len(a) = y - x /\ \A k \in 1 .. y - x : a[k] = data[x + k]
  BY ONLY data \in Seq(Byte), <1>0, SliceElements
<1>2. b \in Seq(Byte) /\ Len(b) = z - y /\ \A k \in 1 .. z - y : b[k] = data[y + k]
  BY ONLY data \in Seq(Byte), <1>0, SliceElements
<1>3. c \in Seq(Byte) /\ Len(c) = z - x /\ \A k \in 1 .. z - x : c[k] = data[x + k]
  BY ONLY data \in Seq(Byte), <1>0, SliceElements
<1> HIDE DEF a, b, c
<1>4. /\ d \in Seq(Byte) /\ Len(d) = Len(a) + Len(b)
      /\ \A k \in 1 .. Len(a) : d[k] = a[k]
      /\ \A k \in 1 .. Len(b) : d[Len(a) + k] = b[k]
  <2>1. a \in Seq(Byte) /\ b \in Seq(Byte)
    BY <1>1, <1>2
  <2>2. /\ a \o b \in Seq(Byte) /\ Len(a \o b) = Len(a) + Len(b)
        /\ \A i \in 1 .. Len(a) : (a \o b)[i] = a[i]
        /\ \A i \in 1 .. Len(b) : (a \o b)[Len(a) + i] = b[i]
    BY ONLY <2>1, JoinElements
  <2> QED BY ONLY <2>2 DEF d
<1> HIDE DEF d
<1>5. ASSUME NEW k \in 1 .. Len(c) PROVE c[k] = d[k]
  <2>1. c[k] = data[x + k]
    BY <1>0, <1>3
  <2>2. CASE k \in 1 .. y - x
    BY <1>1, <1>4, <2>1, <2>2
  <2>3. CASE k > y - x
    <3>1. k - (y - x) \in 1 .. z - y /\ k = (y - x) + (k - (y - x))
            /\ y + (k - (y - x)) = x + k
      BY <1>0, <1>3, <2>3
    <3>2. d[Len(a) + (k - (y - x))] = b[k - (y - x)]
      BY <1>2, <1>4, <3>1
    <3>3. b[k - (y - x)] = data[y + (k - (y - x))]
      BY <1>2, <3>1
    <3> QED BY <1>1, <2>1, <3>1, <3>2, <3>3
  <2> QED BY <1>0, <1>3, <2>2, <2>3
<1>6. Len(c) = Len(d)
  BY <1>0, <1>1, <1>2, <1>3, <1>4
<1>7. c = d
  BY ONLY <1>3, <1>4, <1>5, <1>6, SequencesEqual
<1> QED BY <1>7 DEF a, b, c, d

LEMMA SliceOfSlice ==
  ASSUME NEW data \in Seq(Byte), NEW a \in 0 .. Len(data),
         NEW b \in Nat, NEW c \in Nat, b <= c, a + c <= Len(data)
  PROVE  Slice(Slice(data, a, Len(data)), b, c) = Slice(data, a + b, a + c)
<1> DEFINE n == Len(data)
           s == Slice(data, a, n)
           t == Slice(s, b, c)
           u == Slice(data, a + b, a + c)
<1>1. n \in Nat /\ a \in Nat
  OBVIOUS
<1>2. s \in Seq(Byte) /\ Len(s) = n - a /\ \A i \in 1 .. n - a : s[i] = data[a + i]
  <2>1. a \in Nat /\ Len(data) \in Nat /\ a <= Len(data) /\ Len(data) <= Len(data)
    BY <1>1
  <2> QED BY ONLY data \in Seq(Byte), <2>1, SliceElements
<1> HIDE DEF s
<1>3. c <= Len(s)
  BY <1>1, <1>2
<1>4. t \in Seq(Byte) /\ Len(t) = c - b /\ \A i \in 1 .. c - b : t[i] = s[b + i]
  BY <1>2, <1>3, SliceElements
<1>5. /\ u \in Seq(Byte) /\ Len(u) = (a + c) - (a + b)
      /\ \A i \in 1 .. (a + c) - (a + b) : u[i] = data[(a + b) + i]
  <2>1. a + b \in Nat /\ a + c \in Nat /\ a + b <= a + c /\ a + c <= Len(data)
    BY <1>1
  <2> QED BY ONLY data \in Seq(Byte), <2>1, SliceElements
<1> HIDE DEF t, u
<1>6. ASSUME NEW i \in 1 .. Len(t)
      PROVE  t[i] = u[i]
  <2>1. i \in 1 .. c - b /\ b + i \in 1 .. n - a /\ i \in 1 .. (a + c) - (a + b)
    BY <1>1, <1>4
  <2>2. t[i] = data[a + (b + i)] /\ u[i] = data[(a + b) + i]
    BY <1>2, <1>4, <1>5, <2>1
  <2> QED BY <1>1, <2>1, <2>2
<1>7. Len(t) = Len(u)
  BY <1>1, <1>4, <1>5
<1> QED BY ONLY <1>4, <1>5, <1>6, <1>7, SequencesEqual DEF t, u, s

\* What was fed does not change when more is.
LEMMA SliceOfMore ==
  ASSUME NEW data \in Seq(Byte), NEW more \in Seq(Byte),
         NEW a \in Nat, NEW b \in Nat, a <= b, b <= Len(data)
  PROVE  Slice(data \o more, a, b) = Slice(data, a, b)
<1> DEFINE d == data \o more
           s == Slice(data, a, b)
           t == Slice(d, a, b)
<1>1. /\ d \in Seq(Byte) /\ Len(d) = Len(data) + Len(more)
      /\ \A i \in 1 .. Len(data) : d[i] = data[i]
      /\ Len(data) \in Nat /\ Len(more) \in Nat
  OBVIOUS
<1> HIDE DEF d
<1>2. b <= Len(d)
  BY <1>1
<1>3. s \in Seq(Byte) /\ Len(s) = b - a /\ \A i \in 1 .. b - a : s[i] = data[a + i]
  BY SliceElements
<1>4. t \in Seq(Byte) /\ Len(t) = b - a /\ \A i \in 1 .. b - a : t[i] = d[a + i]
  BY <1>1, <1>2, SliceElements
<1> HIDE DEF s, t
<1>5. ASSUME NEW i \in 1 .. Len(t) PROVE t[i] = s[i]
  <2>1. i \in 1 .. b - a /\ a + i \in 1 .. Len(data)
    BY <1>1, <1>4
  <2> QED BY <1>1, <1>3, <1>4, <2>1
<1>6. Len(t) = Len(s)
  BY <1>3, <1>4
<1>7. t = s
  BY ONLY <1>3, <1>4, <1>5, <1>6, SequencesEqual
<1> QED BY <1>7 DEF t, s, d

LEMMA SliceThenMore ==
  ASSUME NEW data \in Seq(Byte), NEW more \in Seq(Byte), NEW a \in 0 .. Len(data)
  PROVE  Slice(data, a, Len(data)) \o more = Slice(data \o more, a, Len(data \o more))
<1> DEFINE d == data \o more
           n == Len(data)
           s == Slice(data, a, n)
           t == Slice(d, a, Len(d))
           u == s \o more
<1>1. /\ d \in Seq(Byte) /\ Len(d) = n + Len(more)
      /\ n \in Nat /\ Len(more) \in Nat /\ a \in Nat /\ a <= n
      /\ \A i \in 1 .. n : d[i] = data[i]
      /\ \A i \in 1 .. Len(more) : d[n + i] = more[i]
  OBVIOUS
<1> HIDE DEF d
<1>2. s \in Seq(Byte) /\ Len(s) = n - a /\ \A i \in 1 .. n - a : s[i] = data[a + i]
  <2>1. a \in Nat /\ Len(data) \in Nat /\ a <= Len(data) /\ Len(data) <= Len(data)
    BY <1>1
  <2> QED BY ONLY data \in Seq(Byte), <2>1, SliceElements
<1>3. a <= Len(d) /\ Len(d) \in Nat
  BY <1>1
<1>4. t \in Seq(Byte) /\ Len(t) = Len(d) - a /\ \A i \in 1 .. Len(d) - a : t[i] = d[a + i]
  <2>1. d \in Seq(Byte) /\ a \in Nat /\ Len(d) <= Len(d)
    BY <1>1, <1>3
  <2> QED BY ONLY <1>3, <2>1, SliceElements
<1> HIDE DEF s, t, n
<1>5. /\ u \in Seq(Byte) /\ Len(u) = Len(s) + Len(more)
      /\ \A i \in 1 .. Len(s) : u[i] = s[i]
      /\ \A i \in 1 .. Len(more) : u[Len(s) + i] = more[i]
  <2>1. s \in Seq(Byte) /\ more \in Seq(Byte)
    BY <1>2
  <2>2. /\ s \o more \in Seq(Byte) /\ Len(s \o more) = Len(s) + Len(more)
        /\ \A i \in 1 .. Len(s) : (s \o more)[i] = s[i]
        /\ \A i \in 1 .. Len(more) : (s \o more)[Len(s) + i] = more[i]
    BY ONLY <2>1, JoinElements
  <2> QED BY ONLY <2>2 DEF u
<1> HIDE DEF u
<1>6. ASSUME NEW i \in 1 .. Len(u) PROVE u[i] = t[i]
  <2>1. i \in 1 .. Len(d) - a
    BY <1>1, <1>2, <1>5
  <2>2. t[i] = d[a + i]
    BY <1>4, <2>1
  <2>3. CASE i \in 1 .. n - a
    <3>1. a + i \in 1 .. n
      BY <1>1, <2>3
    <3>2. u[i] = s[i] /\ s[i] = data[a + i] /\ d[a + i] = data[a + i]
      BY <1>1, <1>2, <1>5, <2>3, <3>1
    <3> QED BY <2>2, <3>2
  <2>4. CASE i > n - a
    <3> DEFINE k == i - (n - a)
    <3>1. k \in 1 .. Len(more) /\ i = Len(s) + k /\ a + i = n + k
      BY <1>1, <1>2, <1>5, <2>1, <2>4
    <3> HIDE DEF k
    <3>2. u[i] = more[k] /\ d[a + i] = more[k]
      BY <1>1, <1>5, <3>1
    <3> QED BY <2>2, <3>2
  <2> QED BY <1>1, <2>1, <2>3, <2>4
<1>7. Len(u) = Len(t)
  BY <1>1, <1>2, <1>4, <1>5
<1>8. u = t
  BY ONLY <1>4, <1>5, <1>6, <1>7, SequencesEqual
<1> QED BY <1>8 DEF t, s, u, d, n

\* Where the marker lies in the rest of a stream, and in a longer one.
LEMMA MarkerInRest ==
  ASSUME NEW data \in Seq(Byte), NEW a \in 0 .. Len(data), NEW j \in Nat
  PROVE  MarkerAt(Slice(data, a, Len(data)), j) <=> MarkerAt(data, a + j)
<1> DEFINE n == Len(data)
           s == Slice(data, a, n)
           m == Len(Marker)
<1>1. n \in Nat /\ a \in Nat /\ a <= n /\ m \in Nat
  BY MarkerFacts
<1>2. Len(s) = n - a
  <2>1. Len(data) \in Nat /\ Len(data) <= Len(data)
    BY <1>1
  <2> QED BY ONLY data \in Seq(Byte), <1>1, <2>1, SliceElements
<1>3. j + m <= Len(s) <=> (a + j) + m <= n
  BY <1>1, <1>2
<1>4. (a + j) + m <= n => Slice(s, j, j + m) = Slice(data, a + j, (a + j) + m)
  <2> SUFFICES ASSUME (a + j) + m <= n
               PROVE  Slice(s, j, j + m) = Slice(data, a + j, (a + j) + m)
    OBVIOUS
  <2>1. j + m \in Nat /\ j <= j + m /\ a + (j + m) <= n /\ a + (j + m) = (a + j) + m
    BY <1>1
  <2> HIDE DEF m
  <2> QED BY <2>1, SliceOfSlice
<1> QED BY <1>3, <1>4 DEF MarkerAt

LEMMA MarkerInMore ==
  ASSUME NEW data \in Seq(Byte), NEW more \in Seq(Byte), NEW j \in Nat,
         j + Len(Marker) <= Len(data)
  PROVE  MarkerAt(data \o more, j) <=> MarkerAt(data, j)
<1>1. Len(data \o more) = Len(data) + Len(more) /\ Len(data) \in Nat /\ Len(more) \in Nat
  OBVIOUS
<1>2. j + Len(Marker) \in Nat /\ j <= j + Len(Marker)
  BY MarkerFacts
<1>3. Slice(data \o more, j, j + Len(Marker)) = Slice(data, j, j + Len(Marker))
  BY <1>2, SliceOfMore
<1> QED BY <1>1, <1>2, <1>3 DEF MarkerAt

LEMMA OffsetFacts ==
  ASSUME NEW data \in Seq(Byte)
  PROVE  \A j : j \in Offsets(data) <=> j \in Nat /\ j + Len(Marker) <= Len(data) /\ MarkerAt(data, j)
BY MarkerFacts DEF Offsets, MarkerAt

-----------------------------------------------------------------------------
(* The pieces of a stream at bounds that rise within it.                      *)
Bounds(data, s) == s \in Seq(Nat) /\ Rises(s) /\ \A i \in 1 .. Len(s) : s[i] <= Len(data)

LEMMA PiecesTyped ==
  ASSUME NEW data \in Seq(Byte), NEW s, Bounds(data, s)
  PROVE  /\ s # <<>> => Len(Between(data, s)) = Len(s) - 1
         /\ \A k \in 1 .. Len(s) - 1 : /\ Between(data, s)[k] = Slice(data, s[k], s[k + 1])
                                       /\ Between(data, s)[k] \in Seq(Byte)
         /\ Between(data, s) \in Seq(Seq(Byte))
<1>1. s \in Seq(Nat) /\ Len(s) \in Nat /\ Len(data) \in Nat
  BY DEF Bounds
<1>2. ASSUME NEW k \in 1 .. Len(s) - 1
      PROVE  Slice(data, s[k], s[k + 1]) \in Seq(Byte)
  <2>1. k \in 1 .. Len(s) /\ k + 1 \in 1 .. Len(s) /\ k < k + 1
    BY <1>1
  <2>2. s[k] \in Nat /\ s[k + 1] \in Nat
    BY <1>1, <2>1, SeqElements
  <2>3. s[k] < s[k + 1] /\ s[k + 1] <= Len(data)
    BY <2>1 DEF Bounds, Rises
  <2>4. s[k] <= s[k + 1]
    BY <2>2, <2>3
  <2> QED BY <2>2, <2>3, <2>4, SliceElements
<1>3. \A k \in 1 .. Len(s) - 1 : Between(data, s)[k] = Slice(data, s[k], s[k + 1])
  BY DEF Between
<1>4. Between(data, s) \in [1 .. Len(s) - 1 -> Seq(Byte)]
  BY <1>2 DEF Between
<1>5. s # <<>> => Len(s) - 1 \in Nat
  BY <1>1
<1>6. CASE s = <<>>
  <2>1. Between(data, s) = <<>>
    BY <1>6 DEF Between
  <2>2. \A k \in 1 .. Len(s) - 1 : Between(data, s)[k] \in Seq(Byte)
    BY <1>2, <1>3
  <2>3. Between(data, s) \in Seq(Seq(Byte))
    BY ONLY <2>1
  <2> QED BY <1>3, <1>6, <2>2, <2>3
<1>7. CASE s # <<>>
  <2>1. Between(data, s) \in Seq(Seq(Byte)) /\ Len(Between(data, s)) = Len(s) - 1
    BY <1>4, <1>5, <1>7
  <2> QED BY <1>2, <1>3, <2>1
<1> QED BY <1>6, <1>7

\* Joined again, the pieces are the stream from the first bound to the last.
LEMMA PiecesJoin ==
  ASSUME NEW data \in Seq(Byte), NEW s, Bounds(data, s), s # <<>>
  PROVE  Len(FlattenSeq(Between(data, s))) = s[Len(s)] - s[1]
<1> DEFINE p == Between(data, s)
           n == Len(s) - 1
           Joined(i) == Slice(data, s[1], s[i + 1])
           body(g, i) == IF i = 1 THEN p[i] ELSE g[i - 1] \o p[i]
           flatten == CHOOSE g : g = [i \in 1 .. n |-> body(g, i)]
<1>1. s \in Seq(Nat) /\ Len(s) \in Nat /\ Len(s) >= 1 /\ n \in Nat /\ Len(data) \in Nat
  BY DEF Bounds
<1>2. /\ Len(p) = n
      /\ \A k \in 1 .. n : p[k] = Slice(data, s[k], s[k + 1]) /\ p[k] \in Seq(Byte)
  BY PiecesTyped
<1>3. \A i \in 1 .. Len(s) : s[i] \in Nat /\ s[i] <= Len(data)
  BY <1>1, SeqElements DEF Bounds
<1>4. \A i, k \in 1 .. Len(s) : i <= k => s[i] <= s[k]
  <2> TAKE i, k \in 1 .. Len(s)
  <2>1. i < k => s[i] < s[k]
    BY DEF Bounds, Rises
  <2>2. s[i] \in Nat /\ s[k] \in Nat
    BY <1>3
  <2> QED BY <1>1, <2>1, <2>2
<1>5. CASE n = 0
  <2>1. FlattenSeq(p) = p
    BY <1>2, <1>5 DEF FlattenSeq
  <2>2. s[Len(s)] = s[1] /\ s[1] \in Nat
    <3>1. Len(s) = 1 /\ 1 \in 1 .. Len(s)
      BY <1>1, <1>5
    <3> QED BY ONLY <1>3, <3>1
  <2> HIDE DEF p
  <2>4. Len(FlattenSeq(p)) = 0
    BY <1>2, <1>5, <2>1
  <2>5. s[Len(s)] - s[1] = 0
    <3> DEFINE x == s[1]
    <3> HIDE DEF x
    <3>1. x \in Nat /\ x - x = 0 /\ s[Len(s)] = x
      BY <2>2 DEF x
    <3> QED BY <3>1 DEF x
  <2>3. Len(FlattenSeq(p)) = s[Len(s)] - s[1]
    BY <2>4, <2>5
  <2> QED BY <2>3 DEF p
<1>6. CASE n # 0
  <2>12. 1 \in 1 .. n /\ n - 1 \in Nat /\ (n - 1) + 1 = n
    <3> HIDE DEF n
    <3> QED BY <1>1, <1>6
  <2> DEFINE h == [i \in 1 .. n |-> Joined(i)]
  <2>1. ASSUME NEW i \in 1 .. n, i # 1
        PROVE  Joined(i) = Joined(i - 1) \o p[i]
    <3>1. 1 \in 1 .. Len(s) /\ i \in 1 .. Len(s) /\ i + 1 \in 1 .. Len(s) /\ (i - 1) + 1 = i
      BY <1>1
    <3>2. s[1] \in Nat /\ s[i] \in Nat /\ s[i + 1] \in Nat
            /\ s[1] <= s[i] /\ s[i] <= s[i + 1] /\ s[i + 1] <= Len(data)
      BY <1>1, <1>3, <1>4, <3>1
    <3>3. p[i] = Slice(data, s[i], s[i + 1])
      BY <1>2
    <3> DEFINE x == s[1]
               y == s[i]
               z == s[i + 1]
    <3> HIDE DEF x, y, z
    <3>4. x \in Nat /\ y \in Nat /\ z \in Nat /\ x <= y /\ y <= z /\ z <= Len(data)
      BY <3>2 DEF x, y, z
    <3>5. Slice(data, x, z) = Slice(data, x, y) \o Slice(data, y, z)
      BY ONLY data \in Seq(Byte), <3>4, SlicesJoin
    <3> QED BY <3>1, <3>3, <3>5 DEF x, y, z
  <2>2. Joined(1) = p[1]
    <3>1. 1 \in 1 .. n
      BY ONLY <2>12
    <3> QED BY <1>2, <3>1
  <2> HIDE DEF Joined, p
  <2>3. h = [i \in 1 .. n |-> body(h, i)]
    <3>1. ASSUME NEW i \in 1 .. n PROVE Joined(i) = body(h, i)
      <4>1. CASE i = 1
        BY <2>2, <4>1
      <4>2. CASE i # 1
        <5>1. i - 1 \in 1 .. n
          BY <1>1, <4>2
        <5> QED BY <2>1, <4>2, <5>1
      <4> QED BY <4>1, <4>2
    <3> HIDE DEF body
    <3> QED BY <3>1
  <2>4. flatten = [i \in 1 .. n |-> body(flatten, i)]
    <3> HIDE DEF body, h
    <3> QED BY <2>3
  <2>5. FlattenSeq(p) = flatten[n]
    BY <1>1, <1>2, <1>6 DEF FlattenSeq
  <2> HIDE DEF flatten
  <2> DEFINE S == {k \in Nat : k + 1 <= n => flatten[k + 1] = Joined(k + 1)}
  <2>6. 0 \in S
    <3>1. 1 \in 1 .. n
      BY ONLY <2>12
    <3>2. flatten[1] = Joined(1)
      BY <2>2, <2>4, <3>1
    <3> QED BY <3>2
  <2>7. ASSUME NEW k \in Nat, k \in S
        PROVE  k + 1 \in S
    <3> SUFFICES ASSUME (k + 1) + 1 <= n PROVE flatten[(k + 1) + 1] = Joined((k + 1) + 1)
      OBVIOUS
    <3> DEFINE m == (k + 1) + 1
    <3>1. m \in 1 .. n /\ m # 1 /\ m - 1 = k + 1 /\ k + 1 <= n
      BY <1>1
    <3>2. flatten[k + 1] = Joined(k + 1)
      BY <2>7, <3>1
    <3> HIDE DEF m
    <3>3. flatten[m] = flatten[m - 1] \o p[m]
      BY <2>4, <3>1
    <3>4. Joined(m) = Joined(m - 1) \o p[m]
      BY <2>1, <3>1
    <3>5. flatten[m] = Joined(m)
      BY <3>1, <3>2, <3>3, <3>4
    <3> QED BY <3>5 DEF m
  <2> HIDE DEF S
  <2>8. \A k \in Nat : k \in S
    BY <2>6, <2>7, Inductively
  <2>9. flatten[n] = Joined(n)
    <3>1. n - 1 \in Nat /\ (n - 1) + 1 = n
      BY ONLY <2>12
    <3>2. n - 1 \in S
      BY <2>8, <3>1
    <3> QED BY <1>1, <3>1, <3>2 DEF S
  <2>10. Len(Joined(n)) = s[n + 1] - s[1]
    <3>1. 1 \in 1 .. Len(s) /\ n + 1 \in 1 .. Len(s) /\ 1 <= n + 1
      BY <1>1
    <3>2. s[1] \in Nat /\ s[n + 1] \in Nat /\ s[1] <= s[n + 1] /\ s[n + 1] <= Len(data)
      BY <1>3, <1>4, <3>1
    <3> QED BY <3>2, SliceElements DEF Joined
  <2>11. n + 1 = Len(s)
    BY <1>1
  <2> HIDE DEF n
  <2> QED BY <2>5, <2>9, <2>10, <2>11 DEF p
<1> QED BY <1>5, <1>6

-----------------------------------------------------------------------------
(* The marks of a stream, and those it has when more of it has arrived.        *)
LEMMA SliceWhole ==
  ASSUME NEW data \in Seq(Byte)
  PROVE  Slice(data, 0, Len(data)) = data
<1>1. 0 \in Nat /\ Len(data) \in Nat /\ 0 <= Len(data) /\ Len(data) <= Len(data)
  OBVIOUS
<1> DEFINE s == Slice(data, 0, Len(data))
<1>2. s \in Seq(Byte) /\ Len(s) = Len(data) - 0 /\ \A i \in 1 .. Len(data) - 0 : s[i] = data[0 + i]
  BY ONLY data \in Seq(Byte), <1>1, SliceElements
<1> HIDE DEF s
<1>3. Len(s) = Len(data) /\ \A i \in 1 .. Len(s) : s[i] = data[i]
  BY <1>1, <1>2
<1>4. s = data
  BY ONLY <1>2, <1>3, data \in Seq(Byte), SequencesEqual
<1> QED BY <1>4 DEF s

FirstMark(data) == SegmentOffsets(data)[1]
LastMark(data) == SegmentOffsets(data)[Len(SegmentOffsets(data))]

LEMMA MarkFacts ==
  ASSUME NEW data \in Seq(Byte)
  PROVE  /\ SegmentOffsets(data) \in Seq(Nat) /\ Bounds(data, SegmentOffsets(data))
         /\ Offsets(data) = {} <=> SegmentOffsets(data) = <<>>
         /\ Offsets(data) # {} =>
              /\ Len(SegmentOffsets(data)) >= 1
              /\ FirstMark(data) \in Offsets(data) /\ LastMark(data) \in Offsets(data)
              /\ \A j \in Offsets(data) : FirstMark(data) <= j /\ j <= LastMark(data)
<1> DEFINE s == SegmentOffsets(data)
           n == Len(s)
<1>1. Lists(s, Offsets(data))
  BY SegmentOffsetsList
<1> HIDE DEF s
<1>2. s \in Seq(Nat) /\ n \in Nat /\ \A i \in 1 .. n : s[i] \in Nat /\ s[i] \in Offsets(data)
  BY <1>1, SeqElements DEF Lists
<1>3. Len(data) \in Nat /\ \A j \in Offsets(data) : j \in Nat /\ j <= Len(data)
  BY DEF Offsets
<1>4. Bounds(data, s)
  BY <1>1, <1>2, <1>3 DEF Bounds, Lists
<1>5. ASSUME NEW j \in Offsets(data)
      PROVE  \E i \in 1 .. n : s[i] = j
  BY <1>1 DEF Lists
<1>6. \A i, k \in 1 .. n : i <= k => s[i] <= s[k]
  <2> TAKE i, k \in 1 .. n
  <2>1. i < k => s[i] < s[k]
    BY <1>1 DEF Lists, Rises
  <2> QED BY <1>2, <2>1
<1>7. Offsets(data) = {} => s = <<>>
  <2> SUFFICES ASSUME Offsets(data) = {}, s # <<>> PROVE FALSE
    OBVIOUS
  <2>1. 1 \in 1 .. n
    BY <1>2
  <2> QED BY <1>2, <2>1
<1>8. ASSUME Offsets(data) # {}
      PROVE  /\ s # <<>> /\ n >= 1 /\ s[1] \in Offsets(data) /\ s[n] \in Offsets(data)
             /\ \A j \in Offsets(data) : s[1] <= j /\ j <= s[n]
  <2>1. PICK j \in Offsets(data) : TRUE
    BY <1>8
  <2>2. PICK i \in 1 .. n : s[i] = j
    BY <1>5
  <2>3. n >= 1 /\ 1 \in 1 .. n /\ n \in 1 .. n
    BY <1>2, <2>2
  <2>4. s # <<>>
    BY <2>3
  <2>5. \A k \in Offsets(data) : s[1] <= k /\ k <= s[n]
    <3> TAKE k \in Offsets(data)
    <3>1. PICK m \in 1 .. n : s[m] = k
      BY <1>5
    <3>2. 1 <= m /\ m <= n
      BY <1>2
    <3> QED BY <1>6, <2>3, <3>1, <3>2
  <2> QED BY <1>2, <2>3, <2>4, <2>5
<1> QED BY <1>2, <1>4, <1>7, <1>8 DEF s, FirstMark, LastMark

LEMMA RestOffsets ==
  ASSUME NEW data \in Seq(Byte), NEW a \in 0 .. Len(data), NEW j \in Nat
  PROVE  j \in Offsets(Slice(data, a, Len(data))) <=> a + j \in Offsets(data)
<1> DEFINE s == Slice(data, a, Len(data))
<1>1. a \in Nat /\ Len(data) \in Nat /\ a <= Len(data) /\ Len(data) <= Len(data)
        /\ Len(Marker) \in Nat
  BY MarkerFacts
<1>2. s \in Seq(Byte) /\ Len(s) = Len(data) - a
  BY ONLY data \in Seq(Byte), <1>1, SliceElements
<1>3. MarkerAt(s, j) <=> MarkerAt(data, a + j)
  BY MarkerInRest
<1> HIDE DEF s
<1>4. a + j \in Nat /\ (j + Len(Marker) <= Len(s) <=> (a + j) + Len(Marker) <= Len(data))
  BY <1>1, <1>2
<1>5. j \in Offsets(s) <=> j + Len(Marker) <= Len(s) /\ MarkerAt(s, j)
  BY <1>2, OffsetFacts
<1>6. a + j \in Offsets(data) <=> (a + j) + Len(Marker) <= Len(data) /\ MarkerAt(data, a + j)
  BY <1>4, OffsetFacts
<1>7. j \in Offsets(s) <=> a + j \in Offsets(data)
  BY <1>3, <1>4, <1>5, <1>6
<1> QED BY <1>7 DEF s

LEMMA OldOffsets ==
  ASSUME NEW data \in Seq(Byte), NEW more \in Seq(Byte)
  PROVE  /\ Offsets(data) \subseteq Offsets(data \o more)
         /\ \A j \in Offsets(data \o more) :
              j + Len(Marker) <= Len(data) => j \in Offsets(data)
<1>1. data \o more \in Seq(Byte) /\ Len(data \o more) = Len(data) + Len(more)
        /\ Len(data) \in Nat /\ Len(more) \in Nat /\ Len(Marker) \in Nat
  BY MarkerFacts
<1>2. ASSUME NEW j \in Offsets(data) PROVE j \in Offsets(data \o more)
  <2>1. j \in Nat /\ j + Len(Marker) <= Len(data) /\ MarkerAt(data, j)
    BY OffsetFacts
  <2>2. MarkerAt(data \o more, j) /\ j + Len(Marker) <= Len(data \o more)
    BY <1>1, <2>1, MarkerInMore
  <2> QED BY <1>1, <2>1, <2>2, OffsetFacts
<1>3. ASSUME NEW j \in Offsets(data \o more), j + Len(Marker) <= Len(data)
      PROVE  j \in Offsets(data)
  <2>1. j \in Nat /\ MarkerAt(data \o more, j)
    BY <1>1, OffsetFacts
  <2>2. MarkerAt(data, j)
    BY <1>3, <2>1, MarkerInMore
  <2> QED BY <1>3, <2>1, <2>2, OffsetFacts
<1> QED BY <1>2, <1>3

\* From one mark on, the marks of the rest are those of the whole: what the
\* reader releases continues what it has released.
LEMMA Grow ==
  ASSUME NEW f \in Seq(Byte), NEW D \in Offsets(f),
         NEW Q, Lists(Q, {j \in Offsets(f) : j < D}),
         NEW rest, rest = Slice(f, D, Len(f)),
         NEW marks, marks = SegmentOffsets(rest),
         NEW S, S = SegmentOffsets(f)
  PROVE  /\ rest \in Seq(Byte) /\ Len(rest) = Len(f) - D
         /\ Len(marks) \in Nat /\ Len(marks) >= 1 /\ marks[1] = 0
         /\ S[1] = Append(Q, D)[1]
         /\ Between(f, S) = Between(f, Append(Q, D)) \o Between(rest, marks)
         /\ Slice(rest, marks[Len(marks)], Len(rest)) = Slice(f, S[Len(S)], Len(f))
<1> DEFINE B == {j \in Offsets(f) : j < D}
           q == Len(Q)
           m == Len(marks)
           At(k) == IF k <= q THEN Q[k] ELSE D + marks[k - q]
           T == [k \in 1 .. q + m |-> At(k)]
           R == Append(Q, D)
<1>1. /\ Len(f) \in Nat /\ D \in Nat /\ D <= Len(f) /\ D \in 0 .. Len(f)
      /\ Len(f) <= Len(f)
  BY DEF Offsets
<1>2. rest \in Seq(Byte) /\ Len(rest) = Len(f) - D /\ Len(rest) \in Nat
  <2>1. Slice(f, D, Len(f)) \in Seq(Byte) /\ Len(Slice(f, D, Len(f))) = Len(f) - D
    BY ONLY f \in Seq(Byte), <1>1, SliceElements
  <2> QED BY <1>1, <2>1
<1>3. \A j \in Nat : j \in Offsets(rest) <=> D + j \in Offsets(f)
  BY <1>1, RestOffsets
<1>4. Lists(marks, Offsets(rest)) /\ Bounds(rest, marks)
  BY <1>2, SegmentOffsetsList, MarkFacts
<1>5. marks \in Seq(Nat) /\ m \in Nat
        /\ \A i \in 1 .. m : marks[i] \in Nat /\ marks[i] \in Offsets(rest)
  BY <1>4, SeqElements DEF Lists
<1>6. Q \in Seq(Nat) /\ q \in Nat
        /\ \A i \in 1 .. q : Q[i] \in Nat /\ Q[i] \in Offsets(f) /\ Q[i] < D
  <2>1. Q \in Seq(Nat) /\ \A i \in 1 .. q : Q[i] \in B
    BY DEF Lists
  <2>2. q \in Nat /\ \A i \in 1 .. q : Q[i] \in Nat
    BY <2>1, SeqElements
  <2> QED BY <2>1, <2>2
<1>7. m >= 1 /\ marks[1] = 0 /\ 1 \in 1 .. m
  <2>1. 0 \in Offsets(rest)
    <3>1. D + 0 = D
      BY <1>1
    <3> QED BY <1>3, <3>1
  <2>2. PICK i \in 1 .. m : marks[i] = 0
    BY <1>4, <2>1 DEF Lists
  <2>3. 1 \in 1 .. m /\ m >= 1
    BY <1>5, <2>2
  <2>4. 1 < i => marks[1] < marks[i]
    BY <1>4, <2>3 DEF Lists, Rises
  <2>5. marks[1] \in Nat /\ i \in Nat /\ i >= 1
    BY <1>5, <2>3
  <2>6. ~ (1 < i)
    BY ONLY <2>2, <2>4, <2>5
  <2>7. i = 1
    BY ONLY <2>5, <2>6
  <2> QED BY <2>2, <2>3, <2>7
<1> HIDE DEF q, m
<1>8. \A k \in 1 .. q : k \in 1 .. q + m /\ k <= q /\ T[k] = Q[k]
  BY <1>5, <1>6
<1>9. \A i \in 1 .. m : q + i \in 1 .. q + m /\ ~ (q + i <= q) /\ T[q + i] = D + marks[i]
  <2> TAKE i \in 1 .. m
  <2>1. q + i \in 1 .. q + m /\ ~ (q + i <= q) /\ (q + i) - q = i
    BY <1>5, <1>6
  <2>2. At(q + i) = D + marks[i]
    BY ONLY <2>1
  <2> HIDE DEF At
  <2> QED BY <2>1, <2>2
<1>10. T \in Seq(Nat) /\ Len(T) = q + m /\ q + m \in Nat
  <2>1. q + m \in Nat
    BY <1>5, <1>6
  <2>2. ASSUME NEW k \in 1 .. q + m PROVE At(k) \in Nat
    <3>1. CASE k <= q
      BY <1>5, <1>6, <3>1
    <3>2. CASE ~ (k <= q)
      <4>1. k - q \in 1 .. m
        BY <1>5, <1>6, <3>2
      <4> QED BY <1>1, <1>5, <3>2, <4>1
    <3> QED BY <3>1, <3>2
  <2> HIDE DEF At
  <2> QED BY <2>1, <2>2
<1> HIDE DEF T, At
<1>11. \A k \in 1 .. q + m : k \in 1 .. q \/ \E i \in 1 .. m : k = q + i
  <2> TAKE k \in 1 .. q + m
  <2>1. CASE k <= q
    BY <1>5, <1>6, <2>1
  <2>2. CASE ~ (k <= q)
    <3>1. k - q \in 1 .. m /\ k = q + (k - q)
      BY <1>5, <1>6, <2>2
    <3> QED BY <3>1
  <2> QED BY <2>1, <2>2
<1>12. Rises(T)
  <2> SUFFICES ASSUME NEW a \in 1 .. q + m, NEW b \in 1 .. q + m, a < b
               PROVE  T[a] < T[b]
    BY <1>10 DEF Rises
  <2>1. CASE a \in 1 .. q /\ b \in 1 .. q
    <3>1. Q[a] < Q[b]
      BY <2>1 DEF Lists, Rises, q
    <3> QED BY <1>8, <2>1, <3>1
  <2>2. ASSUME a \in 1 .. q, NEW i \in 1 .. m, b = q + i
        PROVE  T[a] < T[b]
    <3>1. T[a] = Q[a] /\ T[b] = D + marks[i] /\ Q[a] < D /\ Q[a] \in Nat /\ marks[i] \in Nat
      BY <1>5, <1>6, <1>8, <1>9, <2>2
    <3> QED BY <1>1, <3>1
  <2>3. ASSUME NEW i \in 1 .. m, a = q + i, NEW k \in 1 .. m, b = q + k
        PROVE  T[a] < T[b]
    <3>1. i < k
      BY <1>5, <1>6, <2>3
    <3>2. marks[i] < marks[k]
      BY <1>4, <3>1 DEF Lists, Rises, m
    <3>3. T[a] = D + marks[i] /\ T[b] = D + marks[k] /\ marks[i] \in Nat /\ marks[k] \in Nat
      BY <1>5, <1>9, <2>3
    <3> QED BY <1>1, <3>2, <3>3
  <2>4. ~ (b \in 1 .. q /\ \E i \in 1 .. m : a = q + i)
    BY <1>5, <1>6
  <2> QED BY <1>11, <2>1, <2>2, <2>3, <2>4
<1>13. \A k \in 1 .. q + m : T[k] \in Offsets(f)
  <2> TAKE k \in 1 .. q + m
  <2>1. CASE k \in 1 .. q
    BY <1>6, <1>8, <2>1
  <2>2. ASSUME NEW i \in 1 .. m, k = q + i
        PROVE  T[k] \in Offsets(f)
    <3>1. D + marks[i] \in Offsets(f)
      BY <1>3, <1>5
    <3> QED BY <1>9, <2>2, <3>1
  <2> QED BY <1>11, <2>1, <2>2
<1>14. ASSUME NEW j \in Offsets(f)
       PROVE  \E k \in 1 .. q + m : T[k] = j
  <2>1. j \in Nat
    BY <1>1 DEF Offsets
  <2>2. CASE j < D
    <3>1. j \in B
      BY <2>2
    <3>2. PICK i \in 1 .. q : Q[i] = j
      BY <3>1 DEF Lists, q
    <3> QED BY <1>8, <3>2
  <2>3. CASE ~ (j < D)
    <3>1. j - D \in Nat /\ D + (j - D) = j
      BY <1>1, <2>1, <2>3
    <3>2. j - D \in Offsets(rest)
      BY <1>3, <3>1
    <3>3. PICK i \in 1 .. m : marks[i] = j - D
      BY <1>4, <3>2 DEF Lists, m
    <3>4. q + i \in 1 .. q + m /\ T[q + i] = j
      BY <1>9, <3>1, <3>3
    <3> QED BY <3>4
  <2> QED BY <2>2, <2>3
<1>15. Lists(T, Offsets(f))
  BY <1>10, <1>12, <1>13, <1>14 DEF Lists
<1>16. S = T
  <2>1. Lists(S, Offsets(f))
    BY SegmentOffsetsList
  <2> QED BY ONLY <1>15, <2>1, ListIsUnique
<1>17. /\ R \in Seq(Nat) /\ Len(R) = q + 1 /\ R[q + 1] = D
       /\ \A k \in 1 .. q : R[k] = Q[k]
  BY <1>1, <1>6 DEF q
<1> HIDE DEF R
<1>18. \A k \in 1 .. q + 1 : k \in 1 .. q + m /\ R[k] = T[k]
  <2> TAKE k \in 1 .. q + 1
  <2>1. CASE k \in 1 .. q
    BY <1>8, <1>17, <2>1
  <2>2. CASE k = q + 1
    <3>1. T[q + 1] = D + 0
      BY <1>7, <1>9
    <3> QED BY <1>1, <1>7, <1>9, <1>17, <2>2, <3>1
  <2> QED BY <1>6, <2>1, <2>2
<1>19. S[1] = R[1]
  <2>1. 1 \in 1 .. q + 1
    BY <1>6
  <2> QED BY <1>16, <1>18, <2>1
<1>20. Bounds(f, S) /\ Bounds(f, R) /\ S # <<>> /\ R # <<>> /\ marks # <<>>
  <2>1. Bounds(f, S)
    BY MarkFacts
  <2>2. q + 1 \in 1 .. q + m /\ Len(S) = q + m
    BY <1>10, <1>16, <1>18, <1>6
  <2>3. Bounds(f, R)
    <3>1. \A k \in 1 .. q + 1 : R[k] <= Len(f)
      BY <1>16, <1>18, <2>1, <2>2 DEF Bounds
    <3>2. \A i, k \in 1 .. q + 1 : i < k => R[i] < R[k]
      BY <1>10, <1>12, <1>18 DEF Rises
    <3> QED BY <1>17, <3>1, <3>2 DEF Bounds, Rises
  <2>4. Len(S) >= 1 /\ Len(R) >= 1 /\ Len(marks) >= 1
    BY <1>6, <1>7, <1>17, <2>2, <1>5 DEF m
  <2> QED BY <2>1, <2>3, <2>4
<1> DEFINE ps == Between(f, S)
           pr == Between(f, R)
           pm == Between(rest, marks)
<1>21. /\ ps \in Seq(Seq(Byte)) /\ Len(ps) = (q + m) - 1
       /\ \A k \in 1 .. (q + m) - 1 : ps[k] = Slice(f, S[k], S[k + 1])
  <2>1. Len(S) = q + m
    BY <1>10, <1>16
  <2>2. /\ ps \in Seq(Seq(Byte)) /\ Len(ps) = Len(S) - 1
        /\ \A k \in 1 .. Len(S) - 1 : ps[k] = Slice(f, S[k], S[k + 1])
    BY ONLY f \in Seq(Byte), <1>20, PiecesTyped
  <2> HIDE DEF ps
  <2> QED BY ONLY <2>1, <2>2
<1>22. /\ pr \in Seq(Seq(Byte)) /\ Len(pr) = (q + 1) - 1
       /\ \A k \in 1 .. (q + 1) - 1 : pr[k] = Slice(f, R[k], R[k + 1])
  <2>2. /\ pr \in Seq(Seq(Byte)) /\ Len(pr) = Len(R) - 1
        /\ \A k \in 1 .. Len(R) - 1 : pr[k] = Slice(f, R[k], R[k + 1])
    BY ONLY f \in Seq(Byte), <1>20, PiecesTyped
  <2> HIDE DEF pr
  <2> QED BY ONLY <1>17, <2>2
<1>23. /\ pm \in Seq(Seq(Byte)) /\ Len(pm) = m - 1
       /\ \A k \in 1 .. m - 1 : pm[k] = Slice(rest, marks[k], marks[k + 1])
  <2>2. /\ pm \in Seq(Seq(Byte)) /\ Len(pm) = Len(marks) - 1
        /\ \A k \in 1 .. Len(marks) - 1 : pm[k] = Slice(rest, marks[k], marks[k + 1])
    BY ONLY <1>2, <1>4, <1>20, PiecesTyped
  <2> HIDE DEF pm
  <2> QED BY ONLY <2>2 DEF m
<1> HIDE DEF ps, pr, pm
<1> DEFINE u == pr \o pm
<1>24. /\ u \in Seq(Seq(Byte)) /\ Len(u) = Len(pr) + Len(pm)
       /\ \A i \in 1 .. Len(pr) : u[i] = pr[i]
       /\ \A i \in 1 .. Len(pm) : u[Len(pr) + i] = pm[i]
  <2>1. pr \in Seq(Seq(Byte)) /\ pm \in Seq(Seq(Byte))
    BY <1>22, <1>23
  <2> QED BY ONLY <2>1, JoinElements
<1> HIDE DEF u
<1>25. Len(pr) = q /\ Len(u) = Len(ps) /\ Len(ps) = q + (m - 1) /\ Len(pm) = m - 1
  BY <1>5, <1>6, <1>21, <1>22, <1>23, <1>24
<1>26. ASSUME NEW k \in 1 .. Len(ps) PROVE ps[k] = u[k]
  <2>1. k \in 1 .. (q + m) - 1 /\ ps[k] = Slice(f, S[k], S[k + 1])
    BY <1>21
  <2>2. CASE k \in 1 .. q
    <3>1. k \in 1 .. q + 1 /\ k + 1 \in 1 .. q + 1 /\ k \in 1 .. (q + 1) - 1
      BY <1>6, <2>2
    <3>2. u[k] = pr[k] /\ pr[k] = Slice(f, R[k], R[k + 1])
      BY <1>22, <1>24, <1>25, <2>2, <3>1
    <3>3. R[k] = S[k] /\ R[k + 1] = S[k + 1]
      BY <1>16, <1>18, <3>1
    <3> QED BY <2>1, <3>2, <3>3
  <2>3. CASE ~ (k <= q)
    <3> DEFINE i == k - q
    <3>1. i \in 1 .. m - 1 /\ i \in 1 .. m /\ i + 1 \in 1 .. m /\ k = q + i /\ k + 1 = q + (i + 1)
      BY <1>5, <1>6, <2>1, <2>3
    <3> HIDE DEF i
    <3>2. S[k] = D + marks[i] /\ S[k + 1] = D + marks[i + 1]
      BY <1>9, <1>16, <3>1
    <3>3. u[k] = pm[i] /\ pm[i] = Slice(rest, marks[i], marks[i + 1])
      BY <1>23, <1>24, <1>25, <3>1
    <3>4. marks[i] \in Nat /\ marks[i + 1] \in Nat /\ marks[i] < marks[i + 1]
            /\ marks[i + 1] <= Len(rest)
      <4>1. i < i + 1
        BY <3>1
      <4> QED BY <1>4, <1>5, <3>1, <4>1 DEF Bounds, Rises, m
    <3>5. marks[i] <= marks[i + 1] /\ D + marks[i + 1] <= Len(f)
      BY <1>1, <1>2, <3>4
    <3>6. Slice(Slice(f, D, Len(f)), marks[i], marks[i + 1])
            = Slice(f, D + marks[i], D + marks[i + 1])
      BY ONLY f \in Seq(Byte), <1>1, <3>4, <3>5, SliceOfSlice
    <3> QED BY <2>1, <3>2, <3>3, <3>6
  <2> QED BY <1>5, <1>6, <2>1, <2>2, <2>3
<1>27. ps = u
  BY ONLY <1>21, <1>24, <1>25, <1>26, SequencesEqual
<1>28. Slice(rest, marks[m], Len(rest)) = Slice(f, S[Len(S)], Len(f))
  <2>1. m \in 1 .. m /\ S[Len(S)] = D + marks[m] /\ marks[m] \in Nat
    BY <1>5, <1>7, <1>9, <1>10, <1>16
  <2>2. marks[m] <= Len(rest)
    BY <1>4, <2>1 DEF Bounds, m
  <2>3. D + Len(rest) = Len(f) /\ D + Len(rest) <= Len(f)
    BY <1>1, <1>2
  <2>4. Slice(Slice(f, D, Len(f)), marks[m], Len(rest)) = Slice(f, D + marks[m], D + Len(rest))
    BY ONLY f \in Seq(Byte), <1>1, <1>2, <2>1, <2>2, <2>3, SliceOfSlice
  <2> QED BY <2>1, <2>3, <2>4
<1>29. Between(f, S) = Between(f, Append(Q, D)) \o Between(rest, marks)
  BY ONLY <1>27 DEF ps, u, pr, pm, R
<1>30. S[1] = Append(Q, D)[1]
  BY ONLY <1>19 DEF R
<1> QED BY <1>2, <1>5, <1>7, <1>28, <1>29, <1>30 DEF m

-----------------------------------------------------------------------------
(* The invariant: what the reader holds and has released, as a function of     *)
(* the bytes fed.                                                            *)
ReaderTyped == fed \in Seq(Byte) /\ started \in BOOLEAN /\ flushed \in BOOLEAN

BeforeStart ==
    /\ Offsets(fed) = {} /\ emitted = <<>>
    /\ dropped = IF Len(fed) > Keep THEN Len(fed) - Keep ELSE 0
    /\ buf = Slice(fed, dropped, Len(fed))

AfterStart ==
    /\ Offsets(fed) # {} /\ dropped = FirstMark(fed)
    /\ flushed => emitted = SplitSegments(fed) /\ buf = <<>>
    /\ ~flushed => /\ emitted = Between(fed, SegmentOffsets(fed))
                   /\ buf = Slice(fed, LastMark(fed), Len(fed))

ReaderInv == ReaderTyped /\ (~started => BeforeStart) /\ (started => AfterStart)

LEMMA BeforeStartTyped ==
  ASSUME ReaderTyped, BeforeStart
  PROVE  /\ dropped \in Nat /\ dropped \in 0 .. Len(fed) /\ Len(fed) \in Nat
         /\ buf \in Seq(Byte) /\ Len(buf) = Len(fed) - dropped /\ Len(buf) <= Keep
<1>1. Len(fed) \in Nat /\ Keep \in Nat /\ fed \in Seq(Byte)
  BY MarkerFacts DEF ReaderTyped
<1>2. dropped = IF Len(fed) > Keep THEN Len(fed) - Keep ELSE 0
  BY DEF BeforeStart
<1>3. dropped \in Nat /\ dropped <= Len(fed) /\ Len(fed) - dropped <= Keep /\ Len(fed) <= Len(fed)
  BY ONLY <1>1, <1>2
<1>4. buf \in Seq(Byte) /\ Len(buf) = Len(fed) - dropped
  <2>1. /\ Slice(fed, dropped, Len(fed)) \in Seq(Byte)
        /\ Len(Slice(fed, dropped, Len(fed))) = Len(fed) - dropped
    BY ONLY <1>1, <1>3, SliceElements
  <2> QED BY <2>1 DEF BeforeStart
<1> QED BY <1>1, <1>3, <1>4

LEMMA MarkRange ==
  ASSUME NEW f \in Seq(Byte), Offsets(f) # {}
  PROVE  /\ Len(f) \in Nat
         /\ FirstMark(f) \in Nat /\ LastMark(f) \in Nat /\ LastMark(f) \in 0 .. Len(f)
         /\ FirstMark(f) <= LastMark(f) /\ LastMark(f) < Len(f)
         /\ \A j \in Offsets(f) : j <= LastMark(f)
         /\ LastMark(f) + Len(Marker) <= Len(f)
<1>1. FirstMark(f) \in Offsets(f) /\ LastMark(f) \in Offsets(f)
        /\ \A j \in Offsets(f) : FirstMark(f) <= j /\ j <= LastMark(f)
  BY MarkFacts
<1>2. \A j \in Offsets(f) : j \in Nat /\ j + Len(Marker) <= Len(f)
  BY OffsetFacts
<1> QED BY <1>1, <1>2, MarkerFacts

\* The whole split: what has been released, and then the segment still held.
LEMMA WholeSplit ==
  ASSUME NEW f \in Seq(Byte), Offsets(f) # {}
  PROVE  /\ SplitSegments(f) = Append(Between(f, SegmentOffsets(f)), Slice(f, LastMark(f), Len(f)))
         /\ Between(f, SegmentOffsets(f)) \in Seq(Seq(Byte))
         /\ Slice(f, LastMark(f), Len(f)) \in Seq(Byte)
         /\ Len(Slice(f, LastMark(f), Len(f))) = Len(f) - LastMark(f)
         /\ Len(FlattenSeq(Between(f, SegmentOffsets(f)))) = LastMark(f) - FirstMark(f)
         /\ Len(FlattenSeq(SplitSegments(f))) = Len(f) - FirstMark(f)
<1> DEFINE s == SegmentOffsets(f)
           n == Len(s)
           t == Append(s, Len(f))
           p == Between(f, s)
           w == Between(f, t)
           e == Slice(f, LastMark(f), Len(f))
           a == Append(p, e)
<1>1. /\ Len(f) \in Nat /\ LastMark(f) \in Nat /\ LastMark(f) <= Len(f) /\ Len(f) <= Len(f)
      /\ LastMark(f) < Len(f)
  BY MarkRange
<1>2. s \in Seq(Nat) /\ Bounds(f, s) /\ n \in Nat /\ n >= 1 /\ s # <<>>
  BY MarkFacts
<1>3. s[n] = LastMark(f) /\ s[1] = FirstMark(f)
  BY DEF LastMark, FirstMark
<1>4. \A i \in 1 .. n : s[i] \in Nat /\ s[i] <= s[n] /\ s[i] < Len(f)
  <2> TAKE i \in 1 .. n
  <2>1. s[i] \in Nat /\ n \in 1 .. n
    BY <1>2, SeqElements
  <2>2. i < n => s[i] < s[n]
    BY <1>2, <2>1 DEF Bounds, Rises
  <2>3. s[i] <= s[n]
    BY <1>1, <1>2, <1>3, <2>1, <2>2
  <2> QED BY <1>1, <1>3, <2>1, <2>3
<1> HIDE DEF s
<1>5. /\ t \in Seq(Nat) /\ Len(t) = n + 1 /\ t[n + 1] = Len(f)
      /\ \A i \in 1 .. n : t[i] = s[i]
  BY <1>1, <1>2
<1> HIDE DEF t
<1>6. Bounds(f, t) /\ t # <<>>
  <2>1. \A i \in 1 .. n + 1 : t[i] <= Len(f)
    <3> TAKE i \in 1 .. n + 1
    <3>1. i = n + 1 \/ i \in 1 .. n
      BY <1>2
    <3> QED BY <1>1, <1>4, <1>5, <3>1
  <2>2. \A i, k \in 1 .. n + 1 : i < k => t[i] < t[k]
    <3> SUFFICES ASSUME NEW i \in 1 .. n + 1, NEW k \in 1 .. n + 1, i < k
                 PROVE  t[i] < t[k]
      OBVIOUS
    <3>1. i \in 1 .. n /\ (k = n + 1 \/ k \in 1 .. n)
      BY <1>2
    <3>2. k \in 1 .. n => s[i] < s[k]
      BY <1>2, <3>1 DEF Bounds, Rises
    <3> QED BY <1>4, <1>5, <3>1, <3>2
  <2>3. Len(t) # 0
    BY <1>2, <1>5
  <2> QED BY <1>5, <2>1, <2>2, <2>3 DEF Bounds, Rises
<1>7. /\ p \in Seq(Seq(Byte)) /\ Len(p) = n - 1
      /\ \A k \in 1 .. n - 1 : p[k] = Slice(f, s[k], s[k + 1])
  BY ONLY f \in Seq(Byte), <1>2, PiecesTyped
<1>8. /\ w \in Seq(Seq(Byte)) /\ Len(w) = n
      /\ \A k \in 1 .. n : w[k] = Slice(f, t[k], t[k + 1])
  <2>1. /\ w \in Seq(Seq(Byte)) /\ Len(w) = Len(t) - 1
        /\ \A k \in 1 .. Len(t) - 1 : w[k] = Slice(f, t[k], t[k + 1])
    BY ONLY f \in Seq(Byte), <1>6, PiecesTyped
  <2>2. Len(t) - 1 = n
    BY <1>2, <1>5
  <2> HIDE DEF w, n
  <2> QED BY ONLY <2>1, <2>2
<1>9. e \in Seq(Byte) /\ Len(e) = Len(f) - LastMark(f)
  BY ONLY f \in Seq(Byte), <1>1, SliceElements
<1> DEFINE z == Len(FlattenSeq(p))
           y == Len(FlattenSeq(w))
<1>10. z = s[n] - s[1]
  BY ONLY f \in Seq(Byte), <1>2, PiecesJoin
<1>11. y = Len(f) - s[1]
  <2>1. y = t[Len(t)] - t[1]
    BY ONLY f \in Seq(Byte), <1>6, PiecesJoin
  <2>2. 1 \in 1 .. n
    BY <1>2
  <2> HIDE DEF y
  <2> QED BY <1>5, <2>1, <2>2
<1> HIDE DEF p, w, e, z, y
<1>12. w = a
  <2>1. /\ a \in Seq(Seq(Byte)) /\ Len(a) = (n - 1) + 1 /\ a[(n - 1) + 1] = e
        /\ \A i \in 1 .. n - 1 : a[i] = p[i]
    BY <1>2, <1>7, <1>9
  <2> HIDE DEF a, n
  <2>2. ASSUME NEW k \in 1 .. Len(w) PROVE w[k] = a[k]
    <3>1. k \in 1 .. n /\ w[k] = Slice(f, t[k], t[k + 1])
      BY <1>8
    <3>2. CASE k \in 1 .. n - 1
      <4>1. k + 1 \in 1 .. n
        BY <1>2, <3>2
      <4> QED BY <1>5, <1>7, <2>1, <3>1, <3>2, <4>1
    <3>3. CASE k = n
      <4>1. (n - 1) + 1 = k
        BY <1>2, <3>3
      <4>2. a[k] = e
        BY <2>1, <4>1
      <4>3. w[k] = Slice(f, s[n], Len(f))
        BY <1>5, <3>1, <3>3
      <4> QED BY <1>3, <4>2, <4>3 DEF e
    <3> QED BY <1>2, <3>1, <3>2, <3>3
  <2>3. Len(w) = Len(a)
    BY <1>2, <1>8, <2>1
  <2> QED BY ONLY <1>8, <2>1, <2>2, <2>3, SequencesEqual
<1>13. SplitSegments(f) = w
  BY <1>2 DEF SplitSegments, w, t, s
<1>14. Len(FlattenSeq(p)) = LastMark(f) - FirstMark(f)
  BY ONLY <1>3, <1>10 DEF z
<1>15. Len(FlattenSeq(w)) = Len(f) - FirstMark(f)
  BY ONLY <1>3, <1>11 DEF y
<1> HIDE DEF a
<1>16. SplitSegments(f) = a /\ Len(FlattenSeq(SplitSegments(f))) = Len(f) - FirstMark(f)
  BY ONLY <1>12, <1>13, <1>15
<1> QED BY ONLY <1>7, <1>9, <1>14, <1>16 DEF a, p, e, s

LEMMA SplitNothing ==
  ASSUME NEW f \in Seq(Byte), Offsets(f) = {}
  PROVE  SplitSegments(f) = <<>>
BY MarkFacts DEF SplitSegments

-----------------------------------------------------------------------------
LEMMA InitHolds == ReaderInit => ReaderInv
<1> SUFFICES ASSUME ReaderInit PROVE ReaderInv
  OBVIOUS
<1> USE DEF ReaderInit
<1>1. <<>> \in Seq(Byte) /\ Len(<<>>) = 0
  OBVIOUS
<1>2. Offsets(<<>>) = {}
  <2> SUFFICES ASSUME NEW j \in Offsets(<<>>) PROVE FALSE
    OBVIOUS
  <2>1. j \in Nat /\ j + Len(Marker) <= Len(<<>>)
    BY <1>1, OffsetFacts
  <2> QED BY <1>1, <2>1, MarkerFacts
<1>3. Slice(<<>>, 0, Len(<<>>)) = <<>>
  BY <1>1, SliceWhole
<1>4. ~ (0 > Keep)
  BY MarkerFacts
<1>5. BeforeStart
  <2>1. Len(fed) = 0 /\ dropped = 0 /\ fed = <<>> /\ buf = <<>> /\ emitted = <<>>
    BY <1>1
  <2>2. dropped = IF Len(fed) > Keep THEN Len(fed) - Keep ELSE 0
    BY <1>4, <2>1
  <2>3. Offsets(fed) = {}
    BY <1>2, <2>1
  <2>4. buf = Slice(fed, dropped, Len(fed))
    BY <1>1, <1>3, <2>1
  <2> QED BY ONLY <2>1, <2>2, <2>3, <2>4 DEF BeforeStart
<1>6. ReaderTyped /\ ~started
  BY <1>1 DEF ReaderTyped
<1> QED BY <1>5, <1>6 DEF ReaderInv

LEMMA ChunksAreBytes ==
  ASSUME NEW chunk \in Chunks
  PROVE  chunk \in Seq(Byte)
<1>1. PICK n \in 1 .. MaxChunk : chunk \in [1 .. n -> Byte]
  BY DEF Chunks
<1>2. n \in Nat
  BY SegmentReaderAssumption
<1> QED BY <1>1, <1>2

\* No marker yet, before the chunk or with it.
LEMMA WaitingHolds ==
  ASSUME ReaderInv, ~flushed, NEW chunk \in Seq(Byte),
         fed' = fed \o chunk, FeedBeforeStart(buf \o chunk), flushed' = flushed
  PROVE  ReaderInv'
<1> DEFINE f == fed \o chunk
           d == dropped
           data == buf \o chunk
           extra == IF Len(data) > Keep THEN Len(data) - Keep ELSE 0
<1>1. ReaderTyped /\ BeforeStart /\ ~started /\ fed \in Seq(Byte)
  BY DEF ReaderInv, ReaderTyped, FeedBeforeStart
<1>2. /\ d \in Nat /\ d \in 0 .. Len(fed) /\ Len(fed) \in Nat
      /\ buf \in Seq(Byte) /\ Len(buf) = Len(fed) - d
  BY <1>1, BeforeStartTyped
<1>3. f \in Seq(Byte) /\ Len(f) = Len(fed) + Len(chunk) /\ Len(chunk) \in Nat
        /\ data \in Seq(Byte) /\ Len(data) = Len(buf) + Len(chunk)
  BY <1>1, <1>2
<1>4. data = Slice(f, d, Len(f))
  <2>1. buf = Slice(fed, d, Len(fed))
    BY <1>1 DEF BeforeStart
  <2> QED BY <1>1, <1>2, <2>1, SliceThenMore
<1>5. Len(data) = Len(f) - d /\ d \in 0 .. Len(f) /\ Len(f) \in Nat /\ Len(data) \in Nat
  BY <1>2, <1>3
<1>6. d = IF Len(fed) > Keep THEN Len(fed) - Keep ELSE 0
  BY <1>1 DEF BeforeStart
<1>7. Keep \in Nat /\ Keep = Len(Marker) - 1 /\ Len(Marker) \in Nat
  BY MarkerFacts DEF Keep
<1>8. Offsets(f) = {}
  <2> SUFFICES ASSUME NEW j \in Offsets(f) PROVE FALSE
    OBVIOUS
  <2>1. j \in Nat
    BY <1>3, OffsetFacts
  <2>2. CASE j < d
    <3>1. j + Len(Marker) <= Len(fed)
      BY ONLY <1>2, <1>6, <1>7, <2>1, <2>2
    <3>2. j \in Offsets(fed)
      BY <1>1, <3>1, OldOffsets
    <3> QED BY <1>1, <3>2 DEF BeforeStart
  <2>3. CASE ~ (j < d)
    <3>1. j - d \in Nat /\ d + (j - d) = j
      BY ONLY <1>2, <2>1, <2>3
    <3>2. j - d \in Offsets(data)
      BY <1>3, <1>4, <1>5, <3>1, RestOffsets
    <3> QED BY <3>2 DEF FeedBeforeStart
  <2> QED BY <2>2, <2>3
<1>9. dropped' = d + extra /\ buf' = Slice(data, extra, Len(data))
        /\ started' = started /\ emitted' = emitted
  BY DEF FeedBeforeStart
<1> HIDE DEF f, data
<1>10. /\ extra \in Nat /\ extra <= Len(data) /\ d + Len(data) = Len(f)
       /\ d + extra = IF Len(f) > Keep THEN Len(f) - Keep ELSE 0
  <2> DEFINE ld == Len(data)
             lf == Len(f)
             lo == Len(fed)
             lc == Len(chunk)
  <2>1. ld = lf - d /\ ld \in Nat /\ lf = lo + lc /\ lc \in Nat /\ lo \in Nat /\ d <= lo
    BY <1>2, <1>3, <1>5
  <2>2. d = IF lo > Keep THEN lo - Keep ELSE 0
    BY <1>6
  <2>3. extra = IF ld > Keep THEN ld - Keep ELSE 0
    OBVIOUS
  <2> HIDE DEF extra, ld, lf, lo, lc
  <2>4. /\ extra \in Nat /\ extra <= ld /\ d + ld = lf
        /\ d + extra = IF lf > Keep THEN lf - Keep ELSE 0
    <3> DEFINE k == Keep
    <3>1. k \in Nat /\ d \in Nat /\ d = (IF lo > k THEN lo - k ELSE 0)
            /\ extra = (IF ld > k THEN ld - k ELSE 0)
      BY <1>2, <1>7, <2>2, <2>3
    <3> HIDE DEF k
    <3>2. CASE lo > k
      BY ONLY <2>1, <3>1, <3>2 DEF k
    <3>3. CASE ~ (lo > k)
      BY ONLY <2>1, <3>1, <3>3 DEF k
    <3> QED BY ONLY <3>2, <3>3
  <2> QED BY <2>4 DEF ld, lf
<1>11. Slice(data, extra, Len(data)) = Slice(f, d + extra, Len(f))
  <2>1. d + Len(data) <= Len(f)
    BY <1>5, <1>10
  <2>2. Slice(Slice(f, d, Len(f)), extra, Len(data)) = Slice(f, d + extra, d + Len(data))
    <3> HIDE DEF extra
    <3> QED BY ONLY <1>3, <1>5, <1>10, <2>1, SliceOfSlice
  <2> QED BY <1>4, <1>10, <2>2
<1> HIDE DEF extra
<1>12. fed' = f
  BY DEF f
<1>13. BeforeStart'
  <2>1. Offsets(fed') = {} /\ emitted' = <<>>
    BY <1>1, <1>8, <1>9, <1>12 DEF BeforeStart
  <2>2. dropped' = IF Len(fed') > Keep THEN Len(fed') - Keep ELSE 0
    BY <1>9, <1>10, <1>12
  <2>3. buf' = Slice(fed', dropped', Len(fed'))
    BY <1>9, <1>11, <1>12
  <2> QED BY <2>1, <2>2, <2>3 DEF BeforeStart
<1>14. ReaderTyped'
  BY <1>1, <1>3, <1>9, <1>12 DEF ReaderTyped
<1>15. ~started'
  BY <1>1, <1>9
<1> QED BY <1>13, <1>14, <1>15 DEF ReaderInv

\* What a feed with a marker in it does, from the first marker it does not drop.
Released(rest, before) ==
    /\ emitted' = before \o Between(rest, SegmentOffsets(rest))
    /\ buf' = IF Len(SegmentOffsets(rest)) < 2 THEN rest
              ELSE Slice(rest, SegmentOffsets(rest)[Len(SegmentOffsets(rest))], Len(rest))

LEMMA ReleasedHolds ==
  ASSUME NEW f \in Seq(Byte), fed' = f, started' = TRUE, flushed' = FALSE,
         NEW D \in Offsets(f), NEW Q, Lists(Q, {j \in Offsets(f) : j < D}),
         Released(Slice(f, D, Len(f)), Between(f, Append(Q, D))),
         dropped' = Append(Q, D)[1]
  PROVE  ReaderInv'
<1> DEFINE rest == Slice(f, D, Len(f))
           marks == SegmentOffsets(rest)
           S == SegmentOffsets(f)
           before == Between(f, Append(Q, D))
<1>1. /\ rest \in Seq(Byte)
      /\ Len(marks) \in Nat /\ Len(marks) >= 1 /\ marks[1] = 0
      /\ S[1] = Append(Q, D)[1]
      /\ Between(f, S) = before \o Between(rest, marks)
      /\ Slice(rest, marks[Len(marks)], Len(rest)) = Slice(f, S[Len(S)], Len(f))
  BY ONLY f \in Seq(Byte), D \in Offsets(f), Lists(Q, {j \in Offsets(f) : j < D}), Grow
<1>2. emitted' = before \o Between(rest, marks)
        /\ buf' = IF Len(marks) < 2 THEN rest ELSE Slice(rest, marks[Len(marks)], Len(rest))
  BY DEF Released
<1> HIDE DEF rest, marks, before
<1>3. buf' = Slice(rest, marks[Len(marks)], Len(rest))
  <2>1. CASE Len(marks) < 2
    <3> DEFINE n == Len(marks)
    <3>3. n \in Nat /\ n >= 1 /\ n < 2
      BY <1>1, <2>1
    <3> HIDE DEF n
    <3>4. n = 1
      BY ONLY <3>3
    <3>1. Len(marks) = 1
      BY <3>4 DEF n
    <3>2. Slice(rest, 0, Len(rest)) = rest
      BY <1>1, SliceWhole
    <3> QED BY <1>1, <1>2, <2>1, <3>1, <3>2
  <2>2. CASE ~ (Len(marks) < 2)
    BY <1>2, <2>2
  <2> QED BY <2>1, <2>2
<1>4. emitted' = Between(f, S) /\ buf' = Slice(f, LastMark(f), Len(f)) /\ dropped' = FirstMark(f)
  BY <1>1, <1>2, <1>3 DEF LastMark, FirstMark
<1>5. AfterStart'
  BY <1>4 DEF AfterStart
<1> QED BY <1>5 DEF ReaderInv, ReaderTyped

LEMMA FirstMarkerHolds ==
  ASSUME ReaderInv, ~flushed, ~started, NEW chunk \in Seq(Byte),
         fed' = fed \o chunk, FeedSegments(buf \o chunk), flushed' = flushed
  PROVE  ReaderInv'
<1> DEFINE f == fed \o chunk
           d == dropped
           data == buf \o chunk
           first == Head(SegmentOffsets(data))
           D == d + first
<1>1. ReaderTyped /\ BeforeStart /\ fed \in Seq(Byte)
  BY DEF ReaderInv, ReaderTyped
<1>2. /\ d \in Nat /\ d \in 0 .. Len(fed) /\ Len(fed) \in Nat
      /\ buf \in Seq(Byte) /\ Len(buf) = Len(fed) - d
  BY <1>1, BeforeStartTyped
<1>3. f \in Seq(Byte) /\ Len(f) = Len(fed) + Len(chunk) /\ Len(chunk) \in Nat
        /\ data \in Seq(Byte) /\ Len(data) = Len(buf) + Len(chunk)
  BY <1>1, <1>2
<1>4. data = Slice(f, d, Len(f))
  <2>1. buf = Slice(fed, d, Len(fed))
    BY <1>1 DEF BeforeStart
  <2> QED BY <1>1, <1>2, <2>1, SliceThenMore
<1>5. Len(data) = Len(f) - d /\ d \in 0 .. Len(f) /\ Len(f) \in Nat /\ Len(data) \in Nat
  BY <1>2, <1>3
<1>6. d = IF Len(fed) > Keep THEN Len(fed) - Keep ELSE 0
  BY <1>1 DEF BeforeStart
<1>7. Keep \in Nat /\ Keep = Len(Marker) - 1 /\ Len(Marker) \in Nat
  BY MarkerFacts DEF Keep
<1>8. Offsets(data) # {}
  BY DEF FeedSegments
<1>9. first = FirstMark(data) /\ first \in Offsets(data)
        /\ \A j \in Offsets(data) : first <= j
  <2>1. SegmentOffsets(data) \in Seq(Nat) /\ SegmentOffsets(data) # <<>>
    BY <1>3, <1>8, MarkFacts
  <2>2. first = FirstMark(data)
    BY <2>1 DEF FirstMark
  <2> QED BY <1>3, <1>8, <2>2, MarkFacts
<1> DEFINE rest == Slice(data, first, Len(data))
<1>10. /\ dropped' = d + first /\ started' = TRUE
       /\ Released(rest, emitted)
  BY DEF FeedSegments, Released
<1> HIDE DEF f, data, first
<1>11. first \in Nat /\ first <= Len(data) /\ D \in Nat /\ d + Len(data) = Len(f)
         /\ d + Len(data) <= Len(f)
  <2>1. first \in Nat /\ first + Len(Marker) <= Len(data)
    BY <1>3, <1>9, OffsetFacts
  <2> QED BY <1>2, <1>5, <1>7, <2>1
<1>12. rest = Slice(f, D, Len(f))
  <2>1. f \in Seq(Byte) /\ d \in 0 .. Len(f) /\ first \in Nat /\ Len(data) \in Nat
          /\ first <= Len(data) /\ d + Len(data) <= Len(f)
    BY <1>3, <1>5, <1>11
  <2>2. Slice(Slice(f, d, Len(f)), first, Len(data)) = Slice(f, d + first, d + Len(data))
    BY ONLY <2>1, SliceOfSlice
  <2> QED BY <1>4, <1>11, <2>2
<1>13. D \in Offsets(f)
  <2>1. first \in Offsets(Slice(f, d, Len(f)))
    BY <1>4, <1>9
  <2> QED BY <1>3, <1>5, <1>11, <2>1, RestOffsets
<1>14. {j \in Offsets(f) : j < D} = {}
  <2> SUFFICES ASSUME NEW j \in Offsets(f), j < D PROVE FALSE
    OBVIOUS
  <2>1. j \in Nat
    BY <1>3, OffsetFacts
  <2>2. CASE j < d
    <3>1. j + Len(Marker) <= Len(fed)
      BY ONLY <1>2, <1>6, <1>7, <2>1, <2>2
    <3>2. j \in Offsets(fed)
      BY <1>1, <3>1, OldOffsets DEF f
    <3> QED BY <1>1, <3>2 DEF BeforeStart
  <2>3. CASE ~ (j < d)
    <3>1. j - d \in Nat /\ d + (j - d) = j
      BY ONLY <1>2, <2>1, <2>3
    <3>2. j - d \in Offsets(data)
      BY <1>3, <1>4, <1>5, <3>1, RestOffsets
    <3>3. first <= j - d
      BY <1>9, <3>2
    <3> QED BY <1>2, <1>11, <2>1, <3>1, <3>3
  <2> QED BY <2>2, <2>3
<1>15. Lists(<<>>, {j \in Offsets(f) : j < D})
  BY ONLY <1>14 DEF Lists, Rises
<1> HIDE DEF rest
<1>16. Append(<<>>, D) = <<D>> /\ <<D>>[1] = D /\ Len(<<D>>) = 1
  OBVIOUS
<1>17. emitted = Between(f, Append(<<>>, D))
  <2>1. emitted = <<>>
    BY <1>1 DEF BeforeStart
  <2>2. Between(f, <<D>>) = <<>>
    BY DEF Between
  <2> QED BY <1>16, <2>1, <2>2
<1>18. dropped' = Append(<<>>, D)[1]
  BY <1>10, <1>16
<1>19. Released(Slice(f, D, Len(f)), Between(f, Append(<<>>, D)))
  BY ONLY <1>10, <1>12, <1>17
<1>20. fed' = f /\ started' = TRUE /\ flushed' = FALSE
  BY <1>10 DEF f, ReaderInv, ReaderTyped
<1> HIDE DEF D
<1> QED BY ONLY <1>3, <1>13, <1>15, <1>18, <1>19, <1>20, ReleasedHolds

LEMMA NextSegmentHolds ==
  ASSUME ReaderInv, ~flushed, started, NEW chunk \in Seq(Byte),
         fed' = fed \o chunk, FeedSegments(buf \o chunk), flushed' = flushed
  PROVE  ReaderInv'
<1> DEFINE f == fed \o chunk
           M == SegmentOffsets(fed)
           n == Len(M)
           D == LastMark(fed)
           data == buf \o chunk
           Q == [k \in 1 .. n - 1 |-> M[k]]
           B == {j \in Offsets(f) : j < D}
<1>1. ReaderTyped /\ AfterStart /\ fed \in Seq(Byte) /\ Offsets(fed) # {}
  BY DEF ReaderInv, ReaderTyped, AfterStart
<1>2. /\ D \in Nat /\ D \in 0 .. Len(fed) /\ Len(fed) \in Nat
      /\ D + Len(Marker) <= Len(fed) /\ D < Len(fed)
      /\ \A j \in Offsets(fed) : j <= D
  BY <1>1, MarkRange
<1>3. f \in Seq(Byte) /\ Len(f) = Len(fed) + Len(chunk) /\ Len(chunk) \in Nat
  BY <1>1
<1>4. data = Slice(f, D, Len(f))
  <2>1. buf = Slice(fed, D, Len(fed))
    BY <1>1 DEF AfterStart
  <2> QED BY <1>1, <1>2, <2>1, SliceThenMore
<1>5. data \in Seq(Byte)
  <2>1. Len(f) \in Nat /\ D <= Len(f) /\ Len(f) <= Len(f)
    BY <1>2, <1>3
  <2>2. f \in Seq(Byte) /\ D \in Nat
    BY <1>2, <1>3
  <2> HIDE DEF f, D
  <2>3. Slice(f, D, Len(f)) \in Seq(Byte)
    BY ONLY <2>1, <2>2, SliceElements
  <2> QED BY <1>4, <2>3
<1>6. dropped' = dropped + 0 /\ started' = TRUE /\ Released(Slice(data, 0, Len(data)), emitted)
  BY DEF FeedSegments, Released
<1>7. Slice(data, 0, Len(data)) = data
  BY <1>5, SliceWhole
<1>8. D \in Offsets(fed) /\ FirstMark(fed) \in Nat
  BY <1>1, MarkFacts, MarkRange
<1>9. Offsets(fed) \subseteq Offsets(f)
        /\ \A j \in Offsets(f) : j + Len(Marker) <= Len(fed) => j \in Offsets(fed)
  BY <1>1, OldOffsets
<1> HIDE DEF f, data
<1>10. D \in Offsets(f)
  BY <1>8, <1>9
<1>11. Lists(M, Offsets(fed)) /\ M \in Seq(Nat) /\ n \in Nat /\ n >= 1
  BY <1>1, SegmentOffsetsList, MarkFacts
<1>12. M[n] = D /\ \A k \in 1 .. n : M[k] \in Nat /\ M[k] \in Offsets(fed)
  <2>1. M[n] = D
    BY DEF LastMark
  <2>2. \A k \in 1 .. n : M[k] \in Nat
    BY <1>11, SeqElements
  <2> QED BY <1>11, <2>1, <2>2 DEF Lists
<1>13. \A i, k \in 1 .. n : i < k => M[i] < M[k]
  BY <1>11 DEF Lists, Rises
<1> HIDE DEF M, D
<1>14. Q \in Seq(Nat) /\ Len(Q) = n - 1 /\ n - 1 \in Nat /\ \A k \in 1 .. n - 1 : Q[k] = M[k]
  <2>1. n - 1 \in Nat /\ \A k \in 1 .. n - 1 : M[k] \in Nat
    BY <1>11, <1>12
  <2> QED BY <2>1
<1> HIDE DEF Q, n
<1>15. Lists(Q, B)
  <2>1. Rises(Q)
    BY <1>11, <1>13, <1>14 DEF Rises
  <2>2. \A k \in 1 .. n - 1 : Q[k] \in B
    <3> TAKE k \in 1 .. n - 1
    <3>1. k \in 1 .. n /\ n \in 1 .. n /\ k < n
      BY <1>11
    <3>2. M[k] < D /\ M[k] \in Offsets(f)
      BY <1>9, <1>12, <1>13, <3>1
    <3> QED BY <1>14, <3>2
  <2>3. \A j \in B : \E k \in 1 .. n - 1 : Q[k] = j
    <3> TAKE j \in B
    <3>1. j \in Nat /\ j \in Offsets(f) /\ j < D
      BY <1>3, OffsetFacts
    <3>2. j + Len(Marker) <= Len(fed)
      BY <1>2, <3>1, MarkerFacts
    <3>3. j \in Offsets(fed)
      BY <1>9, <3>1, <3>2
    <3>4. PICK k \in 1 .. n : M[k] = j
      BY <1>11, <3>3 DEF Lists, n
    <3>5. k # n
      BY <1>2, <1>12, <3>1, <3>4
    <3>6. k \in 1 .. n - 1
      BY <1>11, <3>5
    <3> QED BY <1>14, <3>4, <3>6
  <2> HIDE DEF B
  <2> QED BY <1>14, <2>1, <2>2, <2>3 DEF Lists
<1>16. Append(Q, D) = M
  <2> DEFINE R == Append(Q, D)
  <2>1. /\ R \in Seq(Nat) /\ Len(R) = (n - 1) + 1 /\ R[(n - 1) + 1] = D
        /\ \A k \in 1 .. n - 1 : R[k] = Q[k]
    BY <1>2, <1>14
  <2> HIDE DEF R
  <2>2. ASSUME NEW k \in 1 .. Len(R) PROVE R[k] = M[k]
    <3>1. k \in 1 .. n - 1 \/ (k = n /\ k = (n - 1) + 1)
      BY <1>11, <2>1
    <3> QED BY <1>12, <1>14, <2>1, <3>1
  <2>3. Len(R) = Len(M)
    BY <1>11, <2>1 DEF n
  <2>4. R = M
    BY ONLY <1>11, <2>1, <2>2, <2>3, SequencesEqual
  <2> QED BY ONLY <2>4 DEF R
<1>17. emitted = Between(f, Append(Q, D))
  <2>1. emitted = Between(fed, M)
    BY <1>1 DEF AfterStart, M
  <2>2. ASSUME NEW k \in 1 .. n - 1
        PROVE  Slice(f, M[k], M[k + 1]) = Slice(fed, M[k], M[k + 1])
    <3>1. k \in 1 .. n /\ k + 1 \in 1 .. n /\ k < k + 1
      BY <1>11
    <3>2. M[k] \in Nat /\ M[k + 1] \in Nat /\ M[k] <= M[k + 1] /\ M[k + 1] <= Len(fed)
      <4>1. M[k] \in Nat /\ M[k + 1] \in Nat /\ M[k] < M[k + 1] /\ M[k + 1] <= D
        BY <1>2, <1>12, <1>13, <3>1
      <4> QED BY <1>2, <4>1
    <3> QED BY ONLY <1>1, chunk \in Seq(Byte), <3>2, SliceOfMore DEF f
  <2>3. Between(f, M) = Between(fed, M)
    BY ONLY <2>2 DEF Between, n
  <2> QED BY <1>16, <2>1, <2>3
<1>18. dropped' = Append(Q, D)[1]
  <2>1. dropped = FirstMark(fed)
    BY <1>1 DEF AfterStart
  <2>2. M[1] = FirstMark(fed)
    BY DEF FirstMark, M
  <2> QED BY <1>6, <1>8, <1>16, <2>1, <2>2
<1>19. Released(Slice(f, D, Len(f)), Between(f, Append(Q, D)))
  BY ONLY <1>4, <1>6, <1>7, <1>17
<1>20. fed' = f /\ started' = TRUE /\ flushed' = FALSE
  BY <1>6 DEF f, ReaderInv, ReaderTyped
<1> QED BY ONLY <1>3, <1>10, <1>15, <1>18, <1>19, <1>20, ReleasedHolds DEF B

LEMMA FeedHolds ==
  ASSUME ReaderInv, NEW chunk \in Chunks, Feed(chunk)
  PROVE  ReaderInv'
<1>1. chunk \in Seq(Byte)
  BY ChunksAreBytes
<1>2. ~flushed /\ fed' = fed \o chunk /\ flushed' = flushed
  BY DEF Feed
<1>3. CASE FeedBeforeStart(buf \o chunk)
  BY <1>1, <1>2, <1>3, WaitingHolds
<1>4. CASE FeedSegments(buf \o chunk)
  BY <1>1, <1>2, <1>4, FirstMarkerHolds, NextSegmentHolds
<1> QED BY <1>3, <1>4 DEF Feed

LEMMA FlushHolds ==
  ASSUME ReaderInv, ReaderFlush
  PROVE  ReaderInv'
<1>1. ReaderTyped /\ fed \in Seq(Byte) /\ fed' = fed /\ started' = started
        /\ dropped' = dropped /\ ~flushed /\ flushed' = TRUE
  BY DEF ReaderInv, ReaderTyped, ReaderFlush
<1>2. ReaderTyped'
  BY <1>1 DEF ReaderTyped
<1>3. CASE ~started
  <2>1. emitted' = emitted /\ buf' = buf
    BY <1>3 DEF ReaderFlush
  <2>2. BeforeStart'
    BY <1>1, <1>3, <2>1 DEF ReaderInv, BeforeStart
  <2> QED BY <1>1, <1>2, <1>3, <2>2 DEF ReaderInv
<1>4. CASE started
  <2>1. AfterStart
    BY <1>4 DEF ReaderInv
  <2>2. emitted = Between(fed, SegmentOffsets(fed)) /\ buf = Slice(fed, LastMark(fed), Len(fed))
          /\ Offsets(fed) # {}
    BY <1>1, <2>1 DEF AfterStart
  <2>3. buf # <<>>
    <3>1. Len(buf) = Len(fed) - LastMark(fed)
      BY <1>1, <2>2, WholeSplit
    <3>2. Len(fed) \in Nat /\ LastMark(fed) \in Nat /\ LastMark(fed) < Len(fed)
      BY <1>1, <2>2, MarkRange
    <3>3. Len(buf) # 0
      BY <3>1, <3>2
    <3> QED BY <3>3
  <2>4. emitted' = Append(emitted, buf) /\ buf' = <<>>
    BY <1>4, <2>3 DEF ReaderFlush
  <2>5. emitted' = SplitSegments(fed)
    BY <1>1, <2>2, <2>4, WholeSplit
  <2>6. AfterStart'
    BY <1>1, <2>1, <2>4, <2>5 DEF AfterStart
  <2> QED BY <1>1, <1>2, <1>4, <2>6 DEF ReaderInv
<1> QED BY <1>3, <1>4 DEF ReaderInv, ReaderTyped

LEMMA ReaderInvariant == ReaderSpec => []ReaderInv
<1>1. ReaderInv /\ [ReaderNext]_readerVars => ReaderInv'
  <2> SUFFICES ASSUME ReaderInv, [ReaderNext]_readerVars PROVE ReaderInv'
    OBVIOUS
  <2>1. ASSUME NEW chunk \in Chunks, Feed(chunk) PROVE ReaderInv'
    BY <2>1, FeedHolds
  <2>2. CASE ReaderFlush
    BY <2>2, FlushHolds
  <2>3. CASE UNCHANGED readerVars
    BY <2>3 DEF readerVars, ReaderInv, ReaderTyped, BeforeStart, AfterStart
  <2> QED BY <2>1, <2>2, <2>3 DEF ReaderNext
<1> QED BY InitHolds, <1>1, PTL DEF ReaderSpec

-----------------------------------------------------------------------------
LEMMA SplitsLikeWholeHolds == ReaderInv => SplitsLikeWhole
<1> SUFFICES ASSUME ReaderInv PROVE SplitsLikeWhole
  OBVIOUS
<1> DEFINE all == SplitSegments(fed)
<1>1. ReaderTyped /\ fed \in Seq(Byte) /\ Len(fed) \in Nat
  BY DEF ReaderInv, ReaderTyped
<1>2. CASE ~started
  <2>1. BeforeStart
    BY <1>2 DEF ReaderInv
  <2>2. Offsets(fed) = {} /\ emitted = <<>>
    BY <2>1 DEF BeforeStart
  <2>3. all = <<>>
    BY <1>1, <2>2, SplitNothing
  <2>4. dropped \in Nat /\ Len(buf) = Len(fed) - dropped
    BY <1>1, <2>1, BeforeStartTyped
  <2>5. FlattenSeq(<<>>) = <<>> /\ Len(<<>>) = 0
    BY DEF FlattenSeq
  <2>6. BytesAccountedFor
    <3>1. Len(FlattenSeq(emitted)) = 0
      BY <2>2, <2>5
    <3> QED BY <1>1, <2>4, <3>1 DEF BytesAccountedFor
  <2> QED BY <2>2, <2>3, <2>6 DEF SplitsLikeWhole
<1>3. CASE started
  <2>1. AfterStart /\ Offsets(fed) # {} /\ dropped = FirstMark(fed)
    BY <1>3 DEF ReaderInv, AfterStart
  <2>2. /\ Len(fed) \in Nat /\ FirstMark(fed) \in Nat /\ LastMark(fed) \in Nat
    BY <1>1, <2>1, MarkRange
  <2> DEFINE p == Between(fed, SegmentOffsets(fed))
             e == Slice(fed, LastMark(fed), Len(fed))
  <2>3. /\ all = Append(p, e) /\ p \in Seq(Seq(Byte)) /\ e \in Seq(Byte)
        /\ Len(e) = Len(fed) - LastMark(fed)
        /\ Len(FlattenSeq(p)) = LastMark(fed) - FirstMark(fed)
        /\ Len(FlattenSeq(all)) = Len(fed) - FirstMark(fed)
    BY <1>1, <2>1, WholeSplit
  <2> HIDE DEF p, e, all
  <2>4. all # <<>> /\ Front(all) = p
    <3>1. Len(all) = Len(p) + 1 /\ Len(p) \in Nat /\ all # <<>>
      BY <2>3
    <3>2. SubSeq(all, 1, Len(all) - 1) = p
      BY <2>3, <3>1
    <3> QED BY <3>1, <3>2 DEF Front
  <2>5. CASE flushed
    <3>1. emitted = all /\ buf = <<>>
      BY <2>1, <2>5 DEF AfterStart, all
    <3>2. Len(buf) = 0
      BY <3>1
    <3>3. BytesAccountedFor
      BY <2>1, <2>2, <2>3, <3>1, <3>2 DEF BytesAccountedFor
    <3> QED BY <2>5, <3>1, <3>3 DEF SplitsLikeWhole, all
  <2>6. CASE ~flushed
    <3>1. emitted = p /\ buf = e
      BY <2>1, <2>6 DEF AfterStart, p, e
    <3>3. BytesAccountedFor
      <4>1. Len(FlattenSeq(emitted)) = LastMark(fed) - FirstMark(fed)
              /\ Len(buf) = Len(fed) - LastMark(fed)
        BY <2>3, <3>1
      <4>2. dropped + (LastMark(fed) - FirstMark(fed)) + (Len(fed) - LastMark(fed)) = Len(fed)
        BY ONLY <2>1, <2>2
      <4> QED BY <4>1, <4>2 DEF BytesAccountedFor
    <3> QED BY <2>4, <2>6, <3>1, <3>3 DEF SplitsLikeWhole, all
  <2> QED BY <2>5, <2>6
<1> QED BY <1>2, <1>3 DEF ReaderInv, ReaderTyped

\* However the stream is cut into chunks, SegmentReader.feed and flush release
\* the segments that split_segments finds in the whole, one segment late, and
\* drop no byte but those before the first marker.
THEOREM SplitsAsWhole == ReaderSpec => []SplitsLikeWhole
BY ReaderInvariant, SplitsLikeWholeHolds, PTL

LEMMA ReaderTypeHolds == ReaderInv => ReaderTypeOK
<1> SUFFICES ASSUME ReaderInv PROVE ReaderTypeOK
  OBVIOUS
<1>1. ReaderTyped /\ fed \in Seq(Byte) /\ Len(fed) \in Nat
        /\ started \in BOOLEAN /\ flushed \in BOOLEAN
  BY DEF ReaderInv, ReaderTyped
<1>2. CASE ~started
  <2>1. BeforeStart
    BY <1>2 DEF ReaderInv
  <2>2. dropped \in 0 .. Len(fed) /\ buf \in Seq(Byte) /\ Len(buf) <= Keep
    BY <1>1, <2>1, BeforeStartTyped
  <2>3. emitted = <<>>
    BY <2>1 DEF BeforeStart
  <2>4. \A k \in DOMAIN emitted : emitted[k] \in Seq(Byte)
    BY <2>3
  <2> QED BY <1>1, <2>2, <2>4 DEF ReaderTypeOK
<1>3. CASE started
  <2>1. AfterStart /\ Offsets(fed) # {} /\ dropped = FirstMark(fed)
    BY <1>3 DEF ReaderInv, AfterStart
  <2>2. /\ FirstMark(fed) \in Nat /\ LastMark(fed) \in Nat
        /\ FirstMark(fed) <= LastMark(fed) /\ LastMark(fed) < Len(fed)
    BY <1>1, <2>1, MarkRange
  <2>3. dropped \in 0 .. Len(fed)
    BY <1>1, <2>1, <2>2
  <2> DEFINE p == Between(fed, SegmentOffsets(fed))
             e == Slice(fed, LastMark(fed), Len(fed))
  <2>4. SplitSegments(fed) = Append(p, e) /\ p \in Seq(Seq(Byte)) /\ e \in Seq(Byte)
    BY <1>1, <2>1, WholeSplit
  <2> HIDE DEF p, e
  <2>5. emitted \in Seq(Seq(Byte)) /\ buf \in Seq(Byte)
    <3>1. Append(p, e) \in Seq(Seq(Byte)) /\ <<>> \in Seq(Byte)
      BY <2>4
    <3>2. flushed => emitted = Append(p, e) /\ buf = <<>>
      BY <2>1, <2>4 DEF AfterStart
    <3>3. ~flushed => emitted = p /\ buf = e
      BY <2>1 DEF AfterStart, p, e
    <3> QED BY <2>4, <3>1, <3>2, <3>3
  <2>6. \A k \in DOMAIN emitted : emitted[k] \in Seq(Byte)
    BY <2>5
  <2> QED BY <1>1, <1>3, <2>3, <2>5, <2>6 DEF ReaderTypeOK
<1> QED BY <1>1, <1>2, <1>3

\* The reader's variables keep their types, and before the first marker it
\* holds less than one marker.
THEOREM ReaderHoldsLittle == ReaderSpec => []ReaderTypeOK
BY ReaderInvariant, ReaderTypeHolds, PTL
=============================================================================
