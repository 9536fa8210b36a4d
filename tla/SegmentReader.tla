--------------------------- MODULE SegmentReader ---------------------------
(***************************************************************************)
(* The incremental splitter of src/glitchlock/stream.py, fed the way         *)
(* _read_segments feeds it: chunks of any size, then one flush.  The         *)
(* reference it is checked against is split_segments, which sees the whole   *)
(* stream at once.                                                          *)
(***************************************************************************)
EXTENDS Naturals, Sequences, SequencesExt

CONSTANTS Byte,          \* the byte values told apart
          Marker,        \* the start code that begins a segment
          MaxFed,        \* bound: bytes in the stream
          MaxChunk       \* bound: bytes in one chunk

ASSUME SegmentReaderAssumption ==
    Marker \in Seq(Byte) /\ Marker # <<>> /\ MaxFed \in Nat /\ MaxChunk \in Nat

VARIABLES fed,           \* every byte of the stream so far (history)
          buf, started, dropped,   \* _buf, _started, dropped_prefix
          emitted,       \* the segments returned so far, in order
          flushed        \* the stream has ended

readerVars == <<fed, buf, started, dropped, emitted, flushed>>

-----------------------------------------------------------------------------
(* Offsets are 0-based, as in the code; data[a:b] is SubSeq(data, a+1, b).   *)

Slice(data, a, b) == SubSeq(data, a + 1, b)

MarkerAt(data, j) == j + Len(Marker) <= Len(data) /\ Slice(data, j, j + Len(Marker)) = Marker

Offsets(data) == {j \in 0 .. Len(data) : MarkerAt(data, j)}

\* The same offsets as a list: every position is tried in turn.
SegmentOffsets(data) ==
    LET found[n \in 0 .. Len(data)] ==
          IF n = 0 THEN <<>>
          ELSE IF MarkerAt(data, n - 1) THEN Append(found[n - 1], n - 1)
          ELSE found[n - 1]
    IN  found[Len(data)]

\* The pieces of data between consecutive bounds.
Between(data, bounds) ==
    [k \in 1 .. Len(bounds) - 1 |-> Slice(data, bounds[k], bounds[k + 1])]

SplitSegments(data) ==
    LET marks == SegmentOffsets(data)
    IN  IF marks = <<>> THEN <<>> ELSE Between(data, Append(marks, Len(data)))

-----------------------------------------------------------------------------
ReaderInit ==
    /\ fed = <<>> /\ buf = <<>> /\ started = FALSE /\ dropped = 0
    /\ emitted = <<>> /\ flushed = FALSE

\* Mutant: off by one.
KeepOneLess == Len(Marker) - 2

\* The most a marker split over two chunks can have left behind.
Keep == Len(Marker) - 1

\* Mutant: nothing is dropped before the first marker.
FeedBeforeStartKeepsAll(data) ==
    /\ ~started /\ Offsets(data) = {}
    /\ buf' = data
    /\ UNCHANGED <<started, dropped, emitted>>

\* No marker yet: all but a possible beginning of one is dropped.
FeedBeforeStart(data) ==
    /\ ~started /\ Offsets(data) = {}
    /\ LET extra == IF Len(data) > Keep THEN Len(data) - Keep ELSE 0
       IN /\ dropped' = dropped + extra
          /\ buf' = Slice(data, extra, Len(data))
    /\ UNCHANGED <<started, emitted>>

\* Drop what precedes the first marker; release every segment another follows.
FeedSegments(data) ==
    /\ started \/ Offsets(data) # {}
    /\ LET first == IF started THEN 0 ELSE Head(SegmentOffsets(data))
           from  == Slice(data, first, Len(data))
           marks == SegmentOffsets(from)
       IN /\ dropped' = dropped + first
          /\ emitted' = emitted \o Between(from, marks)
          /\ buf' = IF Len(marks) < 2 THEN from
                    ELSE Slice(from, marks[Len(marks)], Len(from))
    /\ started' = TRUE

Feed(chunk) ==
    /\ ~flushed
    /\ fed' = fed \o chunk
    /\ FeedBeforeStart(buf \o chunk) \/ FeedSegments(buf \o chunk)
    /\ UNCHANGED flushed

ReaderFlush ==
    /\ ~flushed
    /\ flushed' = TRUE
    /\ IF started /\ buf # <<>>
       THEN emitted' = Append(emitted, buf) /\ buf' = <<>>
       ELSE UNCHANGED <<emitted, buf>>
    /\ UNCHANGED <<fed, started, dropped>>

Chunks == UNION {[1 .. n -> Byte] : n \in 1 .. MaxChunk}

ReaderNext ==
    \/ \E chunk \in Chunks : Len(fed) + Len(chunk) <= MaxFed /\ Feed(chunk)
    \/ ReaderFlush

ReaderSpec == ReaderInit /\ [][ReaderNext]_readerVars

-----------------------------------------------------------------------------
(* Properties.                                                              *)

\* Every variable holds a value the program can put there, and the reader
\* holds less than a marker until it has seen one.
ReaderTypeOK ==
    /\ fed \in Seq(Byte) /\ buf \in Seq(Byte) /\ started \in BOOLEAN
    /\ dropped \in 0 .. Len(fed) /\ flushed \in BOOLEAN
    /\ \A k \in DOMAIN emitted : emitted[k] \in Seq(Byte)
    /\ ~started => Len(buf) <= Keep

\* Every byte fed is dropped before the first marker, released, or pending.
BytesAccountedFor ==
    dropped + Len(FlattenSeq(emitted)) + Len(buf) = Len(fed)

\* However the stream is cut into chunks, a marker split over two of them
\* included, the segments are those split_segments finds in the whole stream:
\* all of them at the end, and until then all but the one still arriving (one
\* segment of latency, neither more nor less), with no byte lost on the way.
SplitsLikeWhole ==
    /\ LET all == SplitSegments(fed)
       IN  emitted = IF flushed \/ all = <<>> THEN all ELSE Front(all)
    /\ BytesAccountedFor
=============================================================================
