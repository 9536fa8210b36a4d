------------------------------ MODULE Mp2Frames ------------------------------
(***************************************************************************)
(* Layer II audio (src/glitchlock/mp2.py): finding frames in a byte stream,  *)
(* whole (iter_units) and in chunks as they arrive (FrameReader), and locking *)
(* and unlocking the samples and scalefactors in place (transform_stream).   *)
(*                                                                         *)
(* A cell stands for one field: half a header, an allocation, a scfsi code,   *)
(* a scalefactor, a sample codeword, a byte of anything else.  Any cell may   *)
(* hold any value, so a header may stand anywhere, inside a frame too.       *)
(***************************************************************************)
EXTENDS Integers, FiniteSets, SequencesExt

CONSTANTS Streams,   \* the byte streams considered
          Formats,   \* valid headers: [size, channels, sblimit, bound, protection]
          Quant,     \* by allocation: [count, span], sample fields and their range
          Plans,     \* plan[feature][frame]: what the keystream adds to a field
          Layers,    \* the feature lists of a lock
          MaxChunk,  \* bound: cells per read
          None

Sync == 3
Cell == 0 .. Sync
HeaderCells == 2
ScalefactorLevels == 3
Features == {"samples", "scalefactors"}

ASSUME Mp2Assumption ==
    /\ \A s \in Streams : s \in Seq(Cell)
    /\ DOMAIN Formats \subseteq Cell /\ DOMAIN Formats # {}
    /\ \A k \in DOMAIN Formats :
          /\ Formats[k] \in [size : Nat, channels : Nat \ {0}, sblimit : Nat, bound : Nat,
                            protection : BOOLEAN]
          /\ Formats[k].bound \in 0 .. Formats[k].sblimit
          /\ Formats[k].size > HeaderCells + 1 + Formats[k].sblimit * Formats[k].channels
    /\ DOMAIN Quant = Cell \ {0}
    /\ \A a \in DOMAIN Quant : Quant[a].count \in Nat /\ Quant[a].span \in 1 .. Sync + 1
    /\ \A p \in Plans, f \in Features :
          p[f] \in Seq(Int) /\ \A s \in Streams : Len(s) <= Len(p[f])
    /\ \A l \in Layers : l \in Seq(Features)
    /\ MaxChunk \in Nat \ {0}

VARIABLES stream,    \* the carrier, fixed
          plan, layers,  \* the keystream and the features of the lock, once there is one
          text,      \* the file: the carrier, then locked
          locked,    \* whether it is
          pc,
          at,        \* cells of the file the reader was fed
          buf, dropped, frames,  \* the reader: its bytes, the count of those dropped, frames given
          restored   \* what the unlock wrote

vars == <<stream, plan, layers, text, locked, pc, at, buf, dropped, frames, restored>>

-----------------------------------------------------------------------------
(* One frame.                                                               *)

\* The header at cell j, or None.
Header(s, j) ==
    IF j + 1 <= Len(s) /\ s[j] = Sync /\ s[j + 1] \in DOMAIN Formats
    THEN Formats[s[j + 1]] ELSE None

\* Fields are numbered by subband, then by channel.
Subband(h, i) == (i - 1) \div h.channels

\* From bound on the channels share an allocation, and with it the samples.
Own(h, i) == Subband(h, i) < h.bound \/ (i - 1) % h.channels = 0

AllocCell(h, i) ==
    IF Subband(h, i) < h.bound THEN i ELSE h.bound * h.channels + Subband(h, i) - h.bound + 1

AllocCells(h) == h.bound * h.channels + h.sblimit - h.bound
AllocStart(h) == HeaderCells + IF h.protection THEN 1 ELSE 0

\* The frame as far as its allocation; the tail is what is still to be parsed.
Opened(raw, h) ==
    [header |-> h, verdict |-> "frame",
     head |-> SubSeq(raw, 1, AllocStart(h)),
     alloc |-> [i \in 1 .. h.sblimit * h.channels |-> raw[AllocStart(h) + AllocCell(h, i)]],
     scfsi |-> <<>>, scalefactors |-> <<>>, samples |-> <<>>,
     tail |-> SubSeq(raw, AllocStart(h) + AllocCells(h) + 1, h.size)]

\* The next n fields; the verdict if the frame ends before them.
Read(f, part, n, short) ==
    IF f.verdict # "frame" THEN f
    ELSE IF n > Len(f.tail) THEN [f EXCEPT !.verdict = short]
    ELSE [f EXCEPT ![part] = SubSeq(f.tail, 1, n), !.tail = SubSeq(f.tail, n + 1, Len(f.tail))]

Carrying(f) == Cardinality({i \in DOMAIN f.alloc : f.alloc[i] # 0})

ScfsiCount == [c \in Cell |-> <<3, 2, 1, 2>>[c + 1]]

\* The ranges of an allocation's sample fields, and of all those of a frame.
FieldsOf(a) == [n \in 1 .. IF a = 0 THEN 0 ELSE Quant[a].count |-> Quant[a].span]

Spans(f) == FlattenSeq([i \in DOMAIN f.alloc |->
                IF Own(f.header, i) THEN FieldsOf(f.alloc[i]) ELSE <<>>])

ReadScfsi(f) == Read(f, "scfsi", Carrying(f), "raise")
ReadScalefactors(f) ==
    Read(f, "scalefactors", FoldLeft(LAMBDA n, c : n + ScfsiCount[c], 0, f.scfsi), "raise")
ReadSamples(f) == Read(f, "samples", Len(Spans(f)), "refuse")

\* parse_frame: reading a field that begins past the end of the frame raises
\* ValueError, only a frame whose samples alone do not fit is refused.
Parse(raw, h) == ReadSamples(ReadScalefactors(ReadScfsi(Opened(raw, h))))

\* The parser run backwards: above bound the first channel's allocation stands
\* for both.
Write(f) ==
    f.head \o [k \in 1 .. AllocCells(f.header) |->
                 f.alloc[Min({i \in DOMAIN f.alloc : AllocCell(f.header, i) = k})]]
    \o f.scfsi \o f.scalefactors \o f.samples \o f.tail

-----------------------------------------------------------------------------
(* Framing.                                                                 *)

Raw(s, j) == SubSeq(s, j, j + Header(s, j).size - 1)

\* What _locate makes of cell j: no frame's beginning, one that may still
\* arrive or be completed (unless the stream has ended), a frame, or an error.
Status(s, j, final) ==
    IF s[j] # Sync THEN "junk"
    ELSE IF j + HeaderCells - 1 > Len(s) THEN IF final THEN "junk" ELSE "more"
    ELSE IF Header(s, j) = None THEN "junk"
    ELSE IF j + Header(s, j).size - 1 > Len(s) THEN IF final THEN "junk" ELSE "more"
    ELSE IF Parse(Raw(s, j), Header(s, j)).verdict = "refuse" THEN "junk"
    ELSE Parse(Raw(s, j), Header(s, j)).verdict

\* Mutant: the search goes on behind the first cell of a frame.
PastFirstCell(s, j) == j + 1

\* Where the search for the next frame begins.
Past(s, j) == j + Header(s, j).size

\* Cell j, unless the search has stopped or j lies in a frame it has found.
Examine(scan, s, j, status) ==
    IF scan.status # "exhausted" \/ j < scan.from \/ status = "junk" THEN scan
    ELSE IF status = "frame" THEN [scan EXCEPT !.starts = Append(@, j), !.from = Past(s, j)]
    ELSE [scan EXCEPT !.stop = j, !.status = status]

\* One search after another: the starts of the frames, where the last search
\* began, where it stopped and why.
Scan(s, final) ==
    FoldLeft(LAMBDA scan, j : Examine(scan, s, j, Status(s, j, final)),
             [starts |-> <<>>, from |-> 1, stop |-> Len(s) + 1, status |-> "exhausted"],
             [j \in DOMAIN s |-> j])

\* The frames iter_units gives for the whole stream; it raises at an error.
Whole(s) == Scan(s, TRUE)
Raises(s) == Whole(s).status = "raise"
FramesAt(s, starts) == [k \in DOMAIN starts |-> Raw(s, starts[k])]
Frames(s) == FramesAt(s, Whole(s).starts)

-----------------------------------------------------------------------------
(* Locking.                                                                 *)

Ranges(f, feature) ==
    IF feature = "samples" THEN Spans(f)
    ELSE [i \in DOMAIN f.scalefactors |-> ScalefactorLevels]

\* A value outside its range cannot be restored: the lock is refused.
InRange(f, feature) ==
    \A i \in DOMAIN f[feature] : f[feature][i] < Ranges(f, feature)[i]

\* Mutant: the shift wraps at the width of the field, not at its range.
ShiftedByWidth(v, by, span) == (v + by) % (Sync + 1)

\* The keystream of a frame's label moves a field within its range.
Shifted(v, by, span) == (v + by) % span

TransformLayer(f, feature, by, forward) ==
    [f EXCEPT ![feature] = [i \in DOMAIN @ |->
        Shifted(@[i], IF forward THEN by ELSE -by, Ranges(f, feature)[i])]]

\* The layers of one frame in order; the unlock undoes them from the last.
TransformFrame(f, p, ls, index, forward) ==
    FoldLeft(LAMBDA g, feature : TransformLayer(g, feature, p[feature][index], forward), f,
             IF forward THEN ls ELSE Reverse(ls))

Refused(s, ls) ==
    \E raw \in ToSet(Frames(s)), l \in DOMAIN ls : ~InRange(Parse(raw, Header(raw, 1)), ls[l])

\* Every frame rewritten in its place, junk as it was.
Rewritten(s, starts, p, ls, forward) ==
    LET End(k) == IF k = 0 THEN 0 ELSE Past(s, starts[k]) - 1
        Unit(k) == SubSeq(s, End(k - 1) + 1, starts[k] - 1)
                   \o Write(TransformFrame(Parse(Raw(s, starts[k]), Header(s, starts[k])), p, ls, k, forward))
    IN  FlattenSeq([k \in DOMAIN starts |-> Unit(k)]) \o SubSeq(s, End(Len(starts)) + 1, Len(s))

TransformStream(s, p, ls, forward) == Rewritten(s, Whole(s).starts, p, ls, forward)

-----------------------------------------------------------------------------

Init ==
    /\ stream \in Streams /\ plan = None /\ layers = <<>>
    /\ text = stream /\ locked = FALSE
    /\ pc = "read" /\ at = 0
    /\ buf = <<>> /\ dropped = 0 /\ frames = <<>>
    /\ restored = None

\* Mutant: what was searched in vain is thrown away, the header under way too.
KeptNothing(b, scan) == <<>>

\* Mutant: what was given is kept.
KeptAll(b, scan) == b

Kept(b, scan) == SubSeq(b, scan.stop, Len(b))

\* _drain: frames are given, what cannot be judged yet is kept, the rest is
\* counted as dropped.  An error leaves the buffer and loses the frames before.
Taken(b, final, scan, given) ==
    IF scan.status = "raise"
    THEN /\ pc' = "raised" /\ buf' = b /\ frames' = frames
         /\ dropped' = dropped + scan.from - 1 - Len(FlattenSeq(given))
    ELSE /\ pc' = IF final THEN "framed" ELSE "read"
         /\ frames' = frames \o given
         /\ buf' = Kept(b, scan)
         /\ dropped' = dropped + scan.stop - 1 - Len(FlattenSeq(given))

Take(b, final) == Taken(b, final, Scan(b, final), FramesAt(b, Scan(b, final).starts))

\* FrameReader.feed with the next chunk; an exception ends the reading.
Feed ==
    /\ pc = "read" /\ at < Len(text)
    /\ \E n \in 1 .. MaxChunk :
          /\ at + n <= Len(text)
          /\ at' = at + n
          /\ Take(buf \o SubSeq(text, at + 1, at + n), FALSE)
    /\ UNCHANGED <<stream, plan, layers, text, locked, restored>>

\* The end of the stream: FrameReader.flush.
Flush ==
    /\ pc = "read" /\ at = Len(text)
    /\ Take(buf, TRUE)
    /\ UNCHANGED <<stream, plan, layers, text, locked, at, restored>>

\* The carrier is locked and the reader reads the result.
Lock ==
    /\ pc = "framed" /\ ~locked
    /\ \E ls \in Layers :
          /\ layers' = ls
          /\ \/ /\ Refused(text, ls) /\ pc' = "refused"
                /\ UNCHANGED <<plan, text, locked, at, buf, dropped, frames>>
             \/ /\ ~Refused(text, ls) /\ plan' \in Plans
                /\ text' = TransformStream(text, plan', ls, TRUE) /\ locked' = TRUE
                /\ pc' = "read" /\ at' = 0 /\ buf' = <<>> /\ dropped' = 0 /\ frames' = <<>>
    /\ UNCHANGED <<stream, restored>>

Unlock ==
    /\ pc = "framed" /\ locked
    /\ restored' = TransformStream(text, plan, layers, FALSE)
    /\ pc' = "done"
    /\ UNCHANGED <<stream, plan, layers, text, locked, at, buf, dropped, frames>>

Stopped == pc \in {"raised", "refused", "done"} /\ UNCHANGED vars

Next == Feed \/ Flush \/ Lock \/ Unlock \/ Stopped

Spec == Init /\ [][Next]_vars

-----------------------------------------------------------------------------
(* Properties.                                                              *)

\* Every variable holds a value the program can put there; the reader holds
\* less than a frame, so its memory does not grow with the stream.
TypeOK ==
    /\ pc \in {"read", "framed", "raised", "refused", "done"}
    /\ text \in Seq(Cell) /\ Len(text) = Len(stream)
    /\ at \in 0 .. Len(text) /\ dropped \in 0 .. at
    /\ pc = "done" => restored \in Seq(Cell)
    /\ pc = "read" => Len(buf) < Max({Formats[k].size : k \in DOMAIN Formats})

\* However the stream is cut into chunks, a header or a frame split over
\* several included, the reader gives the frames iter_units finds in the whole
\* stream, raises where it raises, and accounts for every byte (FrameReader).
ReaderLikeWhole ==
    /\ pc = "read" => /\ IsPrefix(frames, Frames(text))
                      /\ dropped + Len(FlattenSeq(frames)) + Len(buf) = at
    /\ pc = "framed" => /\ ~Raises(text) /\ frames = Frames(text)
                        /\ dropped + Len(FlattenSeq(frames)) = Len(text)
    /\ pc = "raised" => Raises(text)

\* In every frame that was locked a decoder finds what it found before but for
\* the locked values, and those within their ranges: header, checksum,
\* allocation and scfsi, which the checksum covers, are the carrier's.
LockedFramesAreLegal ==
    locked => \A j \in ToSet(Whole(stream).starts) :
        LET before == Parse(Raw(stream, j), Header(stream, j))
            after == Parse(Raw(text, j), Header(stream, j))
        IN  /\ Header(text, j) = Header(stream, j)
            /\ \A l \in DOMAIN layers : InRange(after, layers[l])
            /\ [after EXCEPT !.samples = <<>>, !.scalefactors = <<>>]
               = [before EXCEPT !.samples = <<>>, !.scalefactors = <<>>]

\* The cells parse_frame reads before it accepts or refuses the header at j.
Geometry(s, j) ==
    IF j + Header(s, j).size - 1 > Len(s) THEN {}
    ELSE LET f == Parse(Raw(s, j), Header(s, j))
         IN  j .. j + AllocStart(f.header) + AllocCells(f.header) + Carrying(f) - 1

\* A header that is no frame's, whose allocation lies where the lock writes.
Overlapped(j) ==
    /\ Header(stream, j) # None /\ j \notin ToSet(Whole(stream).starts)
    /\ \E i \in Geometry(stream, j) \cap DOMAIN stream : text[i] # stream[i]

\* The unlock finds the frames where the lock found them and gives back the
\* carrier, unless a header among the junk has its allocation inside a frame:
\* there the framing does look at what the lock modifies.
MisframedOnlyByOverlap ==
    locked /\ ~(\E j \in DOMAIN stream : Overlapped(j)) =>
        /\ Whole(text).starts = Whole(stream).starts /\ ~Raises(text)
        /\ pc = "done" => restored = stream

\* "Raises Mp2Error on a malformed one" (parse_frame), so that "junk between
\* frames is carried through verbatim" (the module's docstring).
JunkIsCarried == pc # "raised"
=============================================================================
