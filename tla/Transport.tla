------------------------------ MODULE Transport ------------------------------
(***************************************************************************)
(* Locking and unlocking inside an MPEG transport stream                    *)
(* (src/glitchlock/transport.py), as ts-lock and ts-unlock drive it: demux,  *)
(* lock the video by groups of pictures in a thread pool and the audio in    *)
(* one piece, mux; the file travels and may lose or repeat one packet; the    *)
(* other end demuxes, unlocks and muxes again.                              *)
(*                                                                         *)
(* An elementary stream is a sequence of cells, each as much as a packet     *)
(* takes.  Locking writes into a cell's lock field under which segment and    *)
(* frame it was locked; only that label takes it away again.                 *)
(***************************************************************************)
EXTENDS Integers, SequencesExt

CONSTANTS Carriers,   \* the programs considered: sequences of tracks
          Options,    \* of ts-lock: [gops, audio], GOPs per segment, lock audio or not
          PsiPeriod,  \* units of the clock track between repeats of the tables
          TimeBits,   \* width of a timestamp, 33 in the standard
          Workers,    \* threads of the video pool
          MaxStray,   \* bound: packets in the carrier that belong to no unit
          MayDamage,  \* whether one packet may be lost or repeated on the way
          None, Plain, Noise

\* A time is what the stream carries: TimeBits bits, so it wraps.
Times == 0 .. 2 ^ TimeBits - 1

\* Locking writes the label of a frame into its cells.
Cell == [of : STRING, part : Nat, size : {1, 2}, gop : BOOLEAN, lock : {Plain}]
Unit == [pts : Times \cup {None}, dts : Times \cup {None}, data : Seq(Cell) \ {<<>>}]
Track == [codec : {"h264", "mpeg2video", "mp2"}, units : Seq(Unit)]

\* Afterwards a lock field may hold the label of a segment and frame, or noise.
Label == Nat \X Nat
AnyCell == [of : STRING \cup {None}, part : Nat, size : {1, 2}, gop : BOOLEAN, lock : {Plain, Noise} \cup Label]
AnyUnit == [pts : Times \cup {None}, dts : Times \cup {None}, data : Seq(AnyCell) \ {<<>>}]

ASSUME TransportAssumption ==
    /\ PsiPeriod \in Nat \ {0} /\ Workers \in Nat \ {0} /\ TimeBits \in Nat
    /\ Options \subseteq [gops : Int, audio : BOOLEAN]
    /\ MaxStray \in Nat /\ MayDamage \in BOOLEAN
    /\ \A c \in Carriers : c \in Seq(Track)
    /\ None \notin Int /\ None \notin Seq(Seq(AnyUnit)) /\ Plain \notin Label

VARIABLES carrier, options,  \* the input program and ts-lock's options, fixed
          end,      \* whose turn it is: "lock" or "unlock"
          pc,       \* that command's place
          fed,      \* how much of each track is already in the carrier's file
          strays,   \* packets in it that belong to no unit
          dem,      \* demux's locals: the tables seen, PES buffers, units
          units,    \* the program's units, rewritten track by track
          parts,    \* the video pool's results, by group
          ended,    \* groups in the order in which they ended
          file,     \* the transport stream written, then the one being read
          sent,     \* history: the units in the stream as it was written
          fault,    \* what happened to it: [kind, pid]
          why       \* why a command failed

vars == <<carrier, options, end, pc, fed, strays, dem, units, parts, ended, file, sent,
          fault, why>>

Tracks == DOMAIN carrier
IsAudio(c, t) == c[t].codec = "mp2"
First(c, audio) == {t \in DOMAIN c : /\ IsAudio(c, t) = audio
                                     /\ \A s \in 1 .. t - 1 : IsAudio(c, s) # audio}
VideoTrack == First(carrier, FALSE)
AudioTrack == First(carrier, TRUE)

Concat(us) == FlattenSeq([i \in DOMAIN us |-> us[i].data])

-----------------------------------------------------------------------------
(* Packets.  A packet holds the start of a PES packet (its header in head,   *)
(* its first cell) or a further cell.                                       *)

Packet(pid, start, head, data) == [pid |-> pid, start |-> start, head |-> head, data |-> data]
\* A track's PID is its place in the table of the program; these are none.
Pat == 0
Pmt == -1
PidNull == -2
Unlisted == -3
Tables == {Pat, Pmt}
Filler == [of |-> None, part |-> 0, size |-> 1, gop |-> FALSE, lock |-> Plain]
Table(pid) == Packet(pid, TRUE, None, <<Filler>>)

\* One PES packet over as many transport packets as it takes.
Packets(t, head, data) ==
    <<Packet(t, TRUE, head, SubSeq(data, 1, 1))>>
    \o [i \in 1 .. Len(data) - 1 |-> Packet(t, FALSE, None, <<data[i + 1]>>)]

\* Only audio carries its length.
Length(c, t, data) == IF IsAudio(c, t) THEN Len(data) ELSE None

Stamp(time) == IF time = None THEN None ELSE time % 2 ^ TimeBits

\* A decode time that equals the presentation time is left out.
Header(c, t, u) ==
    [pts |-> Stamp(u.pts),
     dts |-> IF u.dts # u.pts THEN Stamp(u.dts) ELSE None,
     length |-> Length(c, t, u.data)]

-----------------------------------------------------------------------------
(* Demultiplexing.                                                          *)

NoBuffer == [open |-> FALSE, head |-> None, data |-> <<>>]
Buffer(head, data) == [open |-> TRUE, head |-> head, data |-> data]

Demuxer(c) == [pat |-> FALSE, pmt |-> FALSE,
               buffers |-> [t \in DOMAIN c |-> NoBuffer], units |-> [t \in DOMAIN c |-> <<>>]]

\* A PES packet whose length is known ends there, whatever was appended to it.
Parse(buffer) ==
    LET n == buffer.head.length
        data == IF n # None /\ n < Len(buffer.data) THEN SubSeq(buffer.data, 1, n) ELSE buffer.data
    IN  [pts |-> buffer.head.pts, dts |-> buffer.head.dts, data |-> data]

Close(d, t) ==
    IF ~d.buffers[t].open THEN d
    ELSE [d EXCEPT !.units[t] = Append(@, Parse(d.buffers[t])), !.buffers[t] = NoBuffer]

\* Mutant: every PMT is parsed anew, which forgets the units so far.
TakeTableAnew(d, p) ==
    [d EXCEPT !.pat = @ \/ (p.pid = Pat /\ p.start),
              !.pmt = @ \/ (p.pid = Pmt /\ p.start /\ d.pat),
              !.units = IF p.pid = Pmt /\ p.start /\ d.pat THEN [t \in DOMAIN @ |-> <<>>]
                        ELSE @]

TakeTable(d, p) == [d EXCEPT !.pat = @ \/ (p.pid = Pat /\ p.start),
                             !.pmt = @ \/ (p.pid = Pmt /\ p.start /\ d.pat)]

\* Packets without payload, null packets and unlisted programs are passed over.
Known(d, p) == /\ p.start \/ p.data # <<>>
               /\ p.pid \in Tables \/ (d.pmt /\ p.pid \in DOMAIN d.units)

\* The start of a PES packet closes the one before; a packet that continues
\* nothing is dropped.
TakePes(d, p) ==
    IF p.start THEN [Close(d, p.pid) EXCEPT !.buffers[p.pid] = Buffer(p.head, p.data)]
    ELSE IF ~d.buffers[p.pid].open THEN d
    ELSE [d EXCEPT !.buffers[p.pid] = Buffer(@.head, @.data \o p.data)]

\* What one packet does: nothing, unless it is of a table or a listed track.
Take(d, p) == IF ~Known(d, p) THEN d
              ELSE IF p.pid \in Tables THEN TakeTable(d, p)
              ELSE TakePes(d, p)

\* The end of the stream closes every buffer.
Finish(d) == [t \in DOMAIN d.units |-> Close(d, t).units[t]]

-----------------------------------------------------------------------------
(* Multiplexing.                                                            *)

Time(u) == IF u.dts # None THEN u.dts ELSE IF u.pts # None THEN u.pts ELSE 0

Earlier(us, a, b) ==
    LET s == Time(us[a[1]][a[2]])
        r == Time(us[b[1]][b[2]])
    IN  s < r \/ (s = r /\ (a[1] < b[1] \/ (a[1] = b[1] /\ a[2] < b[2])))

\* The elements of S, where r tells which pairs are in order.
Arranged(S, r) ==
    [i \in 1 .. Cardinality(S) |->
        CHOOSE a \in S : Cardinality({b \in S : <<b, a>> \in r}) = i - 1]

\* Every unit of every track, as <<track, number>>, in decode order.
Numbered(us) == UNION {{t} \X DOMAIN us[t] : t \in DOMAIN us}
Order(us) == Arranged(Numbered(us), {p \in Numbered(us) \X Numbered(us) : Earlier(us, p[1], p[2])})

ClockTrack(c) == IF First(c, FALSE) # {} THEN First(c, FALSE) ELSE {1}

\* The tables go before the first unit of the clock track and then before
\* every PsiPeriod-th.
TablesBefore(c, order, i) ==
    /\ order[i][1] \in ClockTrack(c)
    /\ Cardinality({k \in 1 .. i - 1 : order[k][1] \in ClockTrack(c)}) % PsiPeriod = 0

Mux(c, us) ==
    LET order == Order(us)
        At(i) == us[order[i][1]][order[i][2]]
    IN  FlattenSeq([i \in DOMAIN order |->
            (IF TablesBefore(c, order, i) THEN <<Table(Pat), Table(Pmt)>> ELSE <<>>)
            \o Packets(order[i][1], Header(c, order[i][1], At(i)), At(i).data)])

-----------------------------------------------------------------------------
(* Locking.  An access unit of video is its delimiter cell and what follows; *)
(* locked, it takes another number of cells.  An audio frame is two cells    *)
(* and keeps its length; a unit may end inside a frame.                     *)

Picture(of, size, gop, lock) ==
    [k \in 1 .. (IF lock = Plain THEN size ELSE 3 - size) |->
        [of |-> of, part |-> k, size |-> size, gop |-> gop /\ k = 1, lock |-> lock]]

\* Under its own label a locked cell becomes plain; any other makes noise of it.
Relabelled(lock, label, forward) ==
    IF forward THEN label ELSE IF lock = label THEN Plain ELSE Noise

PictureWhole(cells) == cells = Picture(cells[1].of, cells[1].size, cells[1].gop, cells[1].lock)

\* What FFedit makes of one picture: one that is not whole stays noise.
LockPicture(cells, label, forward) ==
    LET c == cells[1]
    IN  IF PictureWhole(cells)
        THEN Picture(c.of, c.size, c.gop, Relabelled(c.lock, label, forward))
        ELSE [k \in DOMAIN cells |-> [cells[k] EXCEPT !.lock = Noise]]

\* The pieces a sequence falls into, each beginning at one of starts.
Pieces(s, starts) ==
    [k \in DOMAIN starts |->
        SubSeq(s, starts[k], IF k < Len(starts) THEN starts[k + 1] - 1 ELSE Len(s))]

Ascending(S) == Arranged(S, {p \in S \X S : p[1] < p[2]})
Delimiters(data) == Ascending({i \in DOMAIN data : data[i].part = 1})

\* FFedit over one segment: its pictures in order, labelled with segment and
\* place.  What precedes the first delimiter belongs to no picture.
LockSegment(data, number, forward) ==
    LET pictures == Pieces(data, Delimiters(data))
        before == SubSeq(data, 1, Len(data) - Len(FlattenSeq(pictures)))
    IN  before \o FlattenSeq([k \in DOMAIN pictures |->
                      LockPicture(pictures[k], <<number, k>>, forward)])

GopStarts(us) == Ascending({i \in DOMAIN us : \E k \in DOMAIN us[i].data : us[i].data[k].gop})

PerSegment(n) == IF n > 1 THEN n ELSE 1

\* Groups of GOPs, or None where the track does not begin with one.
Groups(us, n) ==
    LET starts == GopStarts(us)
        every == PerSegment(n)
    IN  IF starts = <<>> THEN None
        ELSE IF Head(starts) # 1 THEN None
        ELSE Pieces(us, [k \in 1 .. ((Len(starts) + every - 1) \div every) |->
                             starts[(k - 1) * every + 1]])

FirstSegment == 1

\* Mutant: a worker takes the next free number.
NumberByTurn(g) == FirstSegment + Len(ended)

Number(g) == FirstSegment + g - 1

\* Mutant: the pieces are handed out by the lengths the units had.
SplitByLength(out, group) ==
    Pieces(out, [i \in DOMAIN group |-> 1 + Len(Concat(SubSeq(group, 1, i - 1)))])

\* The picture data of each unit after the transform, found by the delimiters.
Split(out, group) == Pieces(out, Delimiters(out))

SplitFails(out, group) ==
    LET starts == Delimiters(out)
    IN  starts = <<>> \/ Len(starts) # Len(group) \/ (starts # <<>> /\ Head(starts) # 1)

\* The audio frames: a header cell and the cell after it, whatever that is.
\* framed[i]: frames begun in the first i cells; whether cell i began one.
Framing(data) ==
    LET framed[i \in 0 .. Len(data)] ==
            IF i = 0 THEN [n |-> 0, open |-> FALSE]
            ELSE IF ~framed[i - 1].open /\ data[i].part = 1 /\ i < Len(data)
                 THEN [n |-> framed[i - 1].n + 1, open |-> TRUE]
                 ELSE [n |-> framed[i - 1].n, open |-> FALSE]
    IN  framed

\* Mutant: the audio is numbered after the video.
AudioSegmentAfterVideo == Len(Concat(FlattenSeq([t \in DOMAIN carrier |->
                                 IF t \in VideoTrack THEN units[t] ELSE <<>>])))

AudioSegment == 0

FrameWhole(data, i) == data[i + 1].part = 2 /\ data[i + 1].of = data[i].of

\* Frames are counted from the start of the track; what is in none passes
\* through.
LockAudio(data, forward) ==
    LET framed == Framing(data)
        Body(i) == framed[i - 1].open
        Lock(i, whole) == IF whole THEN Relabelled(data[i].lock, <<AudioSegment, framed[i].n>>, forward)
                          ELSE Noise
    IN  [i \in DOMAIN data |->
            [data[i] EXCEPT !.lock = IF framed[i].open THEN Lock(i, FrameWhole(data, i))
                                     ELSE IF Body(i) THEN Lock(i, FrameWhole(data, i - 1))
                                     ELSE @]]

\* Cut where the units were cut before.
Recut(out, us) ==
    LET offset(i) == Len(Concat(SubSeq(us, 1, i)))
    IN  [i \in DOMAIN us |-> [us[i] EXCEPT !.data = SubSeq(out, offset(i - 1) + 1, offset(i))]]

\* What an encoder makes: every unit of video one whole picture, every audio
\* frame whole.
Encoded(c, t) ==
    LET us == c[t].units
    IN  IF IsAudio(c, t)
        THEN \A i \in DOMAIN Concat(us) : Framing(Concat(us))[i].open => FrameWhole(Concat(us), i)
        ELSE \A i \in DOMAIN us : PictureWhole(us[i].data)

ASSUME CarriersEncoded == \A c \in Carriers : \A t \in DOMAIN c : Encoded(c, t)

-----------------------------------------------------------------------------
(* The two commands.                                                        *)

Forward == end = "lock"

Init ==
    /\ carrier \in Carriers /\ options \in Options
    /\ end = "lock" /\ pc = "demux"
    /\ fed = [t \in Tracks |-> <<0, 0>>] /\ strays = 0
    /\ dem = Demuxer(carrier)
    /\ units = Demuxer(carrier).units /\ sent = Demuxer(carrier).units
    /\ parts = <<>> /\ ended = <<>> /\ file = <<>>
    /\ fault = [kind |-> "none", pid |-> None]
    /\ why = "none"

\* Mutant: a failure does not say why.
FailSilently(reason) == pc' = "failed" /\ UNCHANGED why

Fail(reason) == pc' = "failed" /\ why' = reason

\* The next packet of a track of the carrier, as the muxer that made it wrote
\* it: a decode time even where it equals the presentation time.  fed is the
\* number of whole units in the file and of cells of the next.
CarrierPacket(t) ==
    LET unit == carrier[t].units[fed[t][1] + 1]
    IN  IF fed[t][2] = 0
        THEN Packet(t, TRUE, [pts |-> unit.pts, dts |-> unit.dts,
                              length |-> Length(carrier, t, unit.data)], SubSeq(unit.data, 1, 1))
        ELSE Packet(t, FALSE, None, <<unit.data[fed[t][2] + 1]>>)

Advanced(t) ==
    IF fed[t][2] + 1 >= Len(carrier[t].units[fed[t][1] + 1].data)
    THEN <<fed[t][1] + 1, 0>>
    ELSE <<fed[t][1], fed[t][2] + 1>>

AllFed(t) == fed[t][1] = Len(carrier[t].units)

DemuxOnly == UNCHANGED <<carrier, options, end, pc, units, parts, ended, sent, fault, why>>

\* The next packet of the carrier: tracks are interleaved packet by packet.
ReadTrackPacket(t) ==
    /\ Forward /\ pc = "demux"
    /\ dem.pmt /\ ~AllFed(t)
    /\ dem' = Take(dem, CarrierPacket(t))
    /\ fed' = [fed EXCEPT ![t] = Advanced(t)]
    /\ DemuxOnly /\ UNCHANGED <<strays, file>>

\* The carrier begins with its tables.
ReadFirstTables ==
    /\ Forward /\ pc = "demux" /\ ~dem.pmt
    /\ dem' = Take(dem, Table(IF dem.pat THEN Pmt ELSE Pat))
    /\ DemuxOnly /\ UNCHANGED <<fed, strays, file>>

\* Null packets, packets of an unlisted program, packets without payload, the
\* tables again, and the end of a unit whose beginning was cut off.
Strays ==
    {Packet(PidNull, FALSE, None, <<Filler>>), Packet(Unlisted, TRUE, None, <<Filler>>)}
    \cup {Packet(t, FALSE, None, <<>>) : t \in Tracks}
    \cup {Packet(t, FALSE, None, <<Filler>>) : t \in {s \in Tracks : fed[s] = <<0, 0>>}}
    \cup {Table(pid) : pid \in Tables}

ReadStray ==
    /\ Forward /\ pc = "demux" /\ strays < MaxStray
    /\ \E p \in Strays : dem' = Take(dem, p)
    /\ strays' = strays + 1
    /\ DemuxOnly /\ UNCHANGED <<fed, file>>

\* ts-unlock reads the file as it arrived.
ReadReceived ==
    /\ ~Forward /\ pc = "demux" /\ file # <<>>
    /\ dem' = Take(dem, Head(file))
    /\ file' = Tail(file)
    /\ DemuxOnly /\ UNCHANGED <<fed, strays>>

AtEndOfStream == IF Forward THEN \A t \in Tracks : AllFed(t)
                 ELSE file = <<>>

\* No table, no video, a codec without delimiters, a first unit without its
\* GOP marker: refused.  Otherwise every group goes to the pool.
DemuxEnd ==
    /\ pc = "demux" /\ AtEndOfStream
    /\ units' = Finish(dem)
    /\ \/ ~dem.pmt /\ Fail("no PMT") /\ parts' = parts
       \/ dem.pmt /\ VideoTrack = {} /\ Fail("no video") /\ parts' = parts
       \/ \E v \in VideoTrack :
             /\ dem.pmt
             /\ LET groups == Groups(Finish(dem)[v], options.gops)
                IN  \/ carrier[v].codec # "h264" /\ Fail("codec") /\ parts' = parts
                    \/ /\ carrier[v].codec = "h264" /\ groups = None
                       /\ Fail("no GOP") /\ parts' = parts
                    \/ /\ carrier[v].codec = "h264" /\ groups # None
                       /\ parts' = [g \in DOMAIN groups |-> None]
                       /\ pc' = "video" /\ why' = why
    /\ ended' = <<>>
    /\ UNCHANGED <<carrier, options, end, fed, strays, dem, file, sent, fault>>

Result(reason, us) == [why |-> reason, units |-> us]

\* The result of one group, or why there is none.  Any FFedit call may fail.
GroupResults(group, number) ==
    LET out == LockSegment(Concat(group), number, Forward)
        data == Split(out, group)
        rebuilt == [i \in DOMAIN group |-> [group[i] EXCEPT !.data = data[i]]]
    IN  {Result("ffedit", <<>>),
         IF SplitFails(out, group) THEN Result("count", <<>>) ELSE Result("none", rebuilt)}

\* A task of the pool ends: the pool has begun them in order, Workers at a time.
EndGroup(g) ==
    /\ pc = "video" /\ parts[g] = None /\ g <= Len(ended) + Workers
    /\ \E v \in VideoTrack :
          LET group == Groups(units[v], options.gops)[g]
          IN  \E result \in GroupResults(group, Number(g)) :
                 parts' = [parts EXCEPT ![g] = result]
    /\ ended' = Append(ended, g)
    /\ UNCHANGED <<carrier, options, end, pc, fed, strays, dem, units, file, sent, fault, why>>

Succeeded(g) == parts[g] # None /\ parts[g].why = "none"

Joined == FlattenSeq([g \in DOMAIN parts |-> parts[g].units])

\* pool.map gives the results in order and raises the first failure.
VideoEnd ==
    /\ pc = "video"
    /\ \/ /\ \A g \in DOMAIN parts : Succeeded(g)
          /\ units' = [t \in Tracks |-> IF t \in VideoTrack THEN Joined ELSE units[t]]
          /\ pc' = "audio" /\ why' = why
       \/ \E g \in DOMAIN parts :
             /\ parts[g] # None /\ parts[g].why # "none" /\ \A h \in 1 .. g - 1 : Succeeded(h)
             /\ Fail(parts[g].why) /\ units' = units
    /\ parts' = <<>> /\ ended' = <<>>
    /\ UNCHANGED <<carrier, options, end, fed, strays, dem, file, sent, fault>>

\* The first audio track, as one piece; any other is copied.  A value outside
\* its range refuses the lock.
Audio ==
    /\ pc = "audio"
    /\ \/ /\ options.audio
          /\ units' = [t \in Tracks |-> IF t \in AudioTrack
                          THEN Recut(LockAudio(Concat(units[t]), Forward), units[t])
                          ELSE units[t]]
          /\ pc' = "mux" /\ why' = why
       \/ ~options.audio /\ units' = units /\ pc' = "mux" /\ why' = why
       \/ Forward /\ options.audio /\ AudioTrack # {} /\ Fail("range") /\ units' = units
    /\ UNCHANGED <<carrier, options, end, fed, strays, dem, parts, ended, file, sent, fault>>

\* Everything is muxed and written; the session record follows.
MuxAndWrite ==
    /\ pc = "mux"
    /\ file' = Mux(carrier, units) /\ sent' = units
    /\ pc' = "written"
    /\ UNCHANGED <<carrier, options, end, fed, strays, dem, units, parts, ended, fault, why>>

-----------------------------------------------------------------------------
(* The way to the receiver.                                                 *)

Lose == \E i \in DOMAIN file :
    /\ file' = RemoveAt(file, i)
    /\ fault' = [kind |-> "lost", pid |-> file[i].pid]

Repeat == \E i \in DOMAIN file :
    /\ file' = InsertAt(file, i, file[i])
    /\ fault' = [kind |-> "repeated", pid |-> file[i].pid]

Damage ==
    /\ Forward /\ pc = "written" /\ fault.kind = "none" /\ MayDamage
    /\ Lose \/ Repeat
    /\ UNCHANGED <<carrier, options, end, pc, fed, strays, dem, units, parts, ended, sent, why>>

\* ts-unlock begins.
Receive ==
    /\ Forward /\ pc = "written"
    /\ end' = "unlock" /\ pc' = "demux"
    /\ dem' = Demuxer(carrier)
    /\ UNCHANGED <<carrier, options, fed, strays, units, parts, ended, file, sent, fault, why>>

\* A command that failed and the end of the unlock: nothing follows.
Stopped == (pc = "failed" \/ (~Forward /\ pc = "written")) /\ UNCHANGED vars

Next ==
    \/ \E t \in Tracks : ReadTrackPacket(t)
    \/ ReadFirstTables \/ ReadStray \/ ReadReceived \/ DemuxEnd
    \/ \E g \in DOMAIN parts : EndGroup(g)
    \/ VideoEnd \/ Audio \/ MuxAndWrite \/ Damage \/ Receive \/ Stopped

Spec == Init /\ [][Next]_vars

-----------------------------------------------------------------------------
(* Properties.                                                              *)

\* Every variable holds a value the program can put there.
TypeOK ==
    /\ end \in {"lock", "unlock"}
    /\ pc \in {"demux", "video", "audio", "mux", "written", "failed"}
    /\ why \in {"none", "no PMT", "no video", "codec", "no GOP", "range",
               "ffedit", "count"}
    /\ (pc = "failed") = (why # "none")
    /\ strays \in 0 .. MaxStray
    /\ \A t \in Tracks : fed[t][1] \in 0 .. Len(carrier[t].units)
    /\ DOMAIN dem.units = Tracks /\ DOMAIN dem.buffers = Tracks /\ DOMAIN units = Tracks
    /\ \A i \in DOMAIN file : file[i].pid \in Tracks \cup Tables
    /\ (pc = "video") = (parts # <<>>)

\* What a stream read to its end holds.
Reread(packets) == Finish(FoldLeft(Take, Demuxer(carrier), packets))

\* A unit as it comes out of a mux and a demux.
Normal(u) == [u EXCEPT !.dts = IF u.dts = u.pts THEN None ELSE u.dts]
NormalUnits(us) == [t \in DOMAIN us |-> [i \in DOMAIN us[t] |-> Normal(us[t][i])]]
CarrierUnits == [t \in Tracks |-> carrier[t].units]

\* The times of each track rise and the clock track has the earliest unit.
InOrder ==
    /\ \A t \in Tracks : \A i, j \in DOMAIN carrier[t].units :
           i < j => Time(carrier[t].units[i]) <= Time(carrier[t].units[j])
    /\ LET order == Order(CarrierUnits)
       IN  order = <<>> \/ order[1][1] \in ClockTrack(carrier)

\* However the carrier's packets are interleaved, with null packets, packets of
\* other programs, repeated tables and a beginning that was cut off, demux
\* has a prefix of each track's units at any moment and all of them at the end.
DemuxReassembles ==
    Forward /\ pc \in {"demux", "video"} =>
        \A t \in Tracks : /\ IsPrefix(dem.units[t], carrier[t].units)
                          /\ pc = "video" => units[t] = carrier[t].units

\* The locked stream is still one a player accepts: the carrier's timestamps,
\* unit for unit, each picture whole in the unit with its times, each audio
\* packet as long as it was (docs/adr/0001-transport.md, "Consequences").
LockedKeepsUnits ==
    Forward /\ pc = "written" /\ fault.kind = "none" /\ InOrder =>
        LET locked == Reread(file)
            before == NormalUnits(CarrierUnits)
            SameTimes(u, v) == u.pts = v.pts /\ u.dts = v.dts
            SamePicture(u, v) == {u.data[k].of : k \in DOMAIN u.data} = {v.data[1].of}
        IN  \A t \in Tracks :
                /\ Len(locked[t]) = Len(before[t])
                /\ \A i \in DOMAIN before[t] :
                      /\ SameTimes(locked[t][i], before[t][i])
                      /\ IF IsAudio(carrier, t)
                         THEN Len(locked[t][i].data) = Len(before[t][i].data)
                         ELSE SamePicture(locked[t][i], before[t][i])

\* The restored stream has the carrier's units, whatever the pool's order,
\* exactly when each track's times rise and the clock track begins; then the
\* unlock refuses only if FFedit fails (run_transport at both ends).
ExactIffInOrder ==
    ~Forward /\ fault.kind = "none" =>
        /\ pc = "written" => (Reread(file) = NormalUnits(CarrierUnits)) = InOrder
        /\ pc = "failed" /\ InOrder => why = "ffedit"

\* A packet lost or repeated on the way changes two units of its own track at
\* most, and none of another (demux has no use for continuity counters).
DamageIsLocal ==
    ~Forward /\ pc = "video" /\ fault.pid \in Tracks /\ InOrder =>
        LET before == NormalUnits(sent)
            missing(t) == {i \in DOMAIN before[t] :
                              \A j \in DOMAIN units[t] : units[t][j] # before[t][i]}
        IN  /\ \A t \in Tracks \ {fault.pid} : units[t] = before[t]
            /\ Cardinality(missing(fault.pid)) <= 2

\* A table lost on the way costs at most PsiPeriod units of the clock track, at
\* the beginning; what comes after the next tables arrives (mux repeats them).
TablesRecover ==
    ~Forward /\ pc \in {"video", "failed"} /\ fault.pid \in Tables /\ InOrder =>
        LET before == NormalUnits(sent)
        IN  /\ \A t \in Tracks : IsSuffix(units[t], before[t])
            /\ \A t \in ClockTrack(carrier) : Len(before[t]) - Len(units[t]) <= PsiPeriod

\* A damaged track, if it is unlocked at all, does not harm another: segments
\* are counted in the video and frames in the audio alone.
DamageSparesOthers ==
    ~Forward /\ pc = "mux" /\ fault.pid \in Tracks /\ InOrder =>
        \A t \in Tracks \ {fault.pid} : units[t] = NormalUnits(CarrierUnits)[t]

\* What is lost on the way does not spread: not in the demultiplexer, not
\* through the tables, not through the numbers that segments are locked under.
DamageStaysLocal == DamageIsLocal /\ TablesRecover /\ DamageSparesOthers

\* "the key holder gets the carrier's elementary streams back byte for byte"
\* (the module's docstring).  Units before the clock track's first do not.
EveryUnitComesBack ==
    ~Forward /\ pc = "written" /\ fault.kind = "none" =>
        Reread(file) = NormalUnits(CarrierUnits)
=============================================================================
