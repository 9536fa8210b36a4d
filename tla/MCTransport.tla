---------------------------- MODULE MCTransport ----------------------------
(* Carriers for TLC: timestamps of three bits.                              *)
EXTENDS Transport

View(of, size, gop, pts, dts) ==
    [pts |-> pts, dts |-> dts, data |-> Picture(of, size, gop, Plain)]
Sound(pts, cells) == [pts |-> pts, dts |-> None, data |-> cells]
Half(of, part) == [of |-> of, part |-> part, size |-> 2, gop |-> FALSE, lock |-> Plain]
Video(us) == [codec |-> "h264", units |-> us]
Mp2(us) == [codec |-> "mp2", units |-> us]

\* Two GOPs, a B-frame, one picture whose two times are equal.
TwoGops == <<View("i1", 2, TRUE, 2, 1), View("p1", 1, FALSE, 2, 2), View("i2", 1, TRUE, 5, 3)>>
\* Frames across packets, some junk before the first.
Split3 == << <<Half("junk", 0), Half("a1", 1)>>, <<Half("a1", 2), Half("a2", 1), Half("a2", 2)>> >>

InStep == << Video(TwoGops), Mp2(<<Sound(1, Split3[1]), Sound(3, Split3[2])>>) >>
\* The audio is first in the table and in time (1: by a tie, 0: by a tick).
AudioLeads(time) ==
    << Mp2(<<Sound(time, <<Half("a1", 1), Half("a1", 2)>>), Sound(2, <<Half("a2", 1), Half("a2", 2)>>)>>),
       Video(<<View("i1", 1, TRUE, 1, None), View("i2", 1, TRUE, 3, None)>>) >>
\* The clock wraps in the middle of the video.
Wrapping == << Video(<<View("i1", 1, TRUE, 6, None), View("i2", 1, TRUE, 0, 7), View("i3", 1, TRUE, 1, None)>>) >>
\* A picture without a time of its own; a second audio track, which is copied.
Timeless == << Video(<<View("i1", 1, TRUE, 1, None), View("p1", 2, FALSE, None, None)>>) >>
TwoSounds == << Video(<<View("i1", 1, TRUE, 0, None)>>), Mp2(<<Sound(0, <<Half("a1", 1), Half("a1", 2)>>)>>),
                Mp2(<<Sound(1, <<Half("b1", 1), Half("b1", 2)>>)>>) >>
Refused == { << [codec |-> "mpeg2video", units |-> TwoGops] >>,
             << Mp2(<<Sound(1, Split3[2])>>) >>,
             << Video(<<View("p1", 1, FALSE, 1, None), View("i1", 1, TRUE, 2, None)>>) >> }

MCCarriers == {InStep, AudioLeads(1), AudioLeads(0), Wrapping, Timeless, TwoSounds} \cup Refused
MCOptions == {[gops |-> 1, audio |-> TRUE], [gops |-> 0, audio |-> FALSE], [gops |-> 2, audio |-> TRUE]}
LeadingCarriers == {AudioLeads(0)}
=============================================================================
