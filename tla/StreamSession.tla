--------------------------- MODULE StreamSession ---------------------------
(***************************************************************************)
(* stream-lock at one end of a connection and stream-unlock at the other     *)
(* (src/glitchlock/stream.py, src/glitchlock/cli.py).  No manifest travels:   *)
(* the receiver counts GOPs as the sender did and derives each segment's      *)
(* keystream from the session record and the count.                         *)
(*                                                                         *)
(* A locked GOP carries the label its first frame was locked under; it is     *)
(* restored when it is unlocked under the same one.  What happens inside      *)
(* run_stream is the subject of StreamPipeline: here it is the ordered pipe   *)
(* that module implements, one segment at a time.                           *)
(***************************************************************************)
EXTENDS Naturals, Sequences, SequencesExt

CONSTANTS MaxRuns,       \* bound: transmissions
          MaxGops,       \* bound: GOPs in all transmissions
          GopLengths,    \* frames a GOP may have
          GroupSizes,    \* values of the --gops option, 0 included
          Firsts,        \* values of a session's first_segment
          MaxLosses,     \* bound: GOPs the connection loses
          MaxLate,       \* bound: GOPs missed by joining late, numbers added
          None

ASSUME StreamSessionAssumption ==
    /\ MaxRuns \in Nat /\ MaxGops \in Nat /\ MaxLosses \in Nat /\ MaxLate \in Nat
    /\ GopLengths \subseteq Nat \ {0} /\ GroupSizes \subseteq Nat /\ Firsts \subseteq Nat

VARIABLES run,           \* transmissions begun; also the nonce of the last
          session,       \* the sender's session, in memory
          saved,         \* the session file
          sender,        \* "idle", "reading" or "draining" (input ended)
          read,          \* GOPs read in this transmission
          batch,         \* GOPs read and not yet in a segment
          number,        \* the next segment's number
          locked,        \* history: every locked GOP written, in order
          wire,          \* locked GOPs written and not yet received
          rx,            \* the receiver: [on, session, number, skipped, ahead, lost]
          inbox,         \* GOPs received and not yet in a segment
          opened         \* history: [gop, right] of each GOP this receiver unlocked

senderVars == <<run, session, saved, sender, read, batch, number, locked>>
receiverVars == <<rx, inbox, opened>>
vars == <<senderVars, wire, receiverVars>>

-----------------------------------------------------------------------------
\* max(1, session.gops)
GroupSize(s) == IF s.gops < 1 THEN 1 ELSE s.gops

\* Mutant: the segment number is left out of the label.
FrameLabelUnnumbered(nonce, segment, frame) ==
    [nonce |-> nonce, segment |-> 0, frame |-> frame]

\* A segment number of 0 gives a label of fewer fields, different from all others.
FrameLabel(nonce, segment, frame) == [nonce |-> nonce, segment |-> segment, frame |-> frame]

\* Mutant: frames are numbered from 0 in each GOP.
FirstFrameRestarts(gops, i) == 0

\* Frames are numbered from 0 in each segment.
FirstFrame(gops, i) == FoldLeft(LAMBDA n, g : n + g.frames, 0, SubSeq(gops, 1, i - 1))

Labels(gops, nonce, segment) ==
    [i \in DOMAIN gops |-> FrameLabel(nonce, segment, FirstFrame(gops, i))]

LockSegment(gops, nonce, segment) ==
    [i \in DOMAIN gops |-> [gop    |-> gops[i].gop,
                            frames |-> gops[i].frames,
                            label  |-> Labels(gops, nonce, segment)[i]]]

UnlockSegment(gops, nonce, segment) ==
    [i \in DOMAIN gops |-> [gop   |-> gops[i].gop,
                            right |-> gops[i].label = Labels(gops, nonce, segment)[i]]]

Off == [on |-> FALSE, session |-> None, number |-> 0, skipped |-> 0, ahead |-> 0, lost |-> 0]

Init ==
    /\ run = 0 /\ session = None /\ saved = None /\ sender = "idle" /\ read = 0
    /\ batch = <<>> /\ number = 0 /\ locked = <<>> /\ wire = <<>>
    /\ rx = Off /\ inbox = <<>> /\ opened = <<>>

-----------------------------------------------------------------------------
(* stream-lock.                                                             *)

\* One connection at a time: the next transmission finds no receiver waiting.
SendStart(gops, first) ==
    /\ sender = "idle" /\ ~rx.on /\ run < MaxRuns
    /\ run' = run + 1
    /\ session' = [nonce |-> run + 1, gops |-> gops, first |-> first]
    /\ sender' = "reading"
    /\ read' = 0 /\ batch' = <<>> /\ wire' = <<>>
    /\ number' = first
    /\ UNCHANGED <<saved, locked, receiverVars>>

ReadGop(frames) ==
    /\ sender = "reading" /\ Len(batch) < GroupSize(session)
    /\ Len(locked) + Len(batch) < MaxGops
    /\ read' = read + 1
    /\ batch' = Append(batch, [gop |-> <<run, read + 1>>, frames |-> frames])
    /\ UNCHANGED <<run, session, saved, sender, number, locked, wire, receiverVars>>

InputEnds ==
    /\ sender = "reading" /\ Len(batch) < GroupSize(session)
    /\ sender' = "draining"
    /\ UNCHANGED <<run, session, saved, read, batch, number, locked, wire, receiverVars>>

\* _group yields a full batch, and at the end what is left of one.
SegmentReady ==
    \/ sender = "reading" /\ Len(batch) = GroupSize(session)
    \/ sender = "draining" /\ batch # <<>>

SendSegment ==
    /\ SegmentReady
    /\ LET segment == LockSegment(batch, session.nonce, number)
       IN locked' = locked \o segment /\ wire' = wire \o segment
    /\ number' = number + 1
    /\ batch' = <<>>
    /\ UNCHANGED <<run, session, saved, sender, read, receiverVars>>

\* A partial GOP, or a repair a stream cannot carry: LockError ends the command.
SegmentFails ==
    /\ SegmentReady
    /\ sender' = "idle"
    /\ batch' = <<>>
    /\ UNCHANGED <<run, session, saved, read, number, locked, wire, receiverVars>>

\* The session file is written once run_stream has returned.
SaveSession ==
    /\ sender = "draining" /\ batch = <<>>
    /\ saved' = session
    /\ sender' = "idle"
    /\ UNCHANGED <<run, session, read, batch, number, locked, wire, receiverVars>>

-----------------------------------------------------------------------------
(* stream-unlock.                                                           *)

\* GOPs of this transmission that are no longer to be had from the connection.
Gone == Cardinality({i \in DOMAIN locked : locked[i].label.nonce = run}) - Len(wire)

\* The receiver joins after `skip` more GOPs have gone by; its SegmentReader
\* drops what is left of the GOP it joined in.  `ahead` is added to
\* first_segment by an operator who edits the session record to join late.
ReceiveStart(skip, ahead) ==
    /\ ~rx.on /\ saved # None /\ skip <= Len(wire)
    /\ rx' = [on |-> TRUE, session |-> saved, number |-> saved.first + ahead,
              skipped |-> Gone + skip, ahead |-> ahead, lost |-> 0]
    /\ wire' = SubSeq(wire, skip + 1, Len(wire))
    /\ inbox' = <<>> /\ opened' = <<>>
    /\ UNCHANGED senderVars

ReceiveGop ==
    /\ rx.on /\ wire # <<>> /\ Len(inbox) < GroupSize(rx.session)
    /\ inbox' = Append(inbox, Head(wire))
    /\ wire' = Tail(wire)
    /\ UNCHANGED <<senderVars, rx, opened>>

\* The sender's end of the connection is closed and everything has arrived.
EndOfStream == sender = "idle" /\ wire = <<>>

\* Mutant: what has been unlocked stays in the batch.
OpenSegmentKeepsBatch ==
    /\ rx.on
    /\ \/ Len(inbox) = GroupSize(rx.session)
       \/ EndOfStream /\ inbox # <<>>
    /\ opened' = opened \o UnlockSegment(inbox, rx.session.nonce, rx.number)
    /\ rx' = [rx EXCEPT !.number = @ + 1]
    /\ UNCHANGED <<senderVars, wire, inbox>>

\* Mutant: the segment number does not advance.
OpenSegmentSameNumber ==
    /\ rx.on
    /\ \/ Len(inbox) = GroupSize(rx.session)
       \/ EndOfStream /\ inbox # <<>>
    /\ opened' = opened \o UnlockSegment(inbox, rx.session.nonce, rx.number)
    /\ inbox' = <<>>
    /\ UNCHANGED <<senderVars, wire, rx>>

OpenSegment ==
    /\ rx.on
    /\ \/ Len(inbox) = GroupSize(rx.session)
       \/ EndOfStream /\ inbox # <<>>
    /\ opened' = opened \o UnlockSegment(inbox, rx.session.nonce, rx.number)
    /\ rx' = [rx EXCEPT !.number = @ + 1]
    /\ inbox' = <<>>
    /\ UNCHANGED <<senderVars, wire>>

\* The stream has ended, or FFedit refused a segment.
ReceiveEnd ==
    /\ rx.on /\ (EndOfStream \/ Len(inbox) = GroupSize(rx.session))
    /\ rx' = Off /\ inbox' = <<>> /\ opened' = <<>>
    /\ UNCHANGED <<senderVars, wire>>

\* The connection loses a GOP.
Lose ==
    /\ rx.on /\ wire # <<>> /\ rx.lost < MaxLosses
    /\ wire' = Tail(wire)
    /\ rx' = [rx EXCEPT !.lost = @ + 1]
    /\ UNCHANGED <<senderVars, inbox, opened>>

Next ==
    \/ \E g \in GroupSizes, f \in Firsts : SendStart(g, f)
    \/ \E n \in GopLengths : ReadGop(n)
    \/ InputEnds \/ SendSegment \/ SegmentFails \/ SaveSession
    \/ \E skip, ahead \in 0 .. MaxLate : ReceiveStart(skip, ahead)
    \/ ReceiveGop \/ OpenSegment \/ ReceiveEnd \/ Lose

Spec == Init /\ [][Next]_vars

-----------------------------------------------------------------------------
(* Properties.                                                              *)

Session == [nonce : 1 .. MaxRuns, gops : GroupSizes, first : Firsts]

\* Every variable holds a value the program can put there.
TypeOK ==
    /\ run \in 0 .. MaxRuns /\ session \in Session \cup {None} /\ saved \in Session \cup {None}
    /\ sender \in {"idle", "reading", "draining"} /\ read \in 0 .. MaxGops
    /\ sender # "idle" => Len(batch) <= GroupSize(session)
    /\ rx.on => Len(inbox) <= GroupSize(rx.session)
    /\ rx.on => rx.skipped + rx.lost + Len(inbox) + Len(opened) + Len(wire) <= MaxGops

FrameLabels(g) == {[g.label EXCEPT !.frame = @ + k] : k \in 0 .. g.frames - 1}

\* No two frames ever sent are locked under one label, so under one keystream:
\* not in a segment, nor in the segments of a transmission, nor in two (_label).
NoKeystreamReuse ==
    \A i, j \in DOMAIN locked :
        i # j => FrameLabels(locked[i]) \cap FrameLabels(locked[j]) = {}

\* The receiver has the record of the stream it receives, joined it at the
\* first GOP of a segment, and counts from that segment's number.
StartedInStep ==
    /\ rx.session = session
    /\ rx.skipped = rx.ahead * GroupSize(session)

\* Such a receiver gets back every GOP sent from there on, in order, with none
\* missing, for any --gops, any GOP lengths and a last segment of any size
\* (stream.py: the receiver "rebuilds each segment's manifest itself").
InStepReceiverRestores ==
    rx.on /\ StartedInStep /\ rx.lost = 0 =>
        \A i \in DOMAIN opened : opened[i] = [gop |-> <<run, rx.skipped + i>>, right |-> TRUE]

\* Without losses a receiver is right about every GOP or about none: out of step
\* there is no segment whose keystream it derives by luck.
RightThroughoutOrNever ==
    rx.on /\ rx.lost = 0 =>
        \A i, j \in DOMAIN opened : opened[i].right = opened[j].right

\* After a GOP lost on the way nothing is right again, even when the losses add
\* up to whole segments: nothing in the stream tells the receiver its place.
LossIsNeverHealed ==
    rx.on /\ StartedInStep =>
        \A i, j \in DOMAIN opened : i < j /\ ~opened[i].right => ~opened[j].right

\* Nothing in the stream tells a receiver its place, so a place once wrong stays
\* wrong, whether it was joined wrongly or GOPs were lost.
OutOfStepForGood == RightThroughoutOrNever /\ LossIsNeverHealed
=============================================================================
