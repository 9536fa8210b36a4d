# glitchlock in TLA+

glitchlock scrambles compressed video and audio reversibly: it edits motion
vectors, quantiser scales, coefficient signs (through FFglitch's `ffedit`) and
MP2 fields under a keystream, and a *manifest* lets the key holder undo it byte
for byte. This directory models the parts of it that are hard to test, checks
them with TLC on small instances, and proves the most important of their
properties with TLAPS for instances of every size.

Paths below are relative to the repository; `core.py` and the like are in
`src/glitchlock/`.

## The system

| Component | State it keeps | Operations | What is hard about it |
|---|---|---|---|
| Frame transform (`transform.py`, `domains.py`) | a frame's slots and a plan per frame | `plan_frame`, `apply_plan`, `find_repairs`, `apply_repairs`, the domain guard | exact inverses at the edges of cyclic domains, permutations within domains, repairs under a permutation |
| File lock / unlock (`core.py`, `cmd_lock`, `cmd_unlock` in `cli.py`) | output, manifest and restored file on disk; the manifest in memory; scratch stages | `lock`, `unlock`, layers, copy check, self-test, sign, save | several layers undone in reverse, what a refusal or a kill leaves on disk, a new output beside an old manifest |
| Manifest (`manifest.py`) | the record and its tag | `sign`, `verify`, `save`, `load` | which fields the tag covers and when it is made; numbers that change form in JSON |
| Keystream (`crypto.py`) | counter, buffer, position | `read`, `randbelow`, `permutation` | block boundaries, bias |
| Segment splitting (`stream.py`) | a byte buffer | `feed`, `flush`, `split_segments` | a marker cut in two, the first partial segment |
| Stream pipeline (`stream.py`) | deque of futures, pool, next number | `run_stream`: read, drain, submit, finish, shut down | completion in any order, failure while other pieces run, memory bound, shutdown |
| Stream session (`stream.py`, `cli.py`) | session record, segment numbers at both ends | `stream-lock`, `stream-unlock` | two counters that must agree with no message between them, late joins, losses, a stale record |
| FFglitch driver (`ffg.py`) | none | `export`, `apply` by subprocess | any call may fail; an encoder may not store what it was given |
| MP2 framing (`mp2.py`) | the reader's buffer, the count of dropped bytes | `parse_frame`, `write_frame`, `iter_units`, `FrameReader`, `transform_stream` | frames are located again in the locked file; headers and frames split over reads; junk that looks like a header |
| Transport (`transport.py`) | PES buffers, PSI tables, worker pool, session record | `demux`, `_video`, `_audio`, `mux`, `ts-lock`, `ts-unlock` | interleaved tracks, packet order by timestamp, pictures that change their length, packets lost or repeated on the way |
| Keys (`cli.py`, `pubkey.py`) | none | key resolution at both ends, `seal`, `unseal` | two priority lists that must agree |
| Web server (`web/server.py`) | job directories, cached previews | upload, lock, unlock, preview, sweep | requests and a sweeper sharing files |
| Walking, argument parsing, inspection | none | | no state, no interaction |

How they interact: `cmd_lock` resolves a key and calls `lock`, which for each
feature exports the slots with `ffedit`, transforms them, applies them and reads
them back; it then calls `unlock` on its own output (the self-test), signs, and
`cmd_lock` signs and saves. `run_stream` splits its input with `SegmentReader`,
groups and numbers the segments and calls `lock` or `unlock` on each in a thread
pool. `run_transport` does the same with the video of a transport stream, each group
of pictures in a task, and hands its audio to `mp2.transform_stream`. Every frame's plan is drawn from a `KeyStream` labelled with feature,
segment, stream and frame. The web server runs the same `lock` and `unlock` in
request threads over job directories.

What makes each part correct: transform — unlock is the inverse of lock on legal
values; lock — what is shipped can be restored and is not the plaintext, a
refusal leaves nothing; manifest — an accepted pair of file and manifest is one
that was made together; pipeline — a prefix of the stream in order, bounded
memory, the first failure reported, no task left running; session — no label used
twice, both ends in step or the output all wrong; keystream — each byte given
once; draws — no bias; splitter and MP2 reader — the same segments and frames
however the input is cut; MP2 — a locked frame is a legal frame, and the unlock
finds the frames the lock found; transport — each picture keeps its timestamps, the
other end gets the units back, and what is lost on the way does not spread.

## Modules

| Module | Models | Uses |
|---|---|---|
| `Transform` | the transform of a frame and its repairs, as operators | |
| `LockCore` | lock and unlock commands over one set of paths | `Transform` |
| `MCLockCore` | instances for TLC | `LockCore` |
| `OrderedPipe` | what `run_stream` promises | |
| `StreamPipeline` | `run_stream` and its thread pool | `OrderedPipe` (refined) |
| `SegmentReader`, `MCSegmentReader` | the incremental splitter | |
| `StreamSession` | the two ends of a stream | `run_stream` as the ordered pipe |
| `KeyStream` | buffering of the keystream | |
| `Draws` | rejection sampling and the shuffle | `KeyStream` |
| `KeyResolution` | which key lock and unlock use, recipients | |
| `WebJobs` | one job of the web server under its page's requests and sweeps | |
| `Transport`, `MCTransport` | a transport stream locked, sent and unlocked | |
| `Mp2Frames`, `MCMp2Frames` | Layer II framing, parsing and locking | |
| `LockCoreProofs` (and `Transform`), `StreamProofs`, `StreamSessionProofs`, `KeyProofs`, `WebJobsProofs`, `TransportProofs`, `Mp2FramesProofs` | proofs | |
| `DataInduction` | lemmas: induction over numbers, recursive functions, folds, joins and slices of sequences | |

**Transform.** A frame is a sequence of domains (`lo`, `n`) and a function from
slots to integers. The keystream enters through the *set* of plans it can give:
`Plans` holds every selection, every tuple of offsets and every product of
permutations inside the domains' buckets. Several frames of one document are
modelled as the slots of one frame. A repair's address is its slot number.

**LockCore.** A file is what its slots hold and a digest is the file itself, so
"byte for byte" is equality. A nonce is the family of plans it gives, one per
feature; a second layer of one feature uses the same plan, as the code's label
has no layer number. One action per stage: `LockTransform` (export, guard,
transform), `LockApply`, `LockVerify` (read back, layout check, repairs),
`LockAudio` for MP2 (one pass, no repairs), `LockDigest` (the copy check),
the self-test through the unlock actions, `SelfTestVerdict`, `SignAndOpen`,
`SaveManifest`; `UnlockStart` (load, tag, digest), `UnlockVideoLayer`,
`UnlockAudio`, `UnlockIntegrity`. Any call of `ffedit` may fail, leaving the file
it was writing torn. `trap` is an encoder quirk fixed for the behaviour: one slot
stores one value as another, or disappears over it; applying the values a file
already holds reproduces them. `Crash` kills the command between any two
actions or while it is writing; `EditManifest` changes the digest of a saved
manifest to that of the file beside it. A first command is any of `Requests`; when
it is over, others are started from the shorter list `Again`, up to `MaxLocks` locks
in all. The carrier, the output and the restored
file have paths of their own.

**StreamPipeline.** The main thread's `pc` walks through reading a piece, draining
when the deque is full, submitting, finishing, joining the pool and flushing.
`drain` is `Take` (popleft) and the three ways an awaited future ends. The pool is
the library's: a FIFO of tasks, at most `max(1, workers)` running, a shutdown
that runs what is queued. `fate` settles at the start how work on each piece
ends. `OrderedPipe` is the promise (`Emit` the next piece, `Complete`, `Break`),
implemented under `out <- written`.

**SegmentReader** keeps `_buf`, `_started` and `dropped_prefix` and is fed every
stream in every cut. **StreamSession** has a sender that groups, numbers and
labels GOPs, saves its session record at the end or fails before, a connection
that a receiver may join late and that may lose GOPs, and a receiver that counts
for itself; `run_stream` is the ordered pipe between them. **KeyStream** follows
`read` and `_refill` with the block's bytes standing for themselves. **Draws**
runs the shuffle over that keystream, from wherever a plan's earlier draws left it,
for every accepted and rejected word.

**KeyResolution.** One lock, one journey of its manifest, one unlock, each from
every combination of options. A derivation is the term it computes, so two keys
are equal when the same secret went through the same function with the same salt;
a tag is the pair of key and body. `LockToRecipients` to `LockPassphrase` are the
returns of `_resolve_key_for_lock`, `ResolveForUnlock` those of
`_resolve_key_for_unlock`, `ResolveOnWeb` the web server's. `Damage` reorders,
relabels, removes or spoils recipients' entries before they arrive.

**WebJobs.** One job: `carrier`, `locked` and `restored` videos, the manifest,
previews. Requests are threads whose steps are the files they open, write and read
back: `LockDigest`, `LockExport` and `LockApply` each read the carrier anew, a
transcode may overwrite it between and under them, and a sweep lists, unlinks and
removes while they run (unlinking what it listed is one step; one sweep at a
time). `Torn` is a file cut short or still being written; reading one file twice
while it changes may make `Scrap`, which equals no other. The page disables a
button while its own request runs: at most one prepare, lock and unlock at a time.
A lock of one layer stands for any number, since later layers read scratch files
of the request's own.

**Transport.** `ts-lock` over one program, one damaged or undamaged journey, and
`ts-unlock`. A *cell* is as much of an elementary stream as one packet takes, and its
`lock` field says under which segment and frame it was locked: the same label makes
it plain again, any other makes noise of it. `demux` is one action per packet
(`ReadFirstTables`, `ReadTrackPacket`, `ReadStray` at the lock, `ReadReceived` at the
unlock), all of them through `Take`, the body of the loop, so the tracks interleave in
every way and null packets, packets of other programs, repeated tables and tails
of units fall anywhere between. `DemuxEnd` closes the buffers and makes the
refusals of `run_transport` and `_gops`. `EndGroup` is a task of the pool: tasks begin in order,
`Workers` at a time, and end in any order; `VideoEnd` is `pool.map`, whose results come
in order and whose first failure is raised. FFedit makes a picture of one cell two
and one of two cells one, so nothing keeps its place by luck. `Split` and `SplitFails` are
`_split_aus`, `LockAudio` and `Recut` are `_audio`, `Mux` with `Order` and `TablesBefore` is `mux`.
`Lose` and `Repeat` take or repeat one packet of the locked file.

**Mp2Frames.** A cell is one field of a frame: half a header, an allocation, a scfsi
code, a scale factor, a sample codeword, a byte of anything else. Every cell may hold
any value, so junk may hold a header, a frame may hold one inside, and a header may be
the last cells of a chunk. `Parse` gives the verdict of `parse_frame` on a candidate
(frame, refuse, raise), `Status` and `Examine` are `_locate`, `Scan` is a reader drained of
every frame it can find, `Whole` is `iter_units`, and `Feed` and `Flush` are
those of `FrameReader`, given chunks of every size. The carrier is read, locked
under any plan, read again, and unlocked.

## Runs

| Run | Bounds | What it shows |
|---|---|---|
| `lock_core` | two features, two vector slots of one domain of 3 values and one sign; three carriers (distinct, equal and out-of-domain values), three quirks, three feature lists, all modes and options; two keys, up to two locks (the second of one feature, with and without self-test, or of two, where it may be refused at the second), kills, one edited manifest; keys are symmetric | what is shipped unlocks to the carrier, with a faithful encoder, or one that drops a slot and is found out, always, and with one that stores something else by its repairs in mode `substitute`; no copy is shipped unasked; a refusal for the domain leaves the output path as it was, with an earlier output if there was one, and a refusal for a copy or by the self-test leaves nothing there; a proven manifest is never followed by a mismatch; a saved manifest verifies under its key |
| `repairs` (violation) | as `lock_core`, video, one lock | repairs do **not** make up for the encoder in modes `full` and `permute` |
| `stream_pipeline` | 6 pieces, 2 workers, failing I/O | order, bound, error reporting, clean return, termination, refinement |
| `segment_reader` | streams of up to 9 bytes over 2 byte values, marker of 3, chunks of up to 4 | any cut gives `split_segments`' answer, with one segment of latency and every byte accounted for |
| `stream_session` | 1 or 2 transmissions, 5 GOPs of 1 or 2 frames in all, groups of 1 and 2 (`--gops` 0 and 2); 2 losses; joins up to 2 GOPs late | no label twice; a receiver is right throughout or never; one in step restores; a loss is never healed |
| `draws` | blocks of 3 bytes of 2 bits, 14 bytes, earlier reads of 1 to 7, lists of up to 5 | reads are contiguous; no bias in a draw, none in the shuffle |
| `key_resolution` | 2 secrets, 2 identities, up to 2 recipients; one damage | the same options reopen a file; a variable left in a shell is not in the way; page and command line agree; labels do not matter; what opens is what was issued |
| `web_jobs` | 4 requests out of 2 transcodes, 2 locks, 1 unlock, 1 preview; sweeps at any time | what passed its self-test does restore its carrier, whatever overlapped; unlocking it is exact unless it was being overwritten; with visitors, an abandoned job goes for good |
| `transport` | nine programs of one to three tracks (B-frames, equal, missing, wrapped and falling times, audio first in table and time, a second audio track, and three that are refused); 3-bit timestamps, tables every 2 units, 2 workers, 3 option records, 1 stray packet, 1 packet lost or repeated | demux has each track's units; the locked stream has the carrier's times, picture for picture; the restored stream is the carrier exactly when no track's times fall and the clock track begins; damage stays in its track, its two units, the first tables |
| `transport_lead` (violation) | audio one tick before the video | units before the first of the clock track are lost |
| `mp2_frames` | streams of up to 16 cells: one mono or joint-stereo frame or two mono frames, with every kind of junk around them, and a short mono frame behind a header whose own frame never comes; 3 ranges, 4 plans, one and two layers, chunks of up to 3 cells | the reader gives what `iter_units` gives and counts every byte; a locked frame is legal; the framing changes only where a junk header overlaps a locked field |
| `mp2_junk` (violation) | as `mp2_frames` | a header whose scale factors do not fit raises instead of being junk |

Why these bounds are enough to be worth something. A permutation needs two slots
of one domain, a lost repair needs the permutation to move the lost value, and a
bucket boundary needs a second domain: `MCSlots` has just these. Three values
give offsets whose sum wraps and whose sum does not. Two layers give a reverse
order, and the list `<<"mv", "mv">>` the repeated feature. Two locks give an old
manifest beside a new output. In the pipeline, six pieces with a deque of four
let the deque fill, drain and fill again, and finish with a non-empty deque. In
the splitter, nine bytes hold two markers and two cuts inside a marker, and a
chunk may be longer than a marker. In the session, groups of two with five
GOPs end in a partial group, and two losses add up to a whole group of two. Two
secrets and two identities are one right and one wrong of each. In the transport
stream, two groups end in either order, three tracks give a copied one, three
bits of time wrap within three units, and a table lost is one of two or three. In
the MP2 streams, chunks of up to three cells cut a header of two and a frame of eight
at every place. Two transcodes
and two locks let each file be overwritten once under a reader and under a pair
that passed.
The states of `lock_core` end in idle states with no more commands, `segment_reader`, `draws` and `stream_session` at the end of their
input, `key_resolution` after the unlock, `web_jobs` when the page has made its
requests and the job is gone: these are the runs with `CHECK_DEADLOCK FALSE`. The
pipeline, transport and MP2 runs check deadlock, with a `Terminated` or `Stopped` step
only where the commands have ended or raised. `--workers 0` is left to the proofs, which hold for any number of workers.

Each property of a passing run has a *mutant* next to the definition it changes
(a comment says "Mutant:"): the definition as a plausible bug would have it. They
are used by no specification; replacing the definition by its mutant makes TLC
find the property violated.

### Fairness

In the pipeline, `Main` is weakly fair (the main thread keeps
running; a blocked `fut.result()` or shutdown is a disabled action, not an unfair
one; its `ReadPiece`/`ReadEnd` say that a read returns, so a source that hangs is
excluded), `StartWork` and each `EndWork(p)` are weakly fair (the pool's threads
run and each `ffedit` call ends). The code sets no timeout on `ffedit`: a piece
that never ends would block `run_stream`, and the fairness of `EndWork` is exactly
that assumption. Nothing is assumed of the order in which pieces end.

For the web server, `ServerSpec` says that a request or sweep that has begun takes
its next step or fails (its thread runs) and that an hour goes by; it does not say
that anyone asks for anything, since `sweep` is called from `do_POST` only.
`VisitedSpec` adds `WF_vars(SweepStat)`: POSTs keep coming, of any client. The
requests of the job's own page are never fair: it may stop at any time.

### Disagreements found

1. `repairs` — `find_repairs` keys a repair by the address of the ciphertext slot
   and stores the plaintext of that address. Under a permutation the value the
   encoder lost belongs elsewhere. `README.md` says recovery stays exact
   regardless. The self-test refuses such a lock; `--no-selftest` ships it.
2. `transport_lead` — `mux` writes PAT and PMT before the first unit of the clock
   track (`transport.py:399`), which is not the first unit when audio starts earlier;
   `demux` passes over packets of a PID it has not seen listed. `transport.py:14` says
   that the elementary streams come back byte for byte, and `mux` itself that the
   tables are "up front". `ExactIffInOrder` is what does hold.
3. `mp2_junk` — `parse_frame` reads scfsi codes and scale factors before it checks that
   they lie inside the frame (`mp2.py:401`, `:410` against `:415`); past its end the slice is
   empty and `int` raises `ValueError`, which `_locate` does not catch. `mp2.py:35` says that
   junk is carried through.

Seen while modelling, and stated by the modules rather than by a run:

- MP2 framing is said to look at nothing that locking modifies (`mp2.py:33`). A header
  among the junk, close before a frame, has its allocation *inside* that frame, and may
  be refused before the lock and accepted after it; the unlock then restores something
  else. `MisframedOnlyByOverlap` says that nothing else changes the framing. The
  reader's "no lookahead latency" (`mp2.py:574`) is likewise not true behind such a header:
  it waits for the bytes of a frame that is none.
- Only the copy check and the self-test remove the output of a refused lock. A layout
  change found after the last layer was applied leaves the file (`core.py:259`), against
  what `tests/test_bframes.py:176` states of refusals; `RefusedLeavesNoOutput` leaves
  that refusal out, and those where FFedit itself fails. A copy or a failed self-test
  removes what is at the output path, which by then is this lock's own file.
- `stream-lock` saves its session record after the stream has ended (`cli.py:313`), so the
  live example of `README.md` has no record to start from, and a stream that fails
  never saves it; `SaveSession` comes after the last `SendSegment`. `ts-lock` saves
  its record last too, after a file.
- A preview file is served as soon as it exists (`web/server.py:171`): half-written, left by
  an `ffmpeg` that failed, or of an earlier file of that name.
- `lock` takes `GLITCHLOCK_KEY` before `--password`, so a passphrase given beside it does not
  open the file (`LockEnv` before `LockPassphrase`; `SameOptionsReopen` asks for the same
  environment).
- The page says uploads are deleted after an hour, but only a POST sweeps
  (`AbandonedIsDeleted` holds of `VisitedSpec` and not of `ServerSpec`).
- A second lock writes over the file under the download link of the first, whose
  verdict the page still shows (`HandedOverIsExact` therefore asks that the file was not
  being overwritten).

## Proofs

`LockCoreProofs` proves of `Transform`, for any slots, domains, mode and plan, that a locked
frame holds legal values (`ForwardStaysInDomain`) and that unlocking under the
same plan restores it exactly (`RoundTrip`). The argument: a shift inside a cyclic
domain is undone by the opposite shift (`ShiftFacts`), and a plan's permutation is
a bijection of the selected slots that keeps domains (`PlanFacts`).

`StreamProofs` proves every safety property of the pipeline (`FailureReportIsTrue`
among them) and the refinement, for any number of pieces and workers, from
`StreamPipelineAssumption` alone. `WrittenInOrder` is not inductive: what is
written next depends on the deque. The invariant `Inv` adds that the deque is the
run of consecutive pieces after the one awaited (`DequeIsRun`), that the awaited
piece is the next to write (`TakenIsNext`), that everything written succeeded
(`WrittenWereOk`), and what each place of the main thread and each outcome say of
the rest (`AtPlace`, `AtOutcome`). `TakeInv` and `PoolInv` treat the steps that
move pieces; `StepRefines` maps `PieceWritten` to `Emit`, failures to `Break`, a
successful `Flush` to `Complete`, and all else to stuttering.
It also proves of `SegmentReader`, for markers of any lengths and streams of any kind in any cut,
that the splitter gives the segments of the whole stream (`SplitsAsWhole`) and holds no more
than it must (`ReaderHoldsLittle`). The invariant `ReaderInv` says what the buffer is: the stream from
the last marker found, or, before the first, as many last bytes as could begin one. `Grow`
relates the markers of what is left to those of the whole, `ListIsUnique` makes an increasing
list of the marker offsets the only one, and `PiecesJoin` accounts for every byte.

`StreamSessionProofs` proves, for any numbers of transmissions, GOPs, losses and late
starts, any GOP lengths and any `--gops`, that no label is used twice
(`KeystreamsAreFresh`), that a receiver in step restores what was sent
(`RestoresInStep`), and that one out of step stays so (`NeverBackInStep`). The three
say whether labels fit that two ends derived from counts of their own; the
invariant `IInv` relates both counts to what neither end keeps, the *place* of a GOP in its
transmission. `Numbered` gives the label a GOP has from its place, `Received` says that places
run ahead of positions by what was missed, `Counted` that a receiver has opened full
segments only, `Sending` that a sender has written full segments only while more is
to come, and `Ordered` that labels only grow. What is left is arithmetic on
any segment size: a count in step gives a GOP its label exactly when it is in its
place (`RightInPlace`: each GOP missed has a frame at least), and a count ahead of the
GOPs never does (`WrongWhenBehind`). These go by induction on the place in a segment, and
the first frame of a GOP is a fold; `DataInduction` has what that takes, from the
well-foundedness of the naturals: a set with 0 and every successor of its members is all of
them (`Inductively`), a recursion on a number defines a function
(`StepRecursion`), and so does the recursion on sets behind the library's `FoldLeft`
(`FoldRecursion`).

`KeyProofs` proves that reads of any sizes over blocks of any length are
given consecutive bytes, those of `randbelow` and `permutation` among them; the
invariant adds which byte comes next (`NextFollows`). Of `Draws` it proves
everything the run checks, for lists of any length and bytes of any width. `randbelow`
is unbiased (`WordsFor`): the words that mask to one value below n are as many as
those that mask to another, as the mask is a power of two that divides the number of
words, and `MaskFacts` has the mask below twice n, so that more than half
of the words are accepted. The shuffle is uniform (`ShuffleIsUniform`): a
draw settles one position for good (`DrawSettles`), so the list tells the draws from the first on
(`DrawsTold`), and every arrangement is reached by drawing at each step the element that belongs
there (`DrawsExist`); draws and arrangements are then in bijection (`ShufflesCount`). The invariant
`DrawInv` says that the running list is where the draws so far take it.

`LockCoreProofs` proves every property of lock and unlock for any features,
slots, feature lists, plans, one-slot encoder quirk, keys and number of locks, kills
and edits. What makes them hard is that one command makes the file and another undoes
it, with nothing but the manifest between them, so the invariant `Inv` speaks of the
files on the way as of a witness: `Backed` says of a lock under way that undoing the
layers made so far leads from the current file to the carrier, `Undone` what the
self-test has undone, `OnTheWay` what is left for an unlock. A layer is undone
by `RoundTrip`, and where the encoder stored something
else in mode `substitute` by the one repair (`OneRepair`, `LayerUndone`). `OnDisk` says
that a manifest whose tag covers it is one that was made with the carrier: the edit
changes the locked digest, and the digest is under the tag. From `Inv` follow
`ProvenIsNeverMismatch`, `ShippedIsNoCopy`, `SavedManifestVerifies` and
`SavedUnlocks`, which is `UnlockRestores`. An audio file goes through all layers in one pass:
`PassExists` reads the pass as a sequence of files, one after each layer, and
`AudioRoundTrip` undoes it from the last layer to the first. `RefusalLeavesNothing` needs
`OutUntouched` besides: until its last layer is applied, a lock has not touched the
output path. `CommandsAreTyped` is the type invariant; its hard part is that no command
ever reads a file that lost a slot. The layout check refuses one while locking; while
unlocking the encoder may drop a slot again, and does not because each file it is
to write is one of those the lock went through (`Readable`, `Retraced`).

`KeyProofs` also proves every property of `KeyResolution`, for all secrets, identities,
numbers of recipients, options and damages: what opens is what was issued
(`OpensAsIssued`), what locked a file, or any one recipient, opens it again
(`OptionsReopen`), page and command line open each other's locks (`PageAndLineAgree`), and
labels only order the tries (`LabelsAreHints`). Its invariant
keeps how the lock chose its key (`Chosen`), that damage touches only the recipients'
entries (`Arrived`) and how the unlock came to its outcome (`Decided`). `SealEntries`
and `OrderedTriesAll` say what the two folds over recipients and entries give: an
entry for everyone named, and every entry tried whatever its label.

`WebJobsProofs` proves, for any number of requests and visitors, that the digests of a
lock that passed its self-test belong together and that unlocking what was handed over
is exact. Neither is inductive, since a request reads in steps what others overwrite
meanwhile: the invariant adds that from its reading back on a lock finds its own
output or none (`TestedFileIsRead`), that it replies only after passing with the file
it read (`PassedWithIt`) and that the manifest an unlock holds is one that passed
(`HeldManifestPassed`). `StoreIsTyped` adds that every name holds what a counted request
made and that a removed directory stays empty; for that a sweep about to
remove it must have taken the upload (`Threads`), and a carrier is never a lock's (`Stored`).

`TransportProofs` proves every property of `Transport` that holds, for any programs, options,
groups, interleavings and stray packets, orders in which the pool's threads end, and any one
packet lost or repeated. What demux does is followed packet by packet (`Run`, a fold). A stream that
mux wrote is a sequence of parts, tables or none and then the packets of one unit, in the order of
`Arranged`, where every unit of every track has one place (`PlaceOfUnit`); read part by part,
a stream in order gives its units back (`ReceivedInOrder`); one whose times fall gives back times that
rise (`ReceivedRises`), and one that begins before its clock track lacks units (`ReceivedLate`). A packet lost or repeated
belongs to one part, so the parts before and after it are heard as they were (`TrackDamageHeard`),
or, where it was a table's, from the next tables on (`TableLossHeard`). Locking is a
matter of layout again: whole pictures, joined, fall into the same pictures (`WholeDelimiters`),
so groups, places and labels are the same at both ends (`SameGroups`), and so are audio frames
(`FramingSame`); each track is then undone by itself (`VideoBack`, `AudioBack`, `TrackBack`).
The invariant of the program has three parts: `Inv` says what each buffer holds while the carrier is
read, the last unit begun as far as its packets have come (`Reassembled`), from which
`DemuxReassembles` follows; `TypeInv` says above all what each place of the pool may hold (`Pooled`);
`Story` says at each place of the two commands what became of the carrier's units: what
was locked, what of it arrived, what is made of that, and for a failed unlock what was wrong
with it. From these follow `TypeOK`, `LockedKeepsUnits`, `ExactIffInOrder` in both
directions, and `DamageStaysLocal`.

`Mp2FramesProofs` proves every property of `Mp2Frames`, for any formats, allocation tables,
streams, layers, keystreams and sizes of chunk. The invariant `FramesInv` says that the reader is where
a search of what it was fed has come (`Reading`), and that the file is the carrier, or a carrier
that could be locked, locked (`Carried`). The reader searches pieces, `iter_units` the whole: a search
is determined by what it found (`ScanUnique`: junk between the starts, and a reason to stop), and what
a reader makes of its buffer continues what it made before (`Continues`), as a header is judged
by the cells of its own frame only (`StatusShifts`). From this follow `ReadsAsWhole` and `FramesAreTyped`.
Locking is a matter of layout: parsed, changed and written again, a frame
has its length and its first cells, up to the scfsi (`VariantWritten`), and the joined pieces lie
where the frames lay (`Transformed`), so a parser finds the same fields with shifted values
(`LocksLegally`). The verdict on a candidate that is no frame depends on the cells `Geometry` names;
where the lock left these alone the candidate is refused again (`RefusalStays`), so the
search of the locked file is that of the carrier (`SearchStays`), each frame is undone layer by layer
from the last, and the unlock gives the carrier back (`StreamUndone`, `MisframesOnlyByOverlap`).

The proofs rest on the named assumptions of the modules and on nothing else:
`LockCoreAssumption`, for one, says that slots, carriers and quirks are of the kind
their names say. `CarriersEncoded` says of the programs in `Transport` what an encoder makes: a unit
of video is one whole picture, as `_split_aus` takes for granted, and every audio frame has its body.
Without it a lock would write noise into a broken picture, where the model does not say
what the real bytes become. Units that arrive damaged are of every kind.

Every invariant and action property of a passing run is proved. Only model-checked: termination
of the pipeline and removal of jobs (liveness is outside the prover's reach).

## Not modelled, and why

HMAC, scrypt and X25519 (arithmetic that a model checker cannot reach: keys are
names and a tag is the pair of key and body); which slots a real codec's document
has (`walk.py`, the slot finders: a parameter here); probing, transcoding,
argument parsing and printing (I/O around modelled operations); `select_features`;
timing. The carrier and the output of a lock are never one path. Of the transport
stream: PCR, CRC and continuity counters, which the code writes and never reads;
units whose stream id is neither audio nor video, which `demux` leaves out; the
statistics that the pool's threads add up, which are only printed. Of MP2: bit
widths (a field is a cell), the checksum's arithmetic, `sniff` and `describe`, which
only read. Of the web server: a store of several jobs and the pause between sweeps,
downloads (they only read), two locks of one job at a time (the page never sends
them), static files and request bodies.

## Plan

In this order, the most important first:

1. *done* `Transform`, `LockCore`, `StreamPipeline` with their proofs as above,
   `SegmentReader`, `StreamSession`, `KeyStream`, `Draws`.
2. *done* `KeyResolution`, `WebJobs`.
3. *done* `Transport`, `Mp2Frames`, with their proofs.
4. `Manifest`: the tag over numbers that JSON may return as another type.
5. In-place locks in `LockCore`, and a store of several jobs with its cap and
   overlapping sweeps beside `WebJobs`.
