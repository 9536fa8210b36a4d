------------------------------- MODULE WebJobs -------------------------------
(***************************************************************************)
(* One job of the web server (web/server.py) and the page that uses it     *)
(* (web/static/index.html).                                                *)
(*                                                                         *)
(* A job is a directory of files with fixed names.  Requests run in        *)
(* threads of their own and read and write those files with no lock        *)
(* between them, while any POST, of this client or another, may sweep the  *)
(* job away.  The page disables each button while its own request runs, so *)
(* there is at most one prepare, one lock and one unlock at a time; a      *)
(* preview is fetched whenever the browser likes.  Downloads only read.    *)
(*                                                                         *)
(* What a file holds is named, not spelled out: a carrier by the number of *)
(* the transcode that made it, a locked file by its carrier and its lock.  *)
(* Torn is a file cut short or still being written, Scrap a whole file     *)
(* made from parts of two, equal to no other.  An ffedit or ffgac call     *)
(* may fail at any time and leaves what it had opened Torn.                *)
(***************************************************************************)
EXTENDS Naturals, FiniteSets

CONSTANTS MaxPrepares, MaxLocks, MaxUnlocks, MaxFetches,  \* bounds: requests by kind
          MaxRequests,  \* bound: requests in all
          Viewers,   \* threads that answer preview requests
          None

ASSUME WebJobsAssumption ==
    /\ MaxPrepares \in Nat /\ MaxLocks \in Nat /\ MaxUnlocks \in Nat
    /\ MaxFetches \in Nat /\ MaxRequests \in Nat

Videos == {"carrier", "locked", "restored"}
Names == Videos \cup {"manifest"}

Absent == [kind |-> "absent", of |-> 0, by |-> 0]
Torn == [kind |-> "torn", of |-> 0, by |-> 0]
Scrap == [kind |-> "scrap", of |-> 0, by |-> 0]
Carrier(v) == [kind |-> "carrier", of |-> v, by |-> 0]
Locked(v, n) == [kind |-> "locked", of |-> v, by |-> n]

VARIABLES dir,       \* the job's directory is "there" or "gone"
          idle,      \* the directory's mtime is more than RETENTION_S ago
          source,    \* the upload is there
          file,      \* what each name holds
          preview,   \* what <name>.preview.mp4 holds: what it was made from
          prepare, lock, unlock, viewer, sweeper,   \* the threads
          page,      \* what the page shows: a carrier, the last lock that passed
          exact,     \* the last verdict of an unlock
          made       \* requests made so far, by kind

vars == <<dir, idle, source, file, preview, prepare, lock, unlock, viewer,
          sweeper, page, exact, made>>

job == <<dir, idle, source, file, preview>>
replies == <<page, exact>>

NoLock == [pc |-> "idle", digest |-> Absent, exported |-> Absent,
           base |-> Absent, out |-> Absent]
NoUnlock == [pc |-> "idle", manifest |-> None, base |-> Absent]
NoSweep == [pc |-> "idle", files |-> {}, previews |-> {}]
NoViewer == [pc |-> "idle", name |-> "carrier", base |-> Absent]

\* The job as api_upload leaves it.
Init ==
    /\ dir = "there" /\ idle = FALSE /\ source = TRUE
    /\ file = [f \in Names |-> Absent]
    /\ preview = [f \in Videos |-> Absent]
    /\ prepare = "idle" /\ lock = NoLock /\ unlock = NoUnlock
    /\ viewer = [w \in Viewers |-> NoViewer]
    /\ sweeper = NoSweep
    /\ page = [carrier |-> FALSE, passed |-> None]
    /\ exact = None
    /\ made = [prepare |-> 0, lock |-> 0, unlock |-> 0, fetch |-> 0]

------------------------------------------------------------------------------
(* Files. *)

\* job_file and touch: the request is refused once the directory is gone.
Enter(kind) ==
    /\ dir # "gone"
    /\ made.prepare + made.lock + made.unlock + made.fetch < MaxRequests
    /\ idle' = FALSE
    /\ made' = [made EXCEPT ![kind] = @ + 1]

\* Mutant: a missing directory is made again.
CanOpenAnywhere(holds) == TRUE

\* Opening for writing truncates or creates; creating needs the directory
\* and renews its mtime.
CanOpen(holds) == holds # Absent \/ dir # "gone"

Opened(holds) == idle' = (idle /\ holds # Absent)

\* A writer that finishes fills the name, unless a sweep has unlinked it.
Finished(holds, content) == IF holds = Absent THEN Absent ELSE content

------------------------------------------------------------------------------
(* POST /api/prepare: transcode the upload into carrier.mpg. *)

PrepareStart ==
    /\ prepare = "idle" /\ made.prepare < MaxPrepares
    /\ Enter("prepare")
    /\ prepare' = "transcode"
    /\ UNCHANGED <<dir, source, file, preview, lock, unlock, viewer, sweeper, replies>>

PrepareOpen ==
    /\ prepare = "transcode"
    /\ source /\ CanOpen(file["carrier"])
    /\ file' = [file EXCEPT !["carrier"] = Torn]
    /\ Opened(file["carrier"])
    /\ prepare' = "write"
    /\ UNCHANGED <<dir, source, preview, lock, unlock, viewer, sweeper, replies, made>>

PrepareEnd ==
    /\ prepare = "write"
    /\ file' = [file EXCEPT !["carrier"] = Finished(@, Carrier(made.prepare))]
    /\ page' = [page EXCEPT !.carrier = @ \/ file["carrier"] # Absent]
    /\ prepare' = "idle"
    /\ UNCHANGED <<dir, idle, source, preview, lock, unlock, viewer, sweeper,
                   exact, made>>

PrepareFails ==
    /\ prepare # "idle"
    /\ prepare' = "idle"
    /\ UNCHANGED <<job, lock, unlock, viewer, sweeper, replies, made>>

------------------------------------------------------------------------------
(* POST /api/lock: lock() from carrier.mpg into locked.mpg.  Layers after  *)
(* the first read scratch files no one else has.                           *)

LockStart ==
    /\ lock.pc = "idle" /\ page.carrier /\ made.lock < MaxLocks
    /\ Enter("lock")
    /\ lock' = [NoLock EXCEPT !.pc = "digest"]
    /\ UNCHANGED <<dir, source, file, preview, prepare, unlock, viewer, sweeper, replies>>

LockDigest ==
    /\ lock.pc = "digest"
    /\ file["carrier"] # Absent
    /\ lock' = [lock EXCEPT !.pc = "export", !.digest = file["carrier"]]
    /\ UNCHANGED <<job, prepare, unlock, viewer, sweeper, replies, made>>

LockExport ==
    /\ lock.pc = "export"
    /\ file["carrier"] # Absent
    /\ lock' = [lock EXCEPT !.pc = "apply", !.exported = file["carrier"]]
    /\ UNCHANGED <<job, prepare, unlock, viewer, sweeper, replies, made>>

\* The encoder reads the carrier a second time and opens its output.
LockApply ==
    /\ lock.pc = "apply"
    /\ file["carrier"] # Absent /\ CanOpen(file["locked"])
    /\ file' = [file EXCEPT !["locked"] = Torn]
    /\ Opened(file["locked"])
    /\ lock' = [lock EXCEPT !.pc = "write", !.base = file["carrier"]]
    /\ UNCHANGED <<dir, source, preview, prepare, unlock, viewer, sweeper, replies, made>>

\* What comes of reading one file twice, the second time while it may be
\* overwritten (and then unlinked): mixed readings make Scrap.
Outcomes(first, second, now, good) ==
    IF first # second \/ first.kind \in {"torn", "scrap"} THEN {Scrap}
    ELSE IF now = second THEN {good} ELSE {good, Scrap}

LockWritten ==
    /\ lock.pc = "write"
    /\ \E content \in Outcomes(lock.exported, lock.base, file["carrier"],
                               Locked(lock.base.of, made.lock)) :
          file' = [file EXCEPT !["locked"] = Finished(@, content)]
    /\ lock' = [lock EXCEPT !.pc = "verify"]
    /\ UNCHANGED <<dir, idle, source, preview, prepare, unlock, viewer, sweeper,
                   replies, made>>

\* Read back and digested.
LockVerify ==
    /\ lock.pc = "verify"
    /\ file["locked"] # Absent
    /\ lock' = [lock EXCEPT !.pc = "selftest", !.out = file["locked"]]
    /\ UNCHANGED <<job, prepare, unlock, viewer, sweeper, replies, made>>

\* Unlocking: a file under the manifest that was made with it.
Restored(content, n) ==
    IF content.kind = "locked" /\ content.by = n THEN Carrier(content.of) ELSE Scrap

\* Mutant: the probe is compared with the carrier as it is now.
PassesAgainstFile == Restored(file["locked"], made.lock) = file["carrier"]

\* Mutant: the request's self-test is off by default.
PassesAlways == TRUE

SelfTestPasses == Restored(file["locked"], made.lock) = lock.digest

LockSelfTest ==
    /\ lock.pc = "selftest"
    /\ file["locked"] # Absent
    /\ IF SelfTestPasses
       THEN lock' = [lock EXCEPT !.pc = "reply"] /\ UNCHANGED <<idle, file>>
       ELSE /\ lock' = NoLock
            /\ file' = [file EXCEPT !["locked"] = Absent]
            /\ idle' = FALSE
    /\ UNCHANGED <<dir, source, preview, prepare, unlock, viewer, sweeper, replies, made>>

\* Settings that scramble nothing: the copy check removes the output.
LockIsCopy ==
    /\ lock.pc = "selftest"
    /\ file["locked"] # Absent
    /\ lock' = NoLock
    /\ file' = [file EXCEPT !["locked"] = Absent]
    /\ idle' = FALSE
    /\ UNCHANGED <<dir, source, preview, prepare, unlock, viewer, sweeper, replies, made>>

\* manifest.json is saved; the reply takes the output's size, so it is sent
\* only if the output is still there.
LockReply ==
    /\ lock.pc = "reply"
    /\ CanOpen(file["manifest"])
    /\ file' = [file EXCEPT !["manifest"] = lock.out]
    /\ Opened(file["manifest"])
    /\ page' = IF file["locked"] = Absent THEN page
               ELSE [page EXCEPT !.passed = [carrier |-> lock.digest,
                                             locked |-> lock.out, by |-> made.lock]]
    /\ lock' = NoLock
    /\ UNCHANGED <<dir, source, preview, prepare, unlock, viewer, sweeper,
                   exact, made>>

LockFails ==
    /\ lock.pc # "idle"
    /\ lock' = NoLock
    /\ UNCHANGED <<job, prepare, unlock, viewer, sweeper, replies, made>>

------------------------------------------------------------------------------
(* POST /api/unlock, with the manifest the page was handed. *)

UnlockStart ==
    /\ unlock.pc = "idle" /\ page.passed # None /\ made.unlock < MaxUnlocks
    /\ Enter("unlock")
    /\ unlock' = [NoUnlock EXCEPT !.pc = "open", !.manifest = page.passed]
    /\ UNCHANGED <<dir, source, file, preview, prepare, lock, viewer, sweeper, replies>>

UnlockOpen ==
    /\ unlock.pc = "open"
    /\ file["locked"] # Absent /\ CanOpen(file["restored"])
    /\ file' = [file EXCEPT !["restored"] = Torn]
    /\ Opened(file["restored"])
    /\ unlock' = [unlock EXCEPT !.pc = "write", !.base = file["locked"]]
    /\ UNCHANGED <<dir, source, preview, prepare, lock, viewer, sweeper, replies, made>>

\* The digest input check is off here: the verdict is that of the result.
UnlockEnd ==
    /\ unlock.pc = "write"
    /\ file["restored"] # Absent
    /\ \E content \in Outcomes(unlock.base, unlock.base, file["locked"],
                               Restored(unlock.base, unlock.manifest.by)) :
          /\ file' = [file EXCEPT !["restored"] = content]
          /\ exact' = [read |-> unlock.base, still |-> file["locked"],
                       manifest |-> unlock.manifest,
                       verdict |-> content = unlock.manifest.carrier]
    /\ unlock' = NoUnlock
    /\ UNCHANGED <<dir, idle, source, preview, prepare, lock, viewer, sweeper,
                   page, made>>

UnlockFails ==
    /\ unlock.pc # "idle"
    /\ unlock' = NoUnlock
    /\ UNCHANGED <<job, prepare, lock, viewer, sweeper, replies, made>>

------------------------------------------------------------------------------
(* GET /preview: made once, from then on served as it is. *)

PreviewStart(w) ==
    /\ viewer[w].pc = "idle" /\ made.fetch < MaxFetches
    /\ Enter("fetch")
    /\ \E f \in Videos :
          /\ file[f] # Absent
          /\ viewer' = [viewer EXCEPT ![w] =
                [NoViewer EXCEPT !.pc = IF preview[f] # Absent THEN "serve" ELSE "make",
                                 !.name = f]]
    /\ UNCHANGED <<dir, source, file, preview, prepare, lock, unlock, sweeper, replies>>

PreviewOpen(w) ==
    LET f == viewer[w].name IN
    /\ viewer[w].pc = "make"
    /\ file[f] # Absent /\ CanOpen(preview[f])
    /\ preview' = [preview EXCEPT ![f] = Torn]
    /\ Opened(preview[f])
    /\ viewer' = [viewer EXCEPT ![w].pc = "write", ![w].base = file[f]]
    /\ UNCHANGED <<dir, source, file, prepare, lock, unlock, sweeper, replies, made>>

PreviewWritten(w) ==
    LET f == viewer[w].name IN
    /\ viewer[w].pc = "write"
    /\ preview' = [preview EXCEPT ![f] = Finished(@, viewer[w].base)]
    /\ viewer' = [viewer EXCEPT ![w].pc = "serve"]
    /\ UNCHANGED <<dir, idle, source, file, prepare, lock, unlock, sweeper, replies, made>>

PreviewServed(w) ==
    LET f == viewer[w].name IN
    /\ viewer[w].pc = "serve"
    /\ preview[f] # Absent
    /\ viewer' = [viewer EXCEPT ![w] = NoViewer]
    /\ UNCHANGED <<job, prepare, lock, unlock, sweeper, replies, made>>

PreviewFails(w) ==
    /\ viewer[w].pc # "idle"
    /\ viewer' = [viewer EXCEPT ![w] = NoViewer]
    /\ UNCHANGED <<job, prepare, lock, unlock, sweeper, replies, made>>

------------------------------------------------------------------------------
(* The sweep that any POST may begin, and the clock.  rmtree lists the     *)
(* directory, unlinks what it listed, then removes the directory, which    *)
(* fails, unreported, if something was created after the listing.          *)

\* RETENTION_S goes by.
Expire ==
    /\ dir # "gone" /\ ~idle
    /\ idle' = TRUE
    /\ UNCHANGED <<dir, source, file, preview, prepare, lock, unlock, viewer,
                   sweeper, replies, made>>

SweepStat ==
    /\ sweeper.pc = "idle" /\ dir # "gone" /\ idle
    /\ sweeper' = [NoSweep EXCEPT !.pc = "list"]
    /\ UNCHANGED <<job, prepare, lock, unlock, viewer, replies, made>>

\* The store is over STORE_CAP and this job is among its oldest.
SweepOverCap ==
    /\ sweeper.pc = "idle" /\ dir # "gone"
    /\ sweeper' = [NoSweep EXCEPT !.pc = "list"]
    /\ UNCHANGED <<job, prepare, lock, unlock, viewer, replies, made>>

SweepList ==
    /\ sweeper.pc = "list"
    /\ sweeper' = [pc |-> "unlink",
                   files |-> {f \in Names : file[f] # Absent},
                   previews |-> {f \in Videos : preview[f] # Absent}]
    /\ UNCHANGED <<job, prepare, lock, unlock, viewer, replies, made>>

SweepUnlink ==
    /\ sweeper.pc = "unlink"
    /\ source' = FALSE
    /\ file' = [f \in Names |-> IF f \in sweeper.files THEN Absent ELSE file[f]]
    /\ preview' = [f \in Videos |-> IF f \in sweeper.previews THEN Absent ELSE preview[f]]
    /\ idle' = FALSE
    /\ sweeper' = [NoSweep EXCEPT !.pc = "rmdir"]
    /\ UNCHANGED <<dir, prepare, lock, unlock, viewer, replies, made>>

Empty ==
    /\ \A f \in Names : file[f] = Absent
    /\ \A f \in Videos : preview[f] = Absent

\* Mutant: the files go and the directory stays.
RemovedKeepsDirectory == dir

RemovedTo == IF Empty THEN "gone" ELSE dir

SweepRmdir ==
    /\ sweeper.pc = "rmdir"
    /\ dir' = RemovedTo
    /\ sweeper' = NoSweep
    /\ UNCHANGED <<idle, source, file, preview, prepare, lock, unlock, viewer,
                   replies, made>>

------------------------------------------------------------------------------
(* Every thread that has begun goes on: it takes its next step or fails. *)

PrepareStep == PrepareOpen \/ PrepareEnd \/ PrepareFails
LockStep == \/ LockDigest \/ LockExport \/ LockApply \/ LockWritten
            \/ LockVerify \/ LockSelfTest \/ LockIsCopy
            \/ LockReply \/ LockFails
UnlockStep == UnlockOpen \/ UnlockEnd \/ UnlockFails
PreviewStep(w) == PreviewOpen(w) \/ PreviewWritten(w) \/ PreviewServed(w) \/ PreviewFails(w)
SweepStep == SweepList \/ SweepUnlink \/ SweepRmdir

Next ==
    \/ PrepareStart \/ PrepareStep
    \/ LockStart \/ LockStep
    \/ UnlockStart \/ UnlockStep
    \/ \E w \in Viewers : PreviewStart(w) \/ PreviewStep(w)
    \/ Expire \/ SweepStat \/ SweepOverCap \/ SweepStep

Spec == Init /\ [][Next]_vars

\* The server's threads run and the hour goes by; nobody need ask for
\* anything.
ServerSpec ==
    /\ Spec
    /\ WF_vars(PrepareStep) /\ WF_vars(LockStep) /\ WF_vars(UnlockStep)
    /\ \A w \in Viewers : WF_vars(PreviewStep(w))
    /\ WF_vars(SweepStep) /\ WF_vars(Expire)

\* As above, on a server where POST requests keep coming.
VisitedSpec == ServerSpec /\ WF_vars(SweepStat)

------------------------------------------------------------------------------
(* Properties. *)

Content == {Absent, Torn, Scrap}
    \cup {Carrier(v) : v \in 1 .. MaxPrepares}
    \cup {Locked(v, n) : v \in 1 .. MaxPrepares, n \in 1 .. MaxLocks}

\* Values have their types, and a directory that is gone holds nothing.
TypeOK ==
    /\ dir \in {"there", "gone"} /\ idle \in BOOLEAN /\ source \in BOOLEAN
    /\ file \in [Names -> Content] /\ preview \in [Videos -> Content]
    /\ dir = "gone" => Empty /\ ~source
    /\ prepare \in {"idle", "transcode", "write"}
    /\ lock.pc \in {"idle", "digest", "export", "apply", "write", "verify",
                    "selftest", "reply"}
    /\ unlock.pc \in {"idle", "open", "write"}
    /\ \A w \in Viewers : viewer[w].pc \in {"idle", "make", "write", "serve"}
    /\ sweeper.pc \in {"idle", "list", "unlink", "rmdir"}

\* "Self-test passed - this file provably reverses": the pair of digests in
\* a manifest that passed belongs together, although the carrier may have
\* been transcoded anew, or swept, at any point of the lock.
PassedLockRestores ==
    page.passed # None =>
        Restored(page.passed.locked, page.passed.by) = page.passed.carrier

\* Sending the pair that passed to unlock gives back the carrier, byte for
\* byte, unless another lock has begun to overwrite the file meanwhile.
HandedOverIsExact ==
    /\ exact # None
    /\ exact.read = exact.manifest.locked
    /\ exact.still = exact.read
    => exact.verdict

\* With visitors, a job its page has left is removed for good, whatever
\* requests raced with the removals that failed.
AbandonedIsDeleted == <>[](dir = "gone")
==============================================================================
