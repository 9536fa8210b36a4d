---------------------------- MODULE WebJobsProofs ----------------------------
(***************************************************************************)
(* Proof that a lock whose self-test passed does restore its carrier, that  *)
(* unlocking it is exact, and that the store keeps its types, for any number *)
(* of requests and viewers.                                                 *)
(*                                                                         *)
(* Neither of the first two is inductive: what the page shows was read in several    *)
(* steps from files that others overwrite meanwhile.  The invariant says     *)
(* what one request may rely on between its steps.  Nobody but the lock      *)
(* itself writes locked.mpg, so from its reading back to its self-test the   *)
(* file is either what was read or swept away (TestedFileIsRead); a lock     *)
(* that is about to reply has passed with the file it read (PassedWithIt);   *)
(* and the manifest an unlock holds is one that passed (HeldManifestPassed). *)
(***************************************************************************)
EXTENDS WebJobs, TLAPS

Reverses(passed) == Restored(passed.locked, passed.by) = passed.carrier

TestedFileIsRead == lock.pc = "selftest" => file["locked"] \in {lock.out, Absent}

PassedWithIt == lock.pc = "reply" => Restored(lock.out, made.lock) = lock.digest

HeldManifestPassed == unlock.pc # "idle" => Reverses(unlock.manifest)

Shape ==
    /\ DOMAIN file = Names
    /\ lock = [pc |-> lock.pc, digest |-> lock.digest, exported |-> lock.exported,
               base |-> lock.base, out |-> lock.out]
    /\ unlock = [pc |-> unlock.pc, manifest |-> unlock.manifest, base |-> unlock.base]
    /\ made = [prepare |-> made.prepare, lock |-> made.lock,
               unlock |-> made.unlock, fetch |-> made.fetch]
    /\ page = [carrier |-> page.carrier, passed |-> page.passed]

Inv == /\ Shape
       /\ TestedFileIsRead
       /\ PassedWithIt
       /\ HeldManifestPassed
       /\ PassedLockRestores
       /\ HandedOverIsExact

LEMMA InitInv == Init => Inv
  BY DEF Init, Inv, Shape, TestedFileIsRead, PassedWithIt, HeldManifestPassed,
         PassedLockRestores, HandedOverIsExact, NoLock, NoUnlock

(* A step that touches none of what the invariant is about.                   *)
LEMMA Elsewhere ==
  ASSUME Inv, UNCHANGED <<lock, unlock, page, exact>>, made'.lock = made.lock,
         DOMAIN file' = Names, file'["locked"] \in {file["locked"], Absent},
         made' = [prepare |-> made'.prepare, lock |-> made'.lock,
                  unlock |-> made'.unlock, fetch |-> made'.fetch]
  PROVE  Inv'
  BY DEF Inv, Shape, TestedFileIsRead, PassedWithIt, HeldManifestPassed, Reverses,
         PassedLockRestores, HandedOverIsExact

(* A lock that gives up, or only begins.                                      *)
LEMMA LockGone ==
  ASSUME Inv, lock' \in {NoLock, [NoLock EXCEPT !.pc = "digest"]},
         DOMAIN file' = Names, UNCHANGED <<unlock, page, exact>>,
         made' = [prepare |-> made'.prepare, lock |-> made'.lock,
                  unlock |-> made'.unlock, fetch |-> made'.fetch]
  PROVE  Inv'
  BY DEF Inv, Shape, TestedFileIsRead, PassedWithIt, HeldManifestPassed, Reverses,
         PassedLockRestores, HandedOverIsExact, NoLock

LEMMA PrepareInv ==
  ASSUME Inv, PrepareStart \/ PrepareStep
  PROVE  Inv'
<1>1. Shape
  BY DEF Inv
<1>2. CASE PrepareStart
  BY <1>1, <1>2, Elsewhere DEF PrepareStart, Enter, replies, Shape
<1>3. CASE PrepareOpen
  BY <1>1, <1>3, Elsewhere DEF PrepareOpen, replies, Shape, Names, Videos
<1>4. CASE PrepareEnd
  <2>1. /\ page' = [carrier |-> page'.carrier, passed |-> page.passed]
        /\ DOMAIN file' = Names /\ file'["locked"] = file["locked"]
        /\ UNCHANGED <<lock, unlock, exact, made>>
    BY <1>1, <1>4 DEF PrepareEnd, Shape, Names, Videos
  <2> QED
    BY <2>1 DEF Inv, Shape, TestedFileIsRead, PassedWithIt, HeldManifestPassed, Reverses,
                PassedLockRestores, HandedOverIsExact
<1>5. CASE PrepareFails
  BY <1>1, <1>5, Elsewhere DEF PrepareFails, job, replies, Shape
<1> QED BY <1>2, <1>3, <1>4, <1>5 DEF PrepareStep

LEMMA LockInv ==
  ASSUME Inv, LockStart \/ LockStep
  PROVE  Inv'
<1>1. Shape /\ TestedFileIsRead /\ PassedWithIt /\ PassedLockRestores
  BY DEF Inv
<1>2. ASSUME lock'.pc \notin {"selftest", "reply"},
             lock' = [pc |-> lock'.pc, digest |-> lock'.digest, exported |-> lock'.exported,
                      base |-> lock'.base, out |-> lock'.out],
             DOMAIN file' = Names, UNCHANGED <<unlock, page, exact, made>>
      PROVE  Inv'
  BY <1>2 DEF Inv, Shape, TestedFileIsRead, PassedWithIt, HeldManifestPassed, Reverses,
              PassedLockRestores, HandedOverIsExact
<1>3. CASE LockStart
  BY <1>1, <1>3, LockGone DEF LockStart, Enter, replies, Shape
<1>4. CASE LockDigest \/ LockExport
  BY <1>1, <1>2, <1>4 DEF LockDigest, LockExport, job, replies, Shape
<1>5. CASE LockApply
  BY <1>1, <1>2, <1>5 DEF LockApply, replies, Shape
<1>6. CASE LockWritten
  BY <1>1, <1>2, <1>6 DEF LockWritten, replies, Shape
<1>7. CASE LockVerify
  <2>1. /\ lock'.pc = "selftest" /\ lock'.out = file["locked"]
        /\ lock' = [pc |-> lock'.pc, digest |-> lock'.digest, exported |-> lock'.exported,
                    base |-> lock'.base, out |-> lock'.out]
        /\ UNCHANGED <<file, unlock, page, exact, made>>
    BY <1>1, <1>7 DEF LockVerify, job, replies, Shape
  <2> QED
    BY <2>1 DEF Inv, Shape, TestedFileIsRead, PassedWithIt, HeldManifestPassed, Reverses,
                PassedLockRestores, HandedOverIsExact
<1>8. CASE LockSelfTest
  <2>1. CASE SelfTestPasses
    <3>1. file["locked"] = lock.out
      BY <1>1, <1>8 DEF LockSelfTest, TestedFileIsRead
    <3>2. Restored(lock.out, made.lock) = lock.digest
      BY <2>1, <3>1 DEF SelfTestPasses
    <3>3. /\ lock'.pc = "reply" /\ lock'.out = lock.out /\ lock'.digest = lock.digest
          /\ lock' = [pc |-> lock'.pc, digest |-> lock'.digest, exported |-> lock'.exported,
                      base |-> lock'.base, out |-> lock'.out]
          /\ UNCHANGED <<file, unlock, page, exact, made>>
      BY <1>1, <1>8, <2>1 DEF LockSelfTest, replies, Shape
    <3> QED
      BY <3>2, <3>3 DEF Inv, Shape, TestedFileIsRead, PassedWithIt, HeldManifestPassed,
                        Reverses, PassedLockRestores, HandedOverIsExact
  <2>2. CASE ~SelfTestPasses
    BY <1>1, <1>8, <2>2, LockGone DEF LockSelfTest, replies, Shape
  <2> QED BY <2>1, <2>2
<1>9. CASE LockIsCopy
  BY <1>1, <1>9, LockGone DEF LockIsCopy, replies, Shape
<1>10. CASE LockReply
  <2>1. /\ lock' = NoLock /\ DOMAIN file' = Names /\ UNCHANGED <<unlock, exact, made>>
    BY <1>1, <1>10 DEF LockReply, Shape
  <2>2. page' = page \/ page' = [carrier |-> page.carrier,
            passed |-> [carrier |-> lock.digest, locked |-> lock.out, by |-> made.lock]]
    BY <1>1, <1>10 DEF LockReply, Shape
  <2>3. Restored(lock.out, made.lock) = lock.digest
    BY <1>1, <1>10 DEF LockReply, PassedWithIt
  <2>4. PassedLockRestores' /\ page' = [carrier |-> page'.carrier, passed |-> page'.passed]
    BY <1>1, <2>2, <2>3 DEF PassedLockRestores, Restored, Scrap, Carrier, Shape
  <2> QED
    BY <2>1, <2>4 DEF Inv, Shape, TestedFileIsRead, PassedWithIt, HeldManifestPassed,
                      Reverses, HandedOverIsExact, NoLock
<1>11. CASE LockFails
  BY <1>1, <1>11, LockGone DEF LockFails, job, replies, Shape
<1> QED BY <1>3, <1>4, <1>5, <1>6, <1>7, <1>8, <1>9, <1>10, <1>11 DEF LockStep

LEMMA UnlockInv ==
  ASSUME Inv, UnlockStart \/ UnlockStep
  PROVE  Inv'
<1>1. Shape /\ HeldManifestPassed /\ PassedLockRestores
  BY DEF Inv
<1>2. ASSUME UNCHANGED <<lock, page>>, made'.lock = made.lock,
             DOMAIN file' = Names, file'["locked"] = file["locked"],
             made' = [prepare |-> made'.prepare, lock |-> made'.lock,
                      unlock |-> made'.unlock, fetch |-> made'.fetch],
             unlock' = [pc |-> unlock'.pc, manifest |-> unlock'.manifest,
                        base |-> unlock'.base],
             HeldManifestPassed', HandedOverIsExact'
      PROVE  Inv'
  BY <1>2 DEF Inv, Shape, TestedFileIsRead, PassedWithIt, PassedLockRestores
<1>3. CASE UnlockStart
  <2>1. unlock'.manifest = page.passed /\ page.passed # None /\ UNCHANGED <<exact>>
    BY <1>3 DEF UnlockStart, NoUnlock, replies
  <2>2. HeldManifestPassed' /\ HandedOverIsExact'
    BY <1>1, <2>1 DEF HeldManifestPassed, Reverses, PassedLockRestores, HandedOverIsExact, Inv
  <2>3. /\ made' = [prepare |-> made'.prepare, lock |-> made'.lock,
                    unlock |-> made'.unlock, fetch |-> made'.fetch]
        /\ made'.lock = made.lock
        /\ unlock' = [pc |-> unlock'.pc, manifest |-> unlock'.manifest,
                      base |-> unlock'.base]
        /\ UNCHANGED <<lock, page, file>>
    BY <1>1, <1>3 DEF UnlockStart, Enter, NoUnlock, Shape, replies
  <2> QED BY <1>1, <1>2, <2>2, <2>3 DEF Shape
<1>4. CASE UnlockOpen
  <2>1. /\ unlock' = [pc |-> "write", manifest |-> unlock.manifest, base |-> unlock'.base]
        /\ DOMAIN file' = Names /\ file'["locked"] = file["locked"]
        /\ UNCHANGED <<lock, page, exact, made>>
    <3>1. /\ unlock' = [unlock EXCEPT !.pc = "write", !.base = file["locked"]]
          /\ file' = [file EXCEPT !["restored"] = Torn]
          /\ UNCHANGED <<lock, page, exact, made>>
      BY <1>4 DEF UnlockOpen, replies
    <3>2. unlock' = [pc |-> "write", manifest |-> unlock.manifest, base |-> file["locked"]]
      BY <1>1, <3>1 DEF Shape
    <3>3. unlock'.base = file["locked"]
      BY <3>2
    <3>4. DOMAIN file' = Names /\ file'["locked"] = file["locked"]
      BY <1>1, <3>1 DEF Shape
    <3> QED BY <3>1, <3>2, <3>3, <3>4
  <2>2. HeldManifestPassed'
    BY <1>1, <1>4, <2>1 DEF UnlockOpen, HeldManifestPassed, Reverses
  <2>3. HandedOverIsExact'
    BY <2>1 DEF HandedOverIsExact, Inv
  <2> QED BY <1>1, <1>2, <2>1, <2>2, <2>3 DEF Shape
<1>5. CASE UnlockEnd
  <2>1. Restored(unlock.manifest.locked, unlock.manifest.by) = unlock.manifest.carrier
    BY <1>1, <1>5 DEF UnlockEnd, HeldManifestPassed, Reverses
  <2>2. PICK content \in Outcomes(unlock.base, unlock.base, file["locked"],
                                  Restored(unlock.base, unlock.manifest.by)) :
           exact' = [read |-> unlock.base, still |-> file["locked"],
                     manifest |-> unlock.manifest,
                     verdict |-> content = unlock.manifest.carrier]
    BY <1>5 DEF UnlockEnd
  <2>3. ASSUME unlock.base = unlock.manifest.locked, file["locked"] = unlock.base
        PROVE  content = Restored(unlock.base, unlock.manifest.by)
    <3>1. CASE unlock.base.kind \in {"torn", "scrap"}
      BY <2>2, <3>1 DEF Outcomes, Restored
    <3>2. CASE unlock.base.kind \notin {"torn", "scrap"}
      BY <2>2, <2>3, <3>2 DEF Outcomes
    <3> QED BY <3>1, <3>2
  <2>4. HandedOverIsExact'
    BY <2>1, <2>2, <2>3 DEF HandedOverIsExact
  <2>5. /\ unlock' = NoUnlock /\ UNCHANGED <<lock, page, made>>
        /\ DOMAIN file' = Names /\ file'["locked"] = file["locked"]
    BY <1>1, <1>5 DEF UnlockEnd, Shape
  <2> QED BY <1>1, <1>2, <2>4, <2>5 DEF Shape, NoUnlock, HeldManifestPassed
<1>6. CASE UnlockFails
  <2>1. unlock' = NoUnlock /\ UNCHANGED <<lock, page, made, file, exact>>
    BY <1>6 DEF UnlockFails, job, replies
  <2>2. HeldManifestPassed' /\ HandedOverIsExact'
    BY <2>1 DEF HeldManifestPassed, HandedOverIsExact, Inv, NoUnlock
  <2> QED BY <1>1, <1>2, <2>1, <2>2 DEF Shape, NoUnlock
<1> QED BY <1>3, <1>4, <1>5, <1>6 DEF UnlockStep

LEMMA ViewInv ==
  ASSUME Inv, NEW w \in Viewers, PreviewStart(w) \/ PreviewStep(w)
  PROVE  Inv'
<1>1. Shape
  BY DEF Inv
<1>2. CASE PreviewStart(w)
  BY <1>1, <1>2, Elsewhere DEF PreviewStart, Enter, replies, Shape
<1>3. CASE PreviewStep(w)
  BY <1>1, <1>3, Elsewhere DEF PreviewStep, PreviewOpen, PreviewWritten, PreviewServed,
                               PreviewFails, job, replies, Shape
<1> QED BY <1>2, <1>3

LEMMA SweepInv ==
  ASSUME Inv, Expire \/ SweepStat \/ SweepOverCap \/ SweepStep
  PROVE  Inv'
<1>1. Shape
  BY DEF Inv
<1>2. CASE Expire \/ SweepStat \/ SweepOverCap \/ SweepList \/ SweepRmdir
  BY <1>1, <1>2, Elsewhere
  DEF Expire, SweepStat, SweepOverCap, SweepList, SweepRmdir, job, replies, Shape
<1>3. CASE SweepUnlink
  BY <1>1, <1>3, Elsewhere DEF SweepUnlink, replies, Shape, Names, Videos
<1> QED BY <1>2, <1>3 DEF SweepStep

LEMMA NextInv == Inv /\ [Next]_vars => Inv'
<1> SUFFICES ASSUME Inv, [Next]_vars PROVE Inv'
  OBVIOUS
<1>1. CASE UNCHANGED vars
  BY <1>1, Elsewhere DEF vars, Inv, Shape
<1> QED BY <1>1, PrepareInv, LockInv, UnlockInv, ViewInv, SweepInv DEF Next

LEMMA SpecInv == Spec => []Inv
  BY InitInv, NextInv, PTL DEF Spec

(* However transcodes, sweeps and previews overlap a lock, the digests in a    *)
(* manifest that passed its self-test belong together (api_lock, core.lock).   *)
THEOREM PassedRestores == Spec => []PassedLockRestores
<1>1. Inv => PassedLockRestores
  BY DEF Inv
<1> QED BY <1>1, SpecInv, PTL

(* Unlocking what was handed over gives back its carrier, unless a lock is     *)
(* overwriting it meanwhile (api_unlock).                                      *)
THEOREM HandedOverExact == Spec => []HandedOverIsExact
<1>1. Inv => HandedOverIsExact
  BY DEF Inv
<1> QED BY <1>1, SpecInv, PTL
-----------------------------------------------------------------------------
(* Types.  Whatever is whole in a name was made by a request that was counted, *)
(* the carrier never by a lock; and a directory is removed when empty.        *)
Sources == {Absent, Torn} \cup {Carrier(v) : v \in 1 .. MaxPrepares}

LockPlaces == {"idle", "digest", "export", "apply", "write", "verify", "selftest", "reply"}

Counted ==
    /\ made = [prepare |-> made.prepare, lock |-> made.lock,
               unlock |-> made.unlock, fetch |-> made.fetch]
    /\ made.prepare \in 0 .. MaxPrepares /\ made.lock \in 0 .. MaxLocks
    /\ prepare # "idle" => made.prepare >= 1
    /\ lock.pc # "idle" => made.lock >= 1

Stored ==
    /\ dir \in {"there", "gone"} /\ idle \in BOOLEAN /\ source \in BOOLEAN
    /\ file \in [Names -> Content] /\ preview \in [Videos -> Content]
    /\ file["carrier"] \in Sources
    /\ dir = "gone" => Empty /\ ~source

Threads ==
    /\ prepare \in {"idle", "transcode", "write"}
    /\ lock \in [pc : LockPlaces, digest : Content, exported : Content, base : Sources,
                 out : Content]
    /\ lock.pc = "write" => lock.base # Absent
    /\ unlock.pc \in {"idle", "open", "write"} /\ unlock.base \in Content
    /\ unlock = [pc |-> unlock.pc, manifest |-> unlock.manifest, base |-> unlock.base]
    /\ viewer \in [Viewers -> [pc : {"idle", "make", "write", "serve"}, name : Videos,
                               base : Content]]
    /\ sweeper.pc \in {"idle", "list", "unlink", "rmdir"}
    /\ sweeper.pc = "rmdir" => ~source

TypeInv == Counted /\ Stored /\ Threads

LEMMA Contents ==
  /\ Absent \in Content /\ Torn \in Content /\ Scrap \in Content
  /\ Sources \subseteq Content /\ Absent \in Sources /\ Torn \in Sources
  /\ \A v \in 1 .. MaxPrepares : Carrier(v) \in Sources
  /\ \A c \in Content : \A n : Restored(c, n) \in Content
<1>1. /\ Absent \in Content /\ Torn \in Content /\ Scrap \in Content
      /\ Sources \subseteq Content /\ Absent \in Sources /\ Torn \in Sources
      /\ \A v \in 1 .. MaxPrepares : Carrier(v) \in Sources
  BY DEF Content, Sources
<1>2. ASSUME NEW c \in Content, NEW n PROVE Restored(c, n) \in Content
  <2>1. CASE c.kind = "locked"
    <3>1. PICK v \in 1 .. MaxPrepares, l \in 1 .. MaxLocks : c = Locked(v, l)
      BY <2>1 DEF Content, Absent, Torn, Scrap, Carrier
    <3>2. c.of = v
      BY <3>1 DEF Locked
    <3> QED BY <1>1, <3>2 DEF Restored
  <2>2. CASE c.kind # "locked"
    BY <1>1, <2>2 DEF Restored
  <2> QED BY <2>1, <2>2
<1> QED BY <1>1, <1>2

\* A lock writes a locked file of a carrier that was read, or one of parts.
LEMMA WrittenContent ==
  ASSUME NEW first, NEW base \in Sources, base # Absent, NEW now, NEW n \in 1 .. MaxLocks,
         NEW content \in Outcomes(first, base, now, Locked(base.of, n))
  PROVE  content \in Content
<1>1. CASE first # base \/ first.kind \in {"torn", "scrap"}
  BY <1>1, Contents DEF Outcomes
<1>2. CASE first = base /\ first.kind \notin {"torn", "scrap"}
  <2>1. PICK v \in 1 .. MaxPrepares : base = Carrier(v)
    BY <1>2 DEF Sources, Torn
  <2>2. Locked(base.of, n) \in Content
    <3>1. base.of = v
      BY <2>1 DEF Carrier
    <3> QED BY <3>1 DEF Content
  <2> QED BY <1>2, <2>2, Contents DEF Outcomes
<1> QED BY <1>1, <1>2

LEMMA TypeInit == Init => TypeInv
<1> SUFFICES ASSUME Init PROVE TypeInv
  OBVIOUS
<1>1. Counted
  BY WebJobsAssumption DEF Init, Counted, NoLock
<1>2. Stored
  <2>1. "carrier" \in Names /\ dir = "there"
    BY DEF Init, Names, Videos
  <2> QED BY <2>1, Contents DEF Init, Stored
<1>3. Threads
  BY Contents DEF Init, Threads, NoLock, NoUnlock, NoViewer, NoSweep, LockPlaces, Videos
<1> QED BY <1>1, <1>2, <1>3 DEF TypeInv

\* A write to a name that is there, or in a directory that is.
LEMMA FileWritten ==
  ASSUME Stored, NEW f \in Names, NEW content \in Content,
         f = "carrier" => content \in Sources,
         file' = [file EXCEPT ![f] = content],
         dir = "gone" => file[f] # Absent \/ content = Absent,
         idle' \in BOOLEAN, UNCHANGED <<dir, source, preview>>
  PROVE  Stored'
<1>1. file' \in [Names -> Content]
  BY DEF Stored
<1>2. file'["carrier"] \in Sources
  BY DEF Stored, Names, Videos
<1>3. dir' = "gone" => Empty' /\ ~source'
  BY DEF Stored, Empty
<1> QED BY <1>1, <1>2, <1>3 DEF Stored

LEMMA StoredSame ==
  ASSUME Stored, idle' \in BOOLEAN, UNCHANGED <<dir, source, file, preview>>
  PROVE  Stored'
  BY DEF Stored, Empty

LEMMA TypePrepare == TypeInv /\ (PrepareStart \/ PrepareStep) => TypeInv'
<1> SUFFICES ASSUME TypeInv, PrepareStart \/ PrepareStep PROVE TypeInv'
  OBVIOUS
<1>0. Counted /\ Stored /\ Threads
  BY DEF TypeInv
<1>1. UNCHANGED <<lock, unlock, viewer, sweeper, source>> /\ prepare' \in {"idle", "transcode", "write"}
  BY DEF PrepareStart, PrepareStep, PrepareOpen, PrepareEnd, PrepareFails, job
<1>2. Threads'
  BY <1>0, <1>1 DEF Threads
<1>3. CASE PrepareStart
  <2>1. Counted'
    <3>1. made' = [made EXCEPT !["prepare"] = @ + 1] /\ made.prepare < MaxPrepares
      BY <1>3 DEF PrepareStart, Enter
    <3>2. made' = [prepare |-> made.prepare + 1, lock |-> made.lock,
                   unlock |-> made.unlock, fetch |-> made.fetch]
      BY <1>0, <3>1 DEF Counted
    <3>3. made.prepare + 1 \in 1 .. MaxPrepares
      BY <1>0, <3>1, WebJobsAssumption DEF Counted
    <3> QED BY <1>0, <1>1, <3>2, <3>3, WebJobsAssumption DEF Counted
  <2>2. Stored'
    BY <1>0, <1>3, StoredSame DEF PrepareStart, Enter
  <2> QED BY <1>2, <2>1, <2>2 DEF TypeInv
<1>4. CASE PrepareOpen
  <2>1. Counted'
    BY <1>0, <1>4 DEF PrepareOpen, Counted
  <2>2. "carrier" \in Names /\ Torn \in Content /\ Torn \in Sources
    BY Contents DEF Names, Videos
  <2>3. /\ file' = [file EXCEPT !["carrier"] = Torn] /\ UNCHANGED <<dir, source, preview>>
        /\ dir = "gone" => file["carrier"] # Absent
    BY <1>4 DEF PrepareOpen, CanOpen
  <2>4. idle' \in BOOLEAN
    BY <1>0, <1>4 DEF PrepareOpen, Opened, Stored
  <2>5. Stored'
    BY <1>0, <2>2, <2>3, <2>4, FileWritten
  <2> QED BY <1>2, <2>1, <2>5 DEF TypeInv
<1>5. CASE PrepareEnd
  <2> DEFINE content == Finished(file["carrier"], Carrier(made.prepare))
  <2>1. Counted'
    BY <1>0, <1>5 DEF PrepareEnd, Counted
  <2>2. made.prepare \in 1 .. MaxPrepares
    BY <1>0, <1>5 DEF PrepareEnd, Counted
  <2>3. content \in Sources /\ content \in Content
    BY <2>2, Contents DEF Finished
  <2>4. file' = [file EXCEPT !["carrier"] = content] /\ UNCHANGED <<dir, source, preview, idle>>
    BY <1>5 DEF PrepareEnd
  <2>5. "carrier" \in Names /\ idle' \in BOOLEAN
    BY <1>0, <2>4 DEF Names, Videos, Stored
  <2>6. file["carrier"] # Absent \/ content = Absent
    BY DEF Finished
  <2> HIDE DEF content
  <2>7. Stored'
    BY <1>0, <2>3, <2>4, <2>5, <2>6, FileWritten
  <2> QED BY <1>2, <2>1, <2>7 DEF TypeInv
<1>6. CASE PrepareFails
  <2>1. Counted'
    BY <1>0, <1>6 DEF PrepareFails, Counted
  <2>2. Stored'
    BY <1>0, <1>6, StoredSame DEF PrepareFails, job, Stored
  <2> QED BY <1>2, <2>1, <2>2 DEF TypeInv
<1> QED BY <1>3, <1>4, <1>5, <1>6 DEF PrepareStep

\* A lock that only reads, begins or ends.
LEMMA LockTyped ==
  ASSUME TypeInv, UNCHANGED <<prepare, unlock, viewer, sweeper, source, made>>, Stored',
         lock' \in [pc : LockPlaces, digest : Content, exported : Content, base : Sources,
                    out : Content],
         lock'.pc = "write" => lock'.base # Absent,
         lock'.pc # "idle" => lock.pc # "idle"
  PROVE  TypeInv'
<1>1. Counted'
  BY DEF TypeInv, Counted
<1>2. Threads'
  BY DEF TypeInv, Threads
<1> QED BY <1>1, <1>2 DEF TypeInv

LEMMA TypeLock == TypeInv /\ (LockStart \/ LockStep) => TypeInv'
<1> SUFFICES ASSUME TypeInv, LockStart \/ LockStep PROVE TypeInv'
  OBVIOUS
<1> DEFINE Locks == [pc : LockPlaces, digest : Content, exported : Content, base : Sources,
                     out : Content]
<1>0. /\ Counted /\ Stored /\ Threads /\ lock \in Locks /\ "locked" \in Names
      /\ "manifest" \in Names /\ "locked" # "carrier" /\ "manifest" # "carrier"
  BY DEF TypeInv, Threads, Names, Videos
<1>1. /\ NoLock \in Locks /\ NoLock.pc = "idle"
      /\ file \in [Names -> Content] /\ file["carrier"] \in Sources
      /\ file["carrier"] \in Content /\ file["locked"] \in Content
      /\ Absent \in Content /\ Torn \in Content /\ idle \in BOOLEAN
  BY <1>0, Contents DEF NoLock, LockPlaces, Stored
<1>2. CASE LockStart
  <2>1. /\ lock' = [pc |-> "digest", digest |-> Absent, exported |-> Absent,
                    base |-> Absent, out |-> Absent]
        /\ UNCHANGED <<prepare, unlock, viewer, sweeper, source>>
    BY <1>2 DEF LockStart, NoLock, replies
  <2>2. Threads'
    BY <1>0, <2>1, Contents DEF Threads, LockPlaces
  <2>3. Counted'
    <3>1. made' = [made EXCEPT !["lock"] = @ + 1] /\ made.lock < MaxLocks
      BY <1>2 DEF LockStart, Enter
    <3>2. made' = [prepare |-> made.prepare, lock |-> made.lock + 1,
                   unlock |-> made.unlock, fetch |-> made.fetch]
      BY <1>0, <3>1 DEF Counted
    <3>3. made.lock + 1 \in 1 .. MaxLocks
      BY <1>0, <3>1, WebJobsAssumption DEF Counted
    <3> QED BY <1>0, <2>1, <3>2, <3>3, WebJobsAssumption DEF Counted
  <2>4. Stored'
    BY <1>0, <1>2, StoredSame DEF LockStart, Enter
  <2> QED BY <2>2, <2>3, <2>4 DEF TypeInv
<1>3. CASE LockDigest \/ LockExport \/ LockVerify
  <2>1. Stored'
    BY <1>1, <1>3, <1>0, StoredSame DEF LockDigest, LockExport, LockVerify, job
  <2>2. lock' \in Locks /\ lock'.pc # "write" /\ lock.pc # "idle"
    BY <1>0, <1>1, <1>3 DEF LockDigest, LockExport, LockVerify, LockPlaces
  <2>3. UNCHANGED <<prepare, unlock, viewer, sweeper, source, made>>
    BY <1>3 DEF LockDigest, LockExport, LockVerify, job
  <2> QED BY <2>1, <2>2, <2>3, LockTyped
<1>4. CASE LockApply
  <2>1. lock' \in Locks /\ lock'.base # Absent /\ lock.pc # "idle"
    BY <1>0, <1>1, <1>4 DEF LockApply, LockPlaces
  <2>2. /\ file' = [file EXCEPT !["locked"] = Torn] /\ UNCHANGED <<dir, source, preview>>
        /\ dir = "gone" => file["locked"] # Absent
    BY <1>4 DEF LockApply, CanOpen
  <2>3. idle' \in BOOLEAN
    BY <1>1, <1>4 DEF LockApply, Opened
  <2>4. Stored'
    BY <1>0, <1>1, <2>2, <2>3, FileWritten
  <2>5. UNCHANGED <<prepare, unlock, viewer, sweeper, source, made>>
    BY <1>4 DEF LockApply
  <2> QED BY <2>1, <2>4, <2>5, LockTyped
<1>5. CASE LockWritten
  <2>1. PICK content \in Outcomes(lock.exported, lock.base, file["carrier"],
                                  Locked(lock.base.of, made.lock)) :
           file' = [file EXCEPT !["locked"] = Finished(@, content)]
    BY <1>5 DEF LockWritten
  <2>2. lock.base \in Sources /\ lock.base # Absent /\ made.lock \in 1 .. MaxLocks
    BY <1>0, <1>5 DEF LockWritten, Threads, Counted
  <2>3. content \in Content
    BY <2>2, WrittenContent
  <2> DEFINE result == Finished(file["locked"], content)
  <2>4. result \in Content /\ (file["locked"] # Absent \/ result = Absent)
    BY <1>1, <2>3 DEF Finished
  <2>5. file' = [file EXCEPT !["locked"] = result]
    BY <2>1
  <2> HIDE DEF result
  <2>6. lock' \in Locks /\ lock'.pc # "write" /\ lock.pc # "idle"
    BY <1>0, <1>5 DEF LockWritten, LockPlaces
  <2>7. UNCHANGED <<dir, idle, preview, prepare, unlock, viewer, sweeper, source, made>>
    BY <1>5 DEF LockWritten
  <2>8. Stored'
    BY <1>0, <1>1, <2>4, <2>5, <2>7, FileWritten
  <2> QED BY <2>6, <2>7, <2>8, LockTyped
<1>6. CASE LockSelfTest \/ LockIsCopy
  <2>1. UNCHANGED <<dir, preview, prepare, unlock, viewer, sweeper, source, made>>
    BY <1>6 DEF LockSelfTest, LockIsCopy
  <2>2. lock.pc # "idle" /\ lock' \in Locks /\ lock'.pc # "write"
    BY <1>0, <1>1, <1>6 DEF LockSelfTest, LockIsCopy, LockPlaces
  <2>3. /\ idle' \in BOOLEAN
        /\ UNCHANGED file \/ file' = [file EXCEPT !["locked"] = Absent]
    BY <1>1, <1>6 DEF LockSelfTest, LockIsCopy
  <2>4. Stored'
    BY <1>0, <1>1, <2>1, <2>3, FileWritten, StoredSame
  <2> QED BY <2>1, <2>2, <2>4, LockTyped
<1>7. CASE LockReply
  <2>1. /\ file' = [file EXCEPT !["manifest"] = lock.out] /\ lock' = NoLock
        /\ UNCHANGED <<dir, source, preview, prepare, unlock, viewer, sweeper, made>>
        /\ dir = "gone" => file["manifest"] # Absent
    BY <1>7 DEF LockReply, CanOpen
  <2>2. lock.out \in Content /\ idle' \in BOOLEAN
    BY <1>0, <1>1, <1>7 DEF LockReply, Opened
  <2>3. Stored'
    BY <1>0, <2>1, <2>2, FileWritten
  <2> QED BY <1>1, <2>1, <2>3, LockTyped
<1>8. CASE LockFails
  <2>1. lock' = NoLock /\ Stored' /\ UNCHANGED <<prepare, unlock, viewer, sweeper, source, made>>
    BY <1>0, <1>1, <1>8, StoredSame DEF LockFails, job
  <2> QED BY <1>1, <2>1, LockTyped
<1> QED BY <1>2, <1>3, <1>4, <1>5, <1>6, <1>7, <1>8 DEF LockStep

LEMMA UnlockTyped ==
  ASSUME TypeInv, UNCHANGED <<prepare, lock, viewer, sweeper, source>>, Stored',
         made' = [prepare |-> made.prepare, lock |-> made.lock,
                  unlock |-> made'.unlock, fetch |-> made'.fetch],
         unlock'.pc \in {"idle", "open", "write"}, unlock'.base \in Content,
         unlock' = [pc |-> unlock'.pc, manifest |-> unlock'.manifest, base |-> unlock'.base]
  PROVE  TypeInv'
<1>1. Counted'
  BY DEF TypeInv, Counted
<1>2. Threads'
  BY DEF TypeInv, Threads
<1> QED BY <1>1, <1>2 DEF TypeInv

LEMMA TypeUnlock == TypeInv /\ (UnlockStart \/ UnlockStep) => TypeInv'
<1> SUFFICES ASSUME TypeInv, UnlockStart \/ UnlockStep PROVE TypeInv'
  OBVIOUS
<1>0. /\ Counted /\ Stored /\ Threads /\ "restored" \in Names /\ "restored" # "carrier"
      /\ file["locked"] \in Content /\ idle \in BOOLEAN /\ Absent \in Content /\ Torn \in Content
  BY Contents DEF TypeInv, Names, Videos, Stored
<1>1. UNCHANGED <<prepare, lock, viewer, sweeper, source, dir, preview>>
  BY DEF UnlockStart, UnlockStep, UnlockOpen, UnlockEnd, UnlockFails, job
<1>2. /\ made' = [prepare |-> made.prepare, lock |-> made.lock,
                  unlock |-> made'.unlock, fetch |-> made'.fetch]
  <2>1. made' = made \/ made' = [made EXCEPT !["unlock"] = @ + 1]
    BY DEF UnlockStart, UnlockStep, UnlockOpen, UnlockEnd, UnlockFails, Enter
  <2> QED BY <1>0, <2>1 DEF Counted
<1>3. /\ unlock'.pc \in {"idle", "open", "write"} /\ unlock'.base \in Content
      /\ unlock' = [pc |-> unlock'.pc, manifest |-> unlock'.manifest, base |-> unlock'.base]
  <2>1. CASE UnlockStart
    BY <1>0, <2>1 DEF UnlockStart, NoUnlock
  <2>2. CASE UnlockOpen
    <3>1. unlock' = [pc |-> "write", manifest |-> unlock.manifest, base |-> file["locked"]]
      BY <1>0, <2>2 DEF UnlockOpen, Threads
    <3> QED BY <1>0, <3>1
  <2>3. CASE UnlockEnd \/ UnlockFails
    BY <1>0, <2>3 DEF UnlockEnd, UnlockFails, NoUnlock
  <2> QED BY <2>1, <2>2, <2>3 DEF UnlockStep
<1>4. CASE UnlockStart \/ UnlockFails
  <2>1. idle' \in BOOLEAN /\ UNCHANGED file
    BY <1>0, <1>4 DEF UnlockStart, UnlockFails, Enter, job
  <2>2. Stored'
    BY <1>0, <1>1, <2>1, StoredSame
  <2> QED BY <1>1, <1>2, <1>3, <2>2, UnlockTyped
<1>5. CASE UnlockOpen
  <2>1. /\ file' = [file EXCEPT !["restored"] = Torn]
        /\ dir = "gone" => file["restored"] # Absent
    BY <1>5 DEF UnlockOpen, CanOpen
  <2>2. idle' \in BOOLEAN
    BY <1>0, <1>5 DEF UnlockOpen, Opened
  <2>3. Stored'
    BY <1>0, <1>1, <2>1, <2>2, FileWritten
  <2> QED BY <1>1, <1>2, <1>3, <2>3, UnlockTyped
<1>6. CASE UnlockEnd
  <2>1. PICK content \in Outcomes(unlock.base, unlock.base, file["locked"],
                                  Restored(unlock.base, unlock.manifest.by)) :
          file' = [file EXCEPT !["restored"] = content]
    BY <1>6 DEF UnlockEnd
  <2>2. Restored(unlock.base, unlock.manifest.by) \in Content
    BY <1>0, Contents DEF Threads
  <2>3. content \in Content
    BY <2>2, Contents DEF Outcomes
  <2>4. file["restored"] # Absent /\ idle' = idle
    BY <1>6 DEF UnlockEnd
  <2>5. Stored'
    BY <1>0, <1>1, <2>1, <2>3, <2>4, FileWritten
  <2> QED BY <1>1, <1>2, <1>3, <2>5, UnlockTyped
<1> QED BY <1>4, <1>5, <1>6 DEF UnlockStep

LEMMA TypeView ==
  ASSUME TypeInv, NEW w \in Viewers, PreviewStart(w) \/ PreviewStep(w)
  PROVE  TypeInv'
<1> DEFINE Views == [pc : {"idle", "make", "write", "serve"}, name : Videos, base : Content]
<1>0. /\ Counted /\ Stored /\ Threads /\ viewer \in [Viewers -> Views] /\ viewer[w] \in Views
      /\ NoViewer \in Views /\ idle \in BOOLEAN
      /\ file \in [Names -> Content] /\ preview \in [Videos -> Content]
      /\ Absent \in Content /\ Torn \in Content /\ Videos \subseteq Names
  BY Contents DEF TypeInv, Threads, NoViewer, Videos, Names, Stored
<1>1. UNCHANGED <<prepare, lock, unlock, sweeper, source, dir, file>>
  BY DEF PreviewStart, PreviewStep, PreviewOpen, PreviewWritten, PreviewServed, PreviewFails, job
<1>2. made' = [prepare |-> made.prepare, lock |-> made.lock,
               unlock |-> made'.unlock, fetch |-> made'.fetch]
  <2>1. made' = made \/ made' = [made EXCEPT !["fetch"] = @ + 1]
    BY DEF PreviewStart, PreviewStep, PreviewOpen, PreviewWritten, PreviewServed, PreviewFails,
           Enter
  <2> QED BY <1>0, <2>1 DEF Counted
<1>3. Counted'
  BY <1>0, <1>1, <1>2 DEF Counted
<1>4. ASSUME viewer' \in [Viewers -> Views], Stored' PROVE TypeInv'
  <2>1. Threads'
    BY <1>0, <1>1, <1>4 DEF Threads
  <2> QED BY <1>3, <1>4, <2>1 DEF TypeInv
<1>5. ASSUME NEW f \in Videos, NEW content \in Content, preview' = [preview EXCEPT ![f] = content],
             dir = "gone" => preview[f] # Absent \/ content = Absent, idle' \in BOOLEAN
      PROVE  Stored'
  <2>1. preview' \in [Videos -> Content]
    BY <1>0, <1>5
  <2>2. dir' = "gone" => Empty' /\ ~source'
    BY <1>0, <1>1, <1>5 DEF Stored, Empty
  <2> QED BY <1>0, <1>1, <1>5, <2>1, <2>2 DEF Stored
<1>6. ASSUME idle' \in BOOLEAN, UNCHANGED preview PROVE Stored'
  BY <1>0, <1>1, <1>6, StoredSame
<1>7. CASE PreviewStart(w)
  <2>1. Stored'
    BY <1>6, <1>7 DEF PreviewStart, Enter
  <2>2. viewer' \in [Viewers -> Views]
    <3>1. PICK f \in Videos : viewer' = [viewer EXCEPT ![w] =
              [NoViewer EXCEPT !.pc = IF preview[f] # Absent THEN "serve" ELSE "make", !.name = f]]
      BY <1>7 DEF PreviewStart
    <3> DEFINE begun == [NoViewer EXCEPT !.pc = IF preview[f] # Absent THEN "serve" ELSE "make",
                                         !.name = f]
    <3>2. begun \in Views
      <4>1. NoViewer \in Views
        BY <1>0
      <4> QED BY ONLY <4>1, f \in Videos
    <3>3. viewer' = [viewer EXCEPT ![w] = begun]
      BY <3>1
    <3> HIDE DEF begun, Views
    <3> QED BY <1>0, <3>2, <3>3
  <2> QED BY <1>4, <2>1, <2>2
<1>8. CASE PreviewOpen(w)
  <2> DEFINE f == viewer[w].name
  <2>1. /\ f \in Videos /\ preview' = [preview EXCEPT ![f] = Torn]
        /\ dir = "gone" => preview[f] # Absent
    BY <1>0, <1>8 DEF PreviewOpen, CanOpen
  <2>2. idle' \in BOOLEAN
    BY <1>0, <1>8 DEF PreviewOpen, Opened
  <2>3. viewer' = [viewer EXCEPT ![w].pc = "write", ![w].base = file[f]] /\ file[f] \in Content
    BY <1>0, <1>8, <2>1 DEF PreviewOpen
  <2> HIDE DEF f
  <2>4. viewer' \in [Viewers -> Views]
    BY <1>0, <2>3
  <2>5. Stored'
    BY <1>0, <1>5, <2>1, <2>2
  <2> QED BY <1>4, <2>4, <2>5
<1>9. CASE PreviewWritten(w)
  <2> DEFINE f == viewer[w].name
             content == Finished(preview[f], viewer[w].base)
  <2>1. f \in Videos /\ preview' = [preview EXCEPT ![f] = content] /\ idle' = idle
    BY <1>0, <1>9 DEF PreviewWritten
  <2>2. content \in Content /\ (preview[f] # Absent \/ content = Absent)
    BY <1>0 DEF Finished
  <2>3. viewer' \in [Viewers -> Views]
    <3>1. viewer' = [viewer EXCEPT ![w].pc = "serve"]
      BY <1>9 DEF PreviewWritten
    <3> DEFINE served == [viewer[w] EXCEPT !.pc = "serve"]
    <3>2. served \in Views
      BY <1>0
    <3>3. viewer' = [viewer EXCEPT ![w] = served]
      BY <1>0, <3>1
    <3> HIDE DEF served, Views
    <3> QED BY <1>0, <3>2, <3>3
  <2> HIDE DEF f, content
  <2>4. Stored'
    BY <1>0, <1>5, <2>1, <2>2
  <2> QED BY <1>4, <2>3, <2>4
<1>10. CASE PreviewServed(w) \/ PreviewFails(w)
  <2>1. idle' \in BOOLEAN /\ UNCHANGED preview /\ viewer' = [viewer EXCEPT ![w] = NoViewer]
    BY <1>0, <1>10 DEF PreviewServed, PreviewFails, job
  <2>2. viewer' \in [Viewers -> Views]
    BY <1>0, <2>1
  <2> QED BY <1>4, <1>6, <2>1, <2>2
<1> QED BY <1>7, <1>8, <1>9, <1>10 DEF PreviewStep

LEMMA TypeSweep ==
  TypeInv /\ (Expire \/ SweepStat \/ SweepOverCap \/ SweepStep \/ UNCHANGED vars) => TypeInv'
<1> SUFFICES ASSUME TypeInv, Expire \/ SweepStat \/ SweepOverCap \/ SweepStep \/ UNCHANGED vars
             PROVE  TypeInv'
  OBVIOUS
<1>0. Counted /\ Stored /\ Threads
  BY DEF TypeInv
<1>1. UNCHANGED <<prepare, lock, unlock, viewer, made>>
  BY DEF Expire, SweepStat, SweepOverCap, SweepStep, SweepList, SweepUnlink, SweepRmdir, vars
<1>2. Counted'
  BY <1>0, <1>1 DEF Counted
<1>3. ASSUME sweeper'.pc \in {"idle", "list", "unlink", "rmdir"},
             sweeper'.pc = "rmdir" => ~source', Stored'
      PROVE  TypeInv'
  <2>1. Threads'
    BY <1>0, <1>1, <1>3 DEF Threads
  <2> QED BY <1>2, <1>3, <2>1 DEF TypeInv
<1>4. CASE Expire \/ SweepStat \/ SweepOverCap \/ SweepList \/ UNCHANGED vars
  <2>1. idle' \in BOOLEAN /\ UNCHANGED <<dir, source, file, preview>>
    BY <1>0, <1>4 DEF Expire, SweepStat, SweepOverCap, SweepList, job, vars, Stored
  <2>2. /\ sweeper'.pc \in {"idle", "list", "unlink", "rmdir"}
        /\ sweeper'.pc = "rmdir" => ~source'
    BY <1>0, <1>4 DEF Expire, SweepStat, SweepOverCap, SweepList, NoSweep, Threads, vars
  <2> QED BY <1>0, <1>3, <2>1, <2>2, StoredSame
<1>5. CASE SweepUnlink
  <2>1. /\ file' = [f \in Names |-> IF f \in sweeper.files THEN Absent ELSE file[f]]
        /\ preview' = [f \in Videos |-> IF f \in sweeper.previews THEN Absent ELSE preview[f]]
        /\ source' = FALSE /\ idle' = FALSE /\ dir' = dir /\ sweeper'.pc = "rmdir"
    BY <1>5 DEF SweepUnlink, NoSweep
  <2>2. file' \in [Names -> Content] /\ preview' \in [Videos -> Content]
    BY <1>0, <2>1, Contents DEF Stored
  <2>3. file'["carrier"] \in Sources
    BY <1>0, <2>1, Contents DEF Stored, Names, Videos
  <2>4. dir' = "gone" => Empty'
    BY <1>0, <2>1 DEF Stored, Empty
  <2>5. Stored'
    BY <1>0, <2>1, <2>2, <2>3, <2>4 DEF Stored
  <2> QED BY <1>3, <2>1, <2>5
<1>6. CASE SweepRmdir
  <2>1. /\ dir' = IF Empty THEN "gone" ELSE dir
        /\ UNCHANGED <<idle, source, file, preview>> /\ sweeper'.pc = "idle" /\ ~source
    BY <1>0, <1>6 DEF SweepRmdir, RemovedTo, NoSweep, Threads
  <2>2. Empty' = Empty
    BY <2>1 DEF Empty
  <2>3. Stored'
    BY <1>0, <2>1, <2>2 DEF Stored
  <2> QED BY <1>3, <2>1, <2>3
<1> QED BY <1>4, <1>5, <1>6 DEF SweepStep

\* Every name holds what some request made, and a directory that is gone holds
\* nothing: no request that was under way when it went can write into it.
THEOREM StoreIsTyped == Spec => []TypeOK
<1>1. Init => TypeInv
  BY TypeInit
<1>2. TypeInv /\ [Next]_vars => TypeInv'
  BY TypePrepare, TypeLock, TypeUnlock, TypeView, TypeSweep DEF Next
<1>3. TypeInv => TypeOK
  BY DEF TypeInv, Stored, Threads, TypeOK, LockPlaces
<1> QED BY <1>1, <1>2, <1>3, PTL DEF Spec
=============================================================================
