------------------------------ MODULE LockCore ------------------------------
(***************************************************************************)
(* Locking and unlocking one file (src/glitchlock/core.py), as cmd_lock and  *)
(* cmd_unlock of src/glitchlock/cli.py drive it, with the manifest's tag     *)
(* (src/glitchlock/manifest.py).                                            *)
(*                                                                         *)
(* A file is what its features' slots hold: a function from features to     *)
(* value sequences.  A digest is the file itself.  A nonce is the family of  *)
(* plans it produces under the key of the lock.  FFedit is modelled by what  *)
(* core.py sees of it: it may fail at any call, and its encoder stores one   *)
(* value of one slot as another (trap), or drops a slot over it.            *)
(***************************************************************************)
EXTENDS Transform

CONSTANTS Features,     \* the feature names
          Slots,        \* Slots[f]: the domains of the slots of feature f
          Carriers,     \* the plaintext files considered
          Traps,        \* encoder quirks [feature, slot, wrote, reads]
          Orders,       \* the feature lists a lock may be asked for
          Requests,     \* the options of a lock: [mode, dense, selftest, allowNoop]
          Again,        \* bound: the <<request, order>> a file may be locked anew with
          Kinds,        \* subset of {"video", "audio"}
          Keys,
          MaxLocks,     \* bound: lock commands of those in a behaviour
          MayCrash,     \* whether the process may be killed
          None, Torn, Reshape

ASSUME LockCoreAssumption ==
    /\ \A f \in Features : Slots[f] \in Seq(Domain)
    /\ \A c \in Carriers : /\ c = [f \in Features |-> c[f]]
                          /\ \A f \in Features : c[f] \in [DOMAIN Slots[f] -> Int]
    /\ \A o \in Orders : o \in Seq(Features) /\ o # <<>>
    /\ \A t \in Traps : /\ t.feature \in Features /\ t.slot \in DOMAIN Slots[t.feature]
                       /\ t.reads \in Int \cup {Reshape} /\ t.reads # t.wrote
    /\ Kinds \subseteq {"video", "audio"} /\ MaxLocks \in Nat /\ MayCrash \in BOOLEAN

VARIABLES kind, carrier, trap,  \* the input file and the encoder, fixed
          disk,      \* [out, manifest, restored]: the files the commands write
          pc, job,   \* the running command, and the output path as it found it
          work,      \* its locals: the layer, the file it reads, snapshots
          manifest,  \* the manifest it holds in memory
          locks,     \* lock commands begun, MaxLocks after one not in Again
          edited,    \* the manifest on disk was edited without the key
          last       \* how the last command ended: [op, exit, why]

vars == <<kind, carrier, trap, disk, pc, job, work, manifest, locks, edited, last>>

-----------------------------------------------------------------------------
(* The encoder and the audio writer.                                        *)

\* Applying the values a file already holds reproduces them: see Init.
Stored(f, vals) ==
    IF trap = None \/ kind = "audio" THEN vals
    ELSE IF trap.feature # f \/ vals[trap.slot] # trap.wrote THEN vals
    ELSE IF trap.reads = Reshape THEN SubSeq(vals, 1, Len(vals) - 1)
    ELSE [vals EXCEPT ![trap.slot] = trap.reads]

Encode(file, f, vals) == [file EXCEPT ![f] = Stored(f, vals)]

SameLayout(a, b) == DOMAIN a = DOMAIN b

TransformLayer(f, plan, forward, vals) ==
    IF forward THEN ApplyForward(Slots[f], plan, vals)
               ELSE ApplyBackward(Slots[f], plan, vals)

-----------------------------------------------------------------------------
(* The manifest.  Its tag covers every field but the tag itself.             *)

NewManifest(req, order, plans) ==
    [nonce |-> plans, request |-> req, order |-> order, layers |-> <<>>,
     kdf |-> "none", carrier |-> carrier, locked |-> None, selftest |-> "not-run",
     mac |-> None]

\* Mutant: the digest of the locked file is left out of what the tag covers.
BodyWithoutDigest(m) == [m EXCEPT !.mac = None, !.locked = None]

Body(m) == [m EXCEPT !.mac = None]

Sign(m, key) == [m EXCEPT !.mac = [key |-> key, body |-> Body(m)]]

Verify(m, key) == m.mac = [key |-> key, body |-> Body(m)]

\* Mutant: the manifest is not signed again after the derivation record is set.
SealOnce(m, key) == [Sign(m, key) EXCEPT !.kdf = "key-file-sha256"]

\* lock() signs what it built; cmd_lock adds the key derivation record and
\* signs again.
Seal(m, key) == Sign([Sign(m, key) EXCEPT !.kdf = "key-file-sha256"], key)

-----------------------------------------------------------------------------
Idle == [layer |-> 0, current |-> None, intended |-> None]

Done(op, exit, why) ==
    /\ pc' = "idle"
    /\ last' = [op |-> op, exit |-> exit, why |-> why]
    /\ job' = None /\ work' = Idle /\ manifest' = None

Init ==
    /\ kind \in Kinds /\ carrier \in Carriers
    /\ trap \in {None} \cup {t \in Traps : /\ kind = "video"
                                           /\ carrier[t.feature][t.slot] # t.wrote}
    /\ disk = [out |-> None, manifest |-> None, restored |-> None]
    /\ pc = "idle" /\ job = None /\ work = Idle /\ manifest = None
    /\ locks = 0 /\ edited = FALSE
    /\ last = [op |-> "none", exit |-> 0, why |-> "ok"]

PlanFamilies(req, order) ==
    LET fs == {order[i] : i \in DOMAIN order}
        Choices(f) == Plans(Slots[f], req.mode, req.dense)
    IN  {p \in [fs -> UNION {Choices(f) : f \in fs}] : \A f \in fs : p[f] \in Choices(f)}

LockStart(key, req, order) ==
    /\ pc = "idle" /\ locks < MaxLocks /\ (locks = 0 \/ <<req, order>> \in Again)
    /\ \E plans \in PlanFamilies(req, order) : manifest' = NewManifest(req, order, plans)
    /\ job' = [op |-> "lock", key |-> key, before |-> disk.out]
    /\ work' = [Idle EXCEPT !.layer = 1, !.current = carrier]
    /\ pc' = IF kind = "audio" THEN "audio" ELSE "transform"
    /\ locks' = IF <<req, order>> \in Again THEN locks + 1 ELSE MaxLocks
    /\ UNCHANGED <<kind, carrier, trap, disk, edited, last>>

Feature == manifest.order[work.layer]
\* Mutant: the loop goes one layer too far.
IsLastLate == work.layer > Len(manifest.order)

IsLast == work.layer = Len(manifest.order)

\* Mutant: every layer is written straight to the output path.
WritesOutputAlways == TRUE

\* Only the last layer goes to the output path, the others to a scratch file.
WritesOutput == IsLast

\* Export, guard and transform: nothing is on disk yet when the guard refuses.
LockTransform ==
    /\ pc = "transform"
    /\ LET vals == work.current[Feature]
       IN \/ /\ AllInDomain(Slots[Feature], vals)
             /\ work' = [work EXCEPT !.intended =
                    TransformLayer(Feature, manifest.nonce[Feature], TRUE, vals)]
             /\ pc' = "apply"
             /\ UNCHANGED <<job, manifest, last>>
          \/ /\ ~AllInDomain(Slots[Feature], vals)
             /\ Done("lock", 1, "domain")
          \/ Done("lock", 1, "ffedit")
    /\ UNCHANGED <<kind, carrier, trap, disk, locks, edited>>

\* A failing FFedit may leave a torn file there, or none of its own.
LockApply ==
    /\ pc = "apply"
    /\ \/ /\ disk' = IF WritesOutput
                     THEN [disk EXCEPT !.out = Encode(work.current, Feature, work.intended)]
                     ELSE disk
          /\ pc' = "verify"
          /\ UNCHANGED <<job, work, manifest, last>>
       \/ /\ disk' \in {disk} \cup (IF WritesOutput THEN {[disk EXCEPT !.out = Torn]} ELSE {})
          /\ Done("lock", 1, "ffedit")
    /\ UNCHANGED <<kind, carrier, trap, locks, edited>>

\* Read the ciphertext back: refuse a changed layout, record the repairs.
LockVerify ==
    /\ pc = "verify"
    /\ LET next   == Encode(work.current, Feature, work.intended)
           before == work.current[Feature]
       IN \/ /\ SameLayout(next[Feature], work.intended)
             /\ manifest' = [manifest EXCEPT !.layers = Append(@,
                    [feature |-> Feature,
                     repairs |-> FindRepairs(next[Feature], work.intended, before)])]
             /\ work' = [layer |-> work.layer + 1, current |-> next, intended |-> None]
             /\ pc' = IF IsLast THEN "digest" ELSE "transform"
             /\ UNCHANGED <<job, last>>
          \/ ~SameLayout(next[Feature], work.intended) /\ Done("lock", 1, "geometry")
          \/ Done("lock", 1, "ffedit")
    /\ UNCHANGED <<kind, carrier, trap, disk, locks, edited>>

-----------------------------------------------------------------------------
(* The audio path: every layer in one pass, no repairs, no reading back.     *)

\* result[i] is the file after the first i layers, or None once a value was
\* found outside its range.
AudioPass(file, order, plans, forward) ==
    LET n == Len(order)
        feature(i) == IF forward THEN order[i] ELSE order[n + 1 - i]
        result[i \in 0 .. n] ==
            IF i = 0 THEN file
            ELSE IF result[i - 1] = None THEN None
            ELSE LET f == feature(i)
                     vals == result[i - 1][f]
                 IN  IF forward /\ ~AllInDomain(Slots[f], vals) THEN None
                     ELSE [result[i - 1] EXCEPT ![f] =
                               TransformLayer(f, plans[f], forward, vals)]
    IN  result[n]

LockAudio ==
    /\ pc = "audio"
    /\ LET out == AudioPass(carrier, manifest.order, manifest.nonce, TRUE)
       IN \/ out = None /\ Done("lock", 1, "domain") /\ disk' = disk
          \/ /\ out # None
             /\ disk' = [disk EXCEPT !.out = out]
             /\ manifest' = [manifest EXCEPT !.layers =
                    [i \in DOMAIN manifest.order |->
                        [feature |-> manifest.order[i], repairs |-> <<>>]]]
             /\ pc' = "digest"
             /\ UNCHANGED <<job, work, last>>
    /\ UNCHANGED <<kind, carrier, trap, locks, edited>>

-----------------------------------------------------------------------------
(* After the layers: the copy check, the self-test, the tag, the save.       *)

Discarded == [disk EXCEPT !.out = None]

\* Mutant: the copy check is not made.
IsCopyUnchecked(m) == FALSE

IsCopy(m) == m.locked = m.carrier

LockDigest ==
    /\ pc = "digest"
    /\ LET m == [manifest EXCEPT !.locked = disk.out]
       IN \/ /\ ~m.request.allowNoop /\ IsCopy(m)
             /\ disk' = Discarded
             /\ Done("lock", 1, "noop")
          \/ /\ m.request.allowNoop \/ ~IsCopy(m)
             /\ manifest' = m
             /\ pc' = IF m.request.selftest THEN "unlock" ELSE "sign"
             /\ work' = [Idle EXCEPT !.layer = Len(m.layers), !.current = disk.out]
             /\ UNCHANGED <<disk, job, last>>
    /\ UNCHANGED <<kind, carrier, trap, locks, edited>>

SelfTestVerdict ==
    /\ pc = "verdict"
    /\ \/ /\ work.current = manifest.carrier
          /\ manifest' = [manifest EXCEPT !.selftest = "pass"]
          /\ pc' = "sign"
          /\ UNCHANGED <<disk, job, work, last>>
       \/ /\ work.current # manifest.carrier
          /\ disk' = Discarded
          /\ Done("lock", 1, "selftest")
    /\ UNCHANGED <<kind, carrier, trap, locks, edited>>

\* Opening the manifest truncates it; the text follows.
SignAndOpen ==
    /\ pc = "sign"
    /\ manifest' = Seal(manifest, job.key)
    /\ disk' = [disk EXCEPT !.manifest = Torn]
    /\ edited' = FALSE
    /\ pc' = "save"
    /\ UNCHANGED <<kind, carrier, trap, job, work, locks, last>>

SaveManifest ==
    /\ pc = "save"
    /\ disk' = [disk EXCEPT !.manifest = manifest]
    /\ Done("lock", 0, "ok")
    /\ UNCHANGED <<kind, carrier, trap, locks, edited>>

-----------------------------------------------------------------------------
(* Unlocking: the command, and the probe the self-test makes of it.          *)

\* cmd_unlock: load, check the tag, then unlock() checks the digest.  The first
\* three refusals happen before anything is written.
UnlockStart(key) ==
    /\ pc = "idle" /\ disk.out # None /\ disk.manifest # None
    /\ LET m == disk.manifest
       IN \/ m = Torn /\ Done("unlock", 1, "manifest")
          \/ m # Torn /\ ~Verify(m, key) /\ Done("unlock", 2, "mac")
          \/ m # Torn /\ Verify(m, key) /\ disk.out # m.locked /\ Done("unlock", 1, "digest")
          \/ /\ m # Torn /\ Verify(m, key) /\ disk.out = m.locked
             /\ manifest' = m
             /\ job' = [op |-> "unlock", key |-> key]
             /\ work' = [Idle EXCEPT !.layer = Len(m.layers), !.current = disk.out]
             /\ pc' = "unlock"
             /\ UNCHANGED last
    /\ UNCHANGED <<kind, carrier, trap, disk, locks, edited>>

Probing == job.op = "lock"

\* One layer undone, its repairs forced in afterwards.
UndoLayer(file, layer, plans) ==
    LET f == layer.feature
        vals == TransformLayer(f, plans[f], FALSE, file[f])
    IN  Encode(file, f, ApplyRepairs(vals, layer.repairs))

UnlockVideoLayer ==
    /\ pc = "unlock" /\ kind = "video"
    /\ LET next == UndoLayer(work.current, manifest.layers[work.layer], manifest.nonce)
           final == work.layer = 1
       IN \/ /\ work' = [work EXCEPT !.layer = @ - 1, !.current = next]
             /\ pc' = IF ~final THEN "unlock" ELSE IF Probing THEN "verdict" ELSE "integrity"
             /\ disk' = IF final /\ ~Probing THEN [disk EXCEPT !.restored = next] ELSE disk
             /\ UNCHANGED <<job, manifest, last>>
          \/ /\ Done(job.op, 1, "ffedit")
             /\ disk' \in {disk} \cup (IF final /\ ~Probing
                                       THEN {[disk EXCEPT !.restored = Torn]} ELSE {})
    /\ UNCHANGED <<kind, carrier, trap, locks, edited>>

UnlockAudio ==
    /\ pc = "unlock" /\ kind = "audio"
    /\ LET next == AudioPass(work.current, manifest.order, manifest.nonce, FALSE)
       IN /\ work' = [work EXCEPT !.layer = 0, !.current = next]
          /\ disk' = IF Probing THEN disk ELSE [disk EXCEPT !.restored = next]
    /\ pc' = IF Probing THEN "verdict" ELSE "integrity"
    /\ UNCHANGED <<kind, carrier, trap, job, manifest, locks, edited, last>>

\* cmd_unlock compares the restored file with the carrier's digest.
UnlockIntegrity ==
    /\ pc = "integrity"
    /\ \/ disk.restored = manifest.carrier /\ Done("unlock", 0, "ok")
       \/ disk.restored # manifest.carrier /\ Done("unlock", 3, "mismatch")
    /\ UNCHANGED <<kind, carrier, trap, disk, locks, edited>>

-----------------------------------------------------------------------------
\* The process is killed.  A file being written is left torn, or as it was.
Crash ==
    /\ MayCrash /\ pc # "idle"
    /\ disk' \in {disk}
              \cup (IF pc = "audio" \/ (pc = "apply" /\ WritesOutput)
                    THEN {[disk EXCEPT !.out = Torn]} ELSE {})
              \cup (IF pc = "unlock" /\ ~Probing
                    THEN {[disk EXCEPT !.restored = Torn]} ELSE {})
    /\ Done(job.op, 137, "killed")
    /\ UNCHANGED <<kind, carrier, trap, locks, edited>>

\* Someone without the key makes the manifest name the file found beside it (a
\* whole one: a torn one would be refused by FFedit at the latest).
EditManifest ==
    /\ MayCrash /\ pc = "idle" /\ ~edited
    /\ disk.manifest \notin {None, Torn} /\ disk.out \notin {None, Torn}
    /\ disk.manifest.locked # disk.out
    /\ disk' = [disk EXCEPT !.manifest.locked = disk.out]
    /\ edited' = TRUE
    /\ UNCHANGED <<kind, carrier, trap, pc, job, work, manifest, locks, last>>

Lock == \/ \E k \in Keys, r \in Requests, o \in Orders : LockStart(k, r, o)
        \/ LockTransform \/ LockApply \/ LockVerify \/ LockAudio
        \/ LockDigest \/ SelfTestVerdict \/ SignAndOpen \/ SaveManifest

Unlock == \/ \E k \in Keys : UnlockStart(k)
          \/ UnlockVideoLayer \/ UnlockAudio \/ UnlockIntegrity

Next == Lock \/ Unlock \/ Crash \/ EditManifest

Spec == Init /\ [][Next]_vars

-----------------------------------------------------------------------------
(* Properties.                                                              *)

FileType(c) == \A f \in Features : c[f] \in Seq(Int)

\* Every variable holds a value the program can put there.
TypeOK ==
    /\ kind \in Kinds /\ carrier \in Carriers /\ trap \in Traps \cup {None}
    /\ locks \in 0 .. MaxLocks /\ edited \in BOOLEAN
    /\ pc \in {"idle", "transform", "apply", "verify", "audio", "digest", "unlock",
               "verdict", "sign", "save", "integrity"}
    /\ pc = "idle" => job = None /\ manifest = None
    /\ \A file \in {disk.out, disk.restored} : file \in {None, Torn} \/ FileType(file)
    /\ pc # "idle" =>
          /\ job.op \in {"lock", "unlock"}
          /\ Len(manifest.layers) <= Len(manifest.order)
          /\ manifest.selftest \in {"not-run", "pass"}
    /\ pc \in {"transform", "apply", "verify"} => work.layer \in DOMAIN manifest.order
    /\ pc = "unlock" => work.layer \in DOMAIN manifest.layers
    /\ last.exit \in {0, 1, 2, 3, 137}

\* Unlocking an output whose manifest was saved gives back the carrier byte for
\* byte, whether or not the self-test ran: with an encoder that stores what it
\* is given, or one that may drop a slot instead, for every mode, intensity, list
\* of features (one of them twice, too) and plan (core.lock, its layout check,
\* core.unlock); in mode "substitute" also with one that stores a slot as another
\* value, by the repairs (find_repairs, apply_repairs).
UnlockRestores ==
    /\ pc = "integrity"
    /\ trap = None \/ trap.reads = Reshape \/ manifest.request.mode = "substitute"
    => disk.restored = carrier

\* A manifest that says the self-test passed is never followed by an integrity
\* mismatch: after any relock, kill or edit of the manifest, either a check
\* refuses the pair or the restored file is the carrier (cmd_unlock).
ProvenNeverMismatch ==
    pc = "integrity" /\ manifest.selftest = "pass" => disk.restored = carrier

\* Unless a copy was asked for, no manifest ever vouches for an output that is
\* the plaintext (the copy check of core.lock).
ShippedIsScrambled ==
    disk.manifest \notin {None, Torn} /\ ~edited =>
        \/ disk.manifest.request.allowNoop
        \/ disk.manifest.locked # carrier

\* A lock refused for a value outside its domain, at whichever layer, leaves the
\* output path as it found it, an earlier output included; one refused for an
\* output that is the plaintext, or by its self-test, leaves none there
\* (assert_in_domain before anything is written, the scratch files of lock, its
\* os.remove).  A refusal by the layout check does leave the last layer's.
RefusedLeavesNoOutput ==
    [][job # None /\ job.op = "lock" /\ pc' = "idle" =>
          /\ last'.why = "domain" => disk'.out = job.before
          /\ last'.why \in {"noop", "selftest"} => disk'.out = None]_vars

\* The tag on a saved manifest covers the fields cmd_lock set after lock() had
\* signed it: the key that locked is never turned away (manifest.sign).
SignedManifestVerifies ==
    disk.manifest \notin {None, Torn} /\ ~edited =>
        Verify(disk.manifest, disk.manifest.mac.key)

\* What README.md says of repairs: anything the encoder did not reproduce is
\* recorded, "so recovery stays exact regardless".  It does not hold.
RepairsSuffice ==
    pc = "integrity" => disk.restored = carrier
=============================================================================
