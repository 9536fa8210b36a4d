---------------------------- MODULE KeyResolution ----------------------------
(***************************************************************************)
(* Which key a command uses (cli.py, web/server.py, pubkey.py).            *)
(*                                                                         *)
(* lock chooses among recipients, a keyless seed, a key file, the          *)
(* environment and a passphrase, and records only how it chose.  unlock,   *)
(* perhaps elsewhere and in another shell, chooses again from that record  *)
(* and from what it is given.  In between, the manifest travels and may    *)
(* be damaged.  The web server has a choice of its own at both ends.       *)
(*                                                                         *)
(* A derivation is the term it computes: equal keys are equal terms.  What *)
(* a lock draws at random (salt, seed, content key) is Fresh.              *)
(***************************************************************************)
EXTENDS Naturals, Sequences, SequencesExt

CONSTANTS Secrets,     \* passphrases, contents of key files, values of GLITCHLOCK_KEY
          Identities,  \* X25519 key pairs; a fingerprint names its pair
          Empty,       \* the empty passphrase or key file
          Fresh,       \* what one lock draws at random
          MaxRecipients,  \* bound: recipients named to one lock
          None

VARIABLES given,     \* what the lock command was given, None before it
          issued,    \* the manifest it saved
          manifest,  \* the manifest as it arrives
          outcome    \* how the unlock ended, None before it

resolutionVars == <<given, issued, manifest, outcome>>

------------------------------------------------------------------------------
(* Keys. *)

Sha256(text) == [by |-> "sha256", of |-> text, salt |-> None]
Scrypt(text, salt) == [by |-> "scrypt", of |-> text, salt |-> salt]
ContentKey == [by |-> "random", of |-> Fresh, salt |-> None]

\* The keys derived from these.
KeysOf(texts) ==
    [by : {"sha256", "scrypt", "random"}, of : texts,
     salt : {None, Fresh, "glitchlock-keyless"}]

\* Mutant: an empty key file is hashed like any other.
LoadKeyFileUnchecked(content) == Sha256(content)

\* None: refused, the file is empty.
LoadKeyFile(content) == IF content = Empty THEN None ELSE Sha256(content)

------------------------------------------------------------------------------
(* Recipients.  An entry can be opened by the pair it was wrapped for and  *)
(* by no other; its fingerprint is a label beside it.                      *)

\* A recipient named twice has one entry.
Seal(recipients) ==
    FoldLeft(LAMBDA entries, r :
                IF \E k \in 1 .. Len(entries) : entries[k].wrappedFor = r
                THEN entries
                ELSE Append(entries, [fp |-> r, wrappedFor |-> r, readable |-> TRUE]),
             <<>>, recipients)

Entries == [fp : Identities \cup {None}, wrappedFor : Identities, readable : BOOLEAN]

\* The entries that have this identity's fingerprint, or those that have not.
Labelled(kem, identity, own) ==
    FoldLeft(LAMBDA entries, e :
                IF (e.fp = identity) = own THEN Append(entries, e) ELSE entries,
             <<>>, kem)

\* Mutant: the fingerprint decides which entry is tried.
OrderedMatchingOnly(kem, identity) == Labelled(kem, identity, TRUE)

\* Every entry is tried, those with this identity's fingerprint first.
Ordered(kem, identity) == Labelled(kem, identity, TRUE) \o Labelled(kem, identity, FALSE)

Unseal(kem, identity) ==
    IF \E e \in ToSet(Ordered(kem, identity)) : e.readable /\ e.wrappedFor = identity
    THEN ContentKey ELSE None

------------------------------------------------------------------------------
(* The manifest, as far as keys go. *)

Records(macs) ==
    [algo : {"x25519-kem", "keyless", "key-file-sha256", "env-sha256", "scrypt"},
     salt : {None, Fresh}, keyless : BOOLEAN, seed : {None, Fresh}, kem : Seq(Entries),
     mac : macs]

\* Signed under a key that no empty secret went into.
Manifests == Records([key : KeysOf(Secrets \cup {Fresh}), body : Records({None})])

Unsigned(algo, salt, seed, kem) ==
    [algo |-> algo, salt |-> salt, keyless |-> algo = "keyless",
     seed |-> seed, kem |-> kem, mac |-> None]

\* Mutant: the tag covers the record without the recipients' entries.
BodyWithoutKem(m) == [m EXCEPT !.mac = None, !.kem = <<>>]

Body(m) == [m EXCEPT !.mac = None]

Tag(m, key) == [key |-> key, body |-> Body(m)]

Verify(m, key) == m.mac = Tag(m, key)

------------------------------------------------------------------------------
(* Lock.  The first of recipients, keyless, key file, environment and      *)
(* passphrase that is there is taken; an empty key file or passphrase is   *)
(* refused, an empty variable counts as unset.                             *)

LockOptions ==
    [site : {"cli"}, recipients : SeqOf(Identities, MaxRecipients), keyless : BOOLEAN,
     keyFile : Secrets \cup {None, Empty}, env : Secrets \cup {None},
     passphrase : Secrets \cup {Empty}]

WebLockOptions ==
    [site : {"web"}, recipients : SeqOf(Identities, MaxRecipients), keyless : {FALSE},
     keyFile : {None}, env : {None}, passphrase : Secrets \cup {Empty}]

\* Nothing that is there is the absence of it.
ASSUME KeyResolutionAssumption ==
    /\ MaxRecipients \in Nat
    /\ None \notin Identities /\ None \notin KeysOf(Secrets \cup {Empty, Fresh})
    /\ None \notin Manifests /\ None \notin LockOptions /\ None \notin WebLockOptions

ByKeyless(o) == o.recipients = <<>> /\ o.keyless
ByKeyFile(o) == o.recipients = <<>> /\ ~o.keyless /\ o.keyFile # None
ByEnv(o) == /\ o.recipients = <<>> /\ ~o.keyless /\ o.keyFile = None
            /\ o.env # None
ByPassphrase(o) == /\ o.recipients = <<>> /\ ~o.keyless /\ o.keyFile = None
                   /\ o.env = None

ResolutionInit == given = None /\ issued = None /\ manifest = None /\ outcome = None

Issue(o, key, m) ==
    /\ given' = o
    /\ issued' = [m EXCEPT !.mac = Tag(m, key)]
    /\ manifest' = issued'
    /\ UNCHANGED outcome

LockToRecipients(o) ==
    /\ o.recipients # <<>>
    /\ Issue(o, ContentKey, Unsigned("x25519-kem", None, None, Seal(o.recipients)))

LockKeyless(o) ==
    /\ ByKeyless(o)
    /\ Issue(o, Scrypt(Fresh, "glitchlock-keyless"),
             Unsigned("keyless", None, Fresh, <<>>))

LockKeyFile(o) ==
    /\ ByKeyFile(o) /\ LoadKeyFile(o.keyFile) # None
    /\ Issue(o, LoadKeyFile(o.keyFile), Unsigned("key-file-sha256", None, None, <<>>))

LockEnv(o) ==
    /\ ByEnv(o)
    /\ Issue(o, Sha256(o.env), Unsigned("env-sha256", None, None, <<>>))

LockPassphrase(o) ==
    /\ ByPassphrase(o) /\ o.passphrase # Empty
    /\ Issue(o, Scrypt(o.passphrase, Fresh), Unsigned("scrypt", Fresh, None, <<>>))

Lock ==
    /\ issued = None
    /\ \E o \in LockOptions \cup WebLockOptions :
          \/ LockToRecipients(o)
          \/ LockKeyless(o)
          \/ LockKeyFile(o)
          \/ LockEnv(o)
          \/ LockPassphrase(o)

------------------------------------------------------------------------------
(* On the way: entries change their order or their fingerprints, or become *)
(* unreadable; or the whole block is lost.                                 *)

Damage ==
    /\ issued # None /\ manifest = issued /\ outcome = None
    /\ manifest.kem # <<>>
    /\ \/ manifest' = [manifest EXCEPT !.kem = Reverse(@)]
       \/ manifest' = [manifest EXCEPT !.kem = <<>>]
       \/ \E k \in 1 .. Len(manifest.kem) :
             /\ Len(manifest.kem) > 1
             /\ manifest' = [manifest EXCEPT !.kem = RemoveAt(@, k)]
       \/ \E k \in 1 .. Len(manifest.kem), fp \in Identities \cup {None} :
             manifest' = [manifest EXCEPT !.kem[k].fp = fp]
       \/ \E k \in 1 .. Len(manifest.kem) :
             manifest' = [manifest EXCEPT !.kem[k].readable = FALSE]
    /\ UNCHANGED <<given, issued, outcome>>

------------------------------------------------------------------------------
(* Unlock. *)

UnlockOptions ==
    [site : {"cli"}, identity : Identities \cup {None},
     keyFile : Secrets \cup {None, Empty}, env : Secrets \cup {None},
     passphrase : Secrets \cup {Empty}]

WebUnlockOptions ==
    [site : {"web"}, identity : Identities \cup {None},
     keyFile : {None}, env : {None}, passphrase : Secrets \cup {Empty}]

\* Mutant: a key file is looked at before the recipients and the seed.
ResolveKeyFileFirst(m, u) ==
    IF u.keyFile # None THEN LoadKeyFile(u.keyFile)
    ELSE IF m.kem # <<>> THEN Unseal(m.kem, u.identity)
    ELSE IF m.keyless THEN Scrypt(m.seed, "glitchlock-keyless")
    ELSE IF u.env # None /\ m.algo \in {"env-sha256", "key-file-sha256"} THEN Sha256(u.env)
    ELSE IF m.algo = "scrypt" THEN Scrypt(u.passphrase, m.salt)
    ELSE None

\* The first source that is there, in the order of the code's returns.
\* None: the command is refused before the tag is looked at.
ResolveForUnlock(m, u) ==
    IF m.kem # <<>> THEN Unseal(m.kem, u.identity)
    ELSE IF m.keyless THEN Scrypt(m.seed, "glitchlock-keyless")
    ELSE IF u.keyFile # None THEN LoadKeyFile(u.keyFile)
    ELSE IF u.env # None /\ m.algo \in {"env-sha256", "key-file-sha256"} THEN Sha256(u.env)
    ELSE IF m.algo = "scrypt" THEN Scrypt(u.passphrase, m.salt)
    ELSE None

\* Mutant: a salt of its own instead of the manifest's.
ResolveOnWebNewSalt(m, u) ==
    IF u.identity # None THEN Unseal(m.kem, u.identity)
    ELSE IF u.passphrase # Empty /\ m.algo = "scrypt" THEN Scrypt(u.passphrase, None)
    ELSE None

\* The page sends one kind of key; the other is absent.
ResolveOnWeb(m, u) ==
    IF u.identity # None THEN Unseal(m.kem, u.identity)
    ELSE IF u.passphrase # Empty /\ m.algo = "scrypt" THEN Scrypt(u.passphrase, m.salt)
    ELSE None

Unlock ==
    /\ issued # None /\ outcome = None
    /\ \E u \in UnlockOptions \cup WebUnlockOptions :
          LET key == IF u.site = "web" THEN ResolveOnWeb(manifest, u)
                     ELSE ResolveForUnlock(manifest, u)
          IN  outcome' = [with |-> u, key |-> key,
                          open |-> key # None /\ Verify(manifest, key)]
    /\ UNCHANGED <<given, issued, manifest>>

ResolutionNext == Lock \/ Damage \/ Unlock

ResolutionSpec == ResolutionInit /\ [][ResolutionNext]_resolutionVars

------------------------------------------------------------------------------
(* Properties. *)

Untouched == outcome # None /\ manifest = issued

\* What the unlock was given includes what the lock was given; for a file
\* locked to public keys, the identity of one recipient.
SameKeyMaterial ==
    LET u == outcome.with IN
    /\ u.keyFile = given.keyFile
    /\ u.passphrase = given.passphrase
    /\ given.recipients # <<>> => u.identity \in ToSet(given.recipients)

\* Values have their types; no key is made of an empty secret.
ResolutionTypeOK ==
    /\ given \in LockOptions \cup WebLockOptions \cup {None}
    /\ issued \in Manifests \cup {None} /\ (issued = None <=> given = None)
    /\ issued # None => manifest = issued \/ issued.algo = "x25519-kem"
    /\ outcome # None => outcome.with \in UnlockOptions \cup WebUnlockOptions

\* Whatever was given to lock, the same given to unlock on the command line
\* opens the file: the two lists of precedence in cli.py agree, options that
\* lock did not use included.  A variable left in the receiver's shell is never
\* in the way of a file that was locked without one.
SameOptionsReopen ==
    /\ Untouched /\ outcome.with.site = "cli"
    /\ SameKeyMaterial
    /\ outcome.with.env = given.env \/ given.env = None
    => outcome.open

\* What the page locks opens on the command line, and what the command line
\* locks with a passphrase or to a public key opens on the page.
SitesAgree ==
    /\ Untouched /\ given.site # outcome.with.site
    /\ issued.algo \in {"scrypt", "x25519-kem"}
    /\ IF issued.algo = "scrypt"
       THEN outcome.with.passphrase = given.passphrase /\ outcome.with.identity = None
       ELSE outcome.with.identity \in ToSet(given.recipients)
    /\ outcome.with.keyFile = None
    => outcome.open

\* pubkey.py: the fingerprint is a hint for speed.  Whatever became of the
\* labels, the order and the other entries, a recipient whose own entry is
\* readable recovers the content key.
FingerprintIsOnlyAHint ==
    /\ outcome # None
    /\ \E k \in 1 .. Len(manifest.kem) :
          /\ manifest.kem[k].wrappedFor = outcome.with.identity
          /\ manifest.kem[k].readable
    => outcome.key = ContentKey

\* A file that opens is opened under the key it was locked with, and its
\* manifest arrived as it was sent.
OpenedAsIssued ==
    outcome # None /\ outcome.open =>
        /\ manifest = issued
        /\ outcome.key = issued.mac.key
==============================================================================
