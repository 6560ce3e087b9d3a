---------------------------- MODULE VaultSession ----------------------------
(***************************************************************************)
(* The borrowers vault session: VaultSessionController with its            *)
(* VaultSecretKeeper and its SerialOpQueue, the files of VaultStore, the   *)
(* Rust core calls that create, open and re-wrap the vault, and the        *)
(* Keystore record of the biometric secret.                                *)
(*                                                                         *)
(* The isolate is single threaded: a step runs from one await to the next. *)
(* The head of the queue runs; lock(), new calls, the rebuild of the       *)
(* provider, the system's own changes to the Keystore and the death of the *)
(* process interleave with its awaits.                                     *)
(***************************************************************************)
EXTENDS Naturals, Sequences

CONSTANTS
    Passphrases,    \* what a user may type
    Short,          \* those below minPassphraseLength
    Kinds,          \* the operations a run lets the user call
    Faults,         \* "io", "native", "keystore", "throw", "crash", "invalidate"
    Installed,      \* the devices to start from: "fresh", "vault", "enrolled", "legacy"
    MaxOps,         \* bound: operations called in a behaviour
    MaxGen,         \* bound: lock() and invalidations stop at this generation
    NONE

AllKinds == {"enable", "unlock", "change", "enrol", "bioUnlock", "disable",
             "mutate", "restoreVault", "restoreKeep"}

\* Operations that carry a passphrase, and operations refused while locked.
Incoming == {"enable", "unlock", "change"}
NeedsUnlock == {"change", "enrol", "mutate"}
Restores == {"restoreVault", "restoreKeep"}

ASSUME ConstantsAssumption ==
    /\ Passphrases # {} /\ Short \subseteq Passphrases
    /\ Kinds \subseteq AllKinds
    /\ Installed \subseteq {"fresh", "vault", "enrolled", "legacy"}
    /\ MaxOps \in Nat /\ MaxGen \in Nat
    /\ Passphrases \cap (0 .. MaxOps) = {}
    /\ NONE \notin Passphrases /\ NONE \notin 0 .. MaxOps

VARIABLES
    disk,       \* borrowers.db, vault_backup_blob, vault_biometric_blob
    ks,         \* the Keystore key and the sealed record of S
    keeper,     \* VaultSecretKeeper: held secret, its blob, the fences
    live,       \* secret buffers not wiped yet, named by the call that owns them
    pending,    \* VaultSecretKeeper._pending
    sess,       \* the published VaultSessionState
    view,       \* the revision of the rows the state shows
    queue,      \* SerialOpQueue: calls not finished, the head running
    pc,         \* where the head of the queue is
    run,        \* the head's locals
    phase,      \* the provider: "ready", "dirty", "disposed", "building"
    store,      \* VaultSessionController._store: 0 or the data set it serves
    epoch,      \* the active data set; a restore switches to the next one
    nextId      \* calls made so far, plus one

vars == <<disk, ks, keeper, live, pending, sess, view, queue, pc, run, phase,
          store, epoch, nextId>>
provider == <<phase, store, epoch>>

Ids == 1 .. MaxOps
KeyIds == 0 .. MaxOps                   \* vault keys MK: 0, or the creating call
Secrets == Passphrases \cup (0 .. MaxOps)   \* S is named by the enrolling call
Blobs == [key: KeyIds, by: Secrets]     \* MK wrapped under a secret
Databases == [key: KeyIds, rev: Nat]
Disks == [db: Databases \cup {NONE}, blob: Blobs \cup {NONE}, bio: Blobs \cup {NONE}]

ASSUME NoneIsNoFile == NONE \notin Blobs \cup Databases

Opens(secret, blob) == blob # NONE /\ blob.by = secret
\* open_and_key: the unwrapped key decrypts the database file.
Reads(secret, blob, d) ==
    /\ Opens(secret, blob)
    /\ d.db # NONE /\ d.db.key = blob.key

NoDisk == [db |-> NONE, blob |-> NONE, bio |-> NONE]
IsInitialized(d) == d.db # NONE /\ d.blob # NONE
HasOrphanDatabase(d) == d.db # NONE /\ d.blob = NONE
DiscardsNothing(d) == d

\* discardOrphanDatabase
Discarded(d) == IF HasOrphanDatabase(d)
                THEN NoDisk ELSE d
InitialStateFor(d) == IF IsInitialized(d) THEN "locked" ELSE "uninit"

NoRun == [blob |-> NONE, sec |-> NONE, bio |-> FALSE, ok |-> FALSE,
          life |-> 0, ep |-> 0, next |-> NONE]

EmptyKeeper == [cur |-> NONE, buf |-> 0, blob |-> NONE, bio |-> FALSE,
                gen |-> 0, life |-> 0, disposed |-> FALSE]

Op == Head(queue)
CurrentUnlessDisposed(g) == ~keeper.disposed
IsCurrent(g) == ~keeper.disposed /\ g = keeper.gen
Fresh == IsCurrent(Op.gen)
At(label) == queue # <<>> /\ pc = label
May(fault) == fault \in Faults

-----------------------------------------------------------------------------
(* VaultSecretKeeper.forget and hold, and the ways an operation ends.       *)

ForgottenLater(kp) == [kp EXCEPT !.gen = @ + 1]

Forgotten(kp) == [kp EXCEPT !.cur = NONE, !.buf = 0, !.blob = NONE,
                            !.bio = FALSE, !.gen = @ + 1]

ForgetHeldOnly ==
    /\ keeper' = Forgotten(keeper)
    /\ live' = live \ {keeper.buf}
    /\ pending' = {}

Forget ==
    /\ keeper' = Forgotten(keeper)
    /\ live' = live \ (pending \cup {keeper.buf})
    /\ pending' = {}

Pop == queue' = Tail(queue) /\ pc' = "wait" /\ run' = NoRun

FinishUnwiped ==
    /\ Pop
    /\ pending' = pending \ {Op.id}
    /\ UNCHANGED <<live, keeper>>

\* The operation returns; untrackPending wipes its secret unless it is held.
Finish ==
    /\ Pop
    /\ pending' = pending \ {Op.id}
    /\ live' = IF keeper.buf = Op.id THEN live ELSE live \ {Op.id}
    /\ UNCHANGED keeper

FinishForgetting ==
    /\ Pop
    /\ keeper' = Forgotten(keeper)
    /\ live' = live \ (pending \cup {keeper.buf, Op.id})
    /\ pending' = {}

HoldsOldBlob(secret, blob, bio) ==
    /\ Pop
    /\ keeper' = [keeper EXCEPT !.cur = secret, !.buf = Op.id, !.bio = bio]
    /\ live' = live \ ({keeper.buf} \ {Op.id})
    /\ pending' = pending \ {Op.id}

\* hold: the replaced secret is wiped.
FinishHolding(secret, blob, bio) ==
    /\ Pop
    /\ keeper' = [keeper EXCEPT !.cur = secret, !.buf = Op.id, !.blob = blob,
                                !.bio = bio]
    /\ live' = live \ ({keeper.buf} \ {Op.id})
    /\ pending' = pending \ {Op.id}

Continue(label) ==
    /\ pc' = label
    /\ UNCHANGED <<queue, keeper, live, pending>>

Quiet == UNCHANGED <<sess, view>>
Show(state, rev) == sess' = state /\ view' = rev
ShowInitial == Show(InitialStateFor(disk'), 0)

-----------------------------------------------------------------------------
(* Calls, lock, the provider's rebuild, the death of the process.           *)

\* _run up to the queue: the generation is read before the call waits.
Call(kind, secret) ==
    /\ nextId <= MaxOps
    /\ ~keeper.disposed
    /\ kind \in NeedsUnlock => keeper.cur # NONE
    /\ queue' = Append(queue, [id |-> nextId, kind |-> kind, sec |-> secret,
                               gen |-> keeper.gen])
    /\ nextId' = nextId + 1
    /\ IF kind \in Incoming
       THEN pending' = pending \cup {nextId} /\ live' = live \cup {nextId}
       ELSE UNCHANGED <<pending, live>>
    /\ UNCHANGED <<disk, ks, keeper, pc, run, provider>> /\ Quiet

UserCalls ==
    \/ \E kind \in Kinds \cap Incoming, p \in Passphrases : Call(kind, p)
    \/ \E kind \in Kinds \ Incoming : Call(kind, NONE)

\* After a switch the cached store points at a directory that may be gone.
ShowStored(d) ==
    /\ sess' \in IF store = epoch THEN {InitialStateFor(d)} ELSE {"locked", "uninit"}
    /\ view' = 0

Lock ==
    /\ keeper.gen < MaxGen
    /\ Forget
    /\ IF store = 0 \/ keeper.disposed THEN Quiet ELSE ShowStored(disk)
    /\ UNCHANGED <<disk, ks, queue, pc, run, provider, nextId>>

Invalidate ==
    /\ May("invalidate") /\ phase = "ready" /\ keeper.gen < MaxGen
    /\ phase' = "dirty"
    /\ UNCHANGED <<disk, ks, keeper, live, pending, queue, pc, run, store,
                   epoch, nextId>> /\ Quiet

\* ref.onDispose: the state keeps its last value while the provider reloads.
Dispose ==
    /\ phase = "dirty"
    /\ phase' = "disposed" /\ store' = 0
    /\ keeper' = [Forgotten(keeper) EXCEPT !.disposed = TRUE, !.life = @ + 1]
    /\ live' = live \ (pending \cup {keeper.buf})
    /\ pending' = {}
    /\ UNCHANGED <<disk, ks, queue, pc, run, epoch, nextId>> /\ Quiet

Build ==
    /\ phase = "disposed"
    /\ phase' = "building"
    /\ keeper' = [keeper EXCEPT !.disposed = FALSE]
    /\ UNCHANGED <<disk, ks, live, pending, queue, pc, run, store, epoch,
                   nextId>> /\ Quiet

BuiltKeepsState ==
    /\ phase = "building"
    /\ phase' = "ready" /\ store' = epoch
    /\ UNCHANGED <<disk, ks, keeper, live, pending, queue, pc, run, epoch,
                   nextId>> /\ Quiet

Built ==
    /\ phase = "building"
    /\ phase' = "ready" /\ store' = epoch
    /\ Show(InitialStateFor(disk), 0)
    /\ UNCHANGED <<disk, ks, keeper, live, pending, queue, pc, run, epoch,
                   nextId>>

\* The process dies and starts again: only the files and the Keystore stay.
Crash ==
    /\ May("crash")
    /\ keeper' = EmptyKeeper /\ live' = {} /\ pending' = {}
    /\ Show("loading", 0)
    /\ queue' = <<>> /\ pc' = "wait" /\ run' = NoRun
    /\ phase' = "building" /\ store' = 0
    /\ UNCHANGED <<disk, ks, epoch, nextId>>

\* The system destroys the key when the enrolled biometrics change.
KeyInvalidated ==
    /\ May("keystore") /\ ks.key # NONE
    /\ ks' = [ks EXCEPT !.key = NONE]
    /\ UNCHANGED <<disk, keeper, live, pending, queue, pc, run, provider,
                   nextId>> /\ Quiet

-----------------------------------------------------------------------------
(* _run inside the queue.                                                   *)

CancelledIfDisposed ==
    /\ At("wait")
    /\ keeper.disposed \/ (phase = "ready" /\ store = 0)
    /\ Finish
    /\ UNCHANGED <<disk, ks, provider, nextId>> /\ Quiet

\* The slot comes up in a session that has ended.
Cancelled ==
    /\ At("wait")
    /\ ~Fresh \/ (phase = "ready" /\ store = 0)
    /\ Finish
    /\ UNCHANGED <<disk, ks, provider, nextId>> /\ Quiet

StartsWhileDirty(kind) ==
    /\ At("wait") /\ Fresh /\ phase # "building" /\ store # 0
    /\ Op.kind = kind

\* The action starts: the build has completed and the session is the same.
Starts(kind) ==
    /\ At("wait") /\ Fresh /\ phase = "ready" /\ store # 0
    /\ Op.kind = kind

\* The action ends and changes nothing outside the queue.
Ends == Finish /\ UNCHANGED <<disk, ks, provider, nextId>> /\ Quiet

\* An exception of the action: the session is forgotten if it is still its own.
Throws ==
    /\ May("throw")
    /\ \/ Starts("unlock") \/ Starts("bioUnlock")
       \/ At("cleared") /\ Op.kind \in {"disable", "bioUnlock"}
    /\ IF Fresh THEN FinishForgetting /\ Show("locked", 0) ELSE Finish /\ Quiet
    /\ UNCHANGED <<disk, ks, provider, nextId>>

Awaits(label, locals) ==
    /\ Continue(label)
    /\ run' = locals
    /\ UNCHANGED <<ks, provider, nextId>> /\ Quiet

Local(blob, secret, bio) ==
    [NoRun EXCEPT !.blob = blob, !.sec = secret, !.bio = bio, !.ep = store]

\* _holdAndLoad after the core answered.
Loaded ==
    /\ At("load")
    /\ \/ ~Fresh /\ Finish /\ Quiet
       \/ /\ Fresh /\ Reads(run.sec, run.blob, disk)
          /\ FinishHolding(run.sec, run.blob, run.bio)
          /\ Show("unlocked", disk.db.rev)
       \/ /\ Fresh /\ (May("native") \/ ~Reads(run.sec, run.blob, disk))
          /\ FinishForgetting
          /\ Show(InitialStateFor(disk), 0)
    /\ UNCHANGED <<disk, ks, provider, nextId>>

-----------------------------------------------------------------------------
(* enable                                                                   *)

StartEnable ==
    /\ Starts("enable")
    /\ \/ (IsInitialized(disk) \/ Op.sec \in Short) /\ Ends
       \/ HasOrphanDatabase(disk) /\ May("io") /\ Ends
       \/ /\ ~IsInitialized(disk) /\ Op.sec \notin Short
          /\ disk' = Discarded(disk)
          /\ Awaits("create", [Local(NONE, Op.sec, FALSE) EXCEPT !.life = keeper.life])

\* api::create_vault: the database first, refused over an existing file ...
CoreCreates ==
    /\ At("create")
    /\ \/ /\ disk.db = NONE
          /\ disk' = [disk EXCEPT !.db = [key |-> Op.id, rev |-> 0]]
          /\ Awaits("wrap", run)
       \/ (disk.db # NONE \/ May("native")) /\ Awaits("created", run) /\ UNCHANGED disk

\* ... then its key wrapped under the passphrase.
CoreWraps ==
    /\ At("wrap")
    /\ \/ Awaits("created", [run EXCEPT !.blob = [key |-> Op.id, by |-> run.sec]])
       \/ May("native") /\ Awaits("created", run)
    /\ UNCHANGED disk

Created ==
    /\ At("created")
    /\ \/ /\ keeper.disposed \/ keeper.life # run.life
          /\ Ends
       \/ /\ ~keeper.disposed /\ keeper.life = run.life
          /\ \/ run.blob = NONE /\ UNCHANGED disk /\ Finish /\ ShowInitial
             \/ /\ run.blob # NONE /\ May("io")      \* writeBlob fails
                /\ disk' \in {Discarded(disk), disk}
                /\ Finish /\ ShowInitial
             \/ /\ run.blob # NONE
                /\ disk' = [disk EXCEPT !.blob = run.blob]
                /\ IF Fresh
                   THEN Continue("load") /\ run' = run /\ Quiet
                   ELSE Finish /\ ShowInitial
          /\ UNCHANGED <<ks, provider, nextId>>

-----------------------------------------------------------------------------
(* unlock, changePassphrase and the writes through _mutate.                 *)

StartUnlock ==
    /\ Starts("unlock")
    /\ IF disk.blob = NONE
       THEN Ends
       ELSE Awaits("load", Local(disk.blob, Op.sec, FALSE)) /\ UNCHANGED disk

StartChange ==
    /\ Starts("change")
    /\ IF keeper.cur = NONE \/ keeper.blob = NONE \/ Op.sec \in Short
       THEN Ends
       ELSE Awaits("rewrap", Local(keeper.blob, keeper.cur, FALSE)) /\ UNCHANGED disk

RewrapSwapped(blob, secret) == [key |-> secret, by |-> blob.key]
RewrapRotates(blob, secret) == [key |-> Op.id, by |-> secret]

\* api::rewrap_blob and wrap_for_biometric: the same key under another secret.
Rewrap(blob, secret) == [key |-> blob.key, by |-> secret]

\* The held secret re-wraps the same key; a biometric session stays on S.
Rewrapped ==
    /\ At("rewrap")
    /\ \/ /\ ~Fresh \/ May("native") \/ May("io") \/ ~Opens(run.sec, run.blob)
          /\ Ends
       \/ /\ Fresh /\ Opens(run.sec, run.blob)
          /\ LET newBlob == Rewrap(run.blob, Op.sec) IN
             /\ disk' = [disk EXCEPT !.blob = newBlob]
             /\ IF keeper.bio THEN Finish ELSE FinishHolding(Op.sec, newBlob, FALSE)
          /\ UNCHANGED <<ks, provider, nextId>> /\ Quiet

StartMutate ==
    /\ Starts("mutate")
    /\ IF keeper.cur = NONE \/ keeper.blob = NONE
       THEN Ends
       ELSE Awaits("write", Local(keeper.blob, keeper.cur, keeper.bio)) /\ UNCHANGED disk

\* The core writes one row, or refuses and writes none.
CoreWrites ==
    /\ At("write")
    /\ \/ /\ Reads(run.sec, run.blob, disk)
          /\ disk' = [disk EXCEPT !.db.rev = @ + 1]
          /\ Awaits("written", [run EXCEPT !.ok = TRUE])
       \/ /\ May("native") \/ ~Reads(run.sec, run.blob, disk)
          /\ Awaits("written", run) /\ UNCHANGED disk

WrittenIsShown == At("written") /\ Ends

Written ==
    /\ At("written")
    /\ IF Fresh /\ run.ok THEN Awaits("reread", run) /\ UNCHANGED disk ELSE Ends

Reread ==
    /\ At("reread")
    /\ \/ ~Fresh /\ Finish /\ Quiet
       \/ /\ Fresh /\ Reads(run.sec, run.blob, disk)
          /\ Finish /\ Show("unlocked", disk.db.rev)
       \/ /\ Fresh /\ (May("native") \/ ~Reads(run.sec, run.blob, disk))
          /\ FinishForgetting
          /\ Show(InitialStateFor(disk), 0)
    /\ UNCHANGED <<disk, ks, provider, nextId>>

-----------------------------------------------------------------------------
(* Biometric enrolment, unlock and removal.                                 *)

HasSecret == ks.rec # NONE

StartEnrol ==
    /\ Starts("enrol")
    /\ IF keeper.cur = NONE \/ keeper.blob = NONE
       THEN Ends
       ELSE Awaits("checkBio", Local(keeper.blob, keeper.cur, FALSE)) /\ UNCHANGED disk

\* Already enrolled is reported as success.
EnrolAlready ==
    /\ At("checkBio") /\ Fresh
    /\ disk.bio # NONE /\ HasSecret
    /\ Ends

EnrolChecked ==
    /\ At("checkBio")
    /\ \/ (~Fresh \/ May("keystore")) /\ Ends      \* cancelled, or not available
       \/ /\ Fresh /\ ~(disk.bio # NONE /\ HasSecret)
          /\ Awaits("wrapBio", run) /\ UNCHANGED disk

\* The core wraps the same key under a new S; S is tracked, then sealed.
EnrolWrapped ==
    /\ At("wrapBio")
    /\ \/ (~Fresh \/ May("native") \/ ~Opens(run.sec, run.blob)) /\ Ends
       \/ /\ Fresh /\ Opens(run.sec, run.blob)
          /\ pc' = "seal"
          /\ run' = [run EXCEPT !.blob = Rewrap(run.blob, Op.id)]
          /\ pending' = pending \cup {Op.id} /\ live' = live \cup {Op.id}
          /\ UNCHANGED <<disk, ks, queue, keeper, provider, nextId>> /\ Quiet

\* The platform side replaces the key before it shows the prompt.
SealKey ==
    /\ At("seal")
    /\ \/ ks' = [ks EXCEPT !.key = Op.id] /\ Continue("prompt")
       \/ May("keystore") /\ ks' \in {ks, [ks EXCEPT !.key = NONE]} /\ Continue("stored")
    /\ UNCHANGED <<disk, run, provider, nextId>> /\ Quiet

\* The prompt is answered and the sealed record is written.
Sealed ==
    /\ At("prompt")
    /\ Continue("stored")
    /\ \/ ks' = [ks EXCEPT !.rec = Op.id] /\ run' = [run EXCEPT !.ok = TRUE]
       \/ UNCHANGED <<ks, run>>                                 \* prompt refused
       \/ May("keystore") /\ ks' = [ks EXCEPT !.key = NONE] /\ UNCHANGED run
    /\ UNCHANGED <<disk, provider, nextId>> /\ Quiet

EnrolStoredNoUndo ==
    /\ At("stored")
    /\ \/ (~Fresh \/ ~run.ok) /\ Ends
       \/ Fresh /\ run.ok /\ May("io") /\ Awaits("clear", run) /\ UNCHANGED disk
       \/ /\ Fresh /\ run.ok
          /\ disk' = [disk EXCEPT !.bio = run.blob]
          /\ Finish
          /\ UNCHANGED <<ks, provider, nextId>> /\ Quiet

\* A session that ended, or a blob that cannot be saved, undoes the record.
EnrolStored ==
    /\ At("stored")
    /\ \/ ~Fresh /\ Awaits("clear", run) /\ UNCHANGED disk
       \/ Fresh /\ ~run.ok /\ Ends
       \/ Fresh /\ run.ok /\ May("io") /\ Awaits("clear", run) /\ UNCHANGED disk
       \/ /\ Fresh /\ run.ok
          /\ disk' = [disk EXCEPT !.bio = run.blob]
          /\ Finish
          /\ UNCHANGED <<ks, provider, nextId>> /\ Quiet

StartBioUnlock ==
    /\ Starts("bioUnlock")
    /\ IF disk.bio = NONE
       THEN Ends
       ELSE Awaits("hasBio", Local(disk.bio, NONE, TRUE)) /\ UNCHANGED disk

BioChecked ==
    /\ At("hasBio")
    /\ IF Fresh /\ HasSecret THEN Awaits("readBio", run) /\ UNCHANGED disk ELSE Ends

\* open: a missing key means S is gone; another key, or a refused prompt, fails.
BioRead ==
    /\ At("readBio")
    /\ \/ ks.key = NONE /\ Awaits("clear", run) /\ UNCHANGED disk
       \/ ks.key # NONE /\ Ends
       \/ /\ ks.key # NONE /\ ks.key = ks.rec /\ Fresh
          /\ pc' = "load"
          /\ run' = [run EXCEPT !.sec = ks.rec]
          /\ pending' = pending \cup {Op.id} /\ live' = live \cup {Op.id}
          /\ UNCHANGED <<disk, ks, queue, keeper, provider, nextId>> /\ Quiet

StartDisable ==
    /\ Starts("disable")
    /\ Awaits("clear", Local(NONE, NONE, FALSE)) /\ UNCHANGED disk

\* KeystoreBiometricSecretVault.clear: the record, then the key.
ClearRecord ==
    /\ At("clear")
    /\ \/ ks' = [ks EXCEPT !.rec = NONE] /\ Continue("destroy") /\ UNCHANGED run
       \/ /\ May("keystore") /\ Continue("cleared")
          /\ run' = [run EXCEPT !.ok = FALSE] /\ UNCHANGED ks
    /\ UNCHANGED <<disk, provider, nextId>> /\ Quiet

DestroyKey ==
    /\ At("destroy")
    /\ Continue("cleared")
    /\ \/ ks' = [ks EXCEPT !.key = NONE] /\ run' = [run EXCEPT !.ok = TRUE]
       \/ May("keystore") /\ run' = [run EXCEPT !.ok = FALSE] /\ UNCHANGED ks
    /\ UNCHANGED <<disk, provider, nextId>> /\ Quiet

\* What follows clear(): only an invalidated read drops the blob regardless.
Cleared ==
    /\ At("cleared")
    /\ \/ Op.kind = "enrol" /\ UNCHANGED disk
       \/ Op.kind = "bioUnlock" /\ disk' = [disk EXCEPT !.bio = NONE]
       \/ /\ Op.kind = "disable"
          /\ disk' = IF Fresh /\ run.ok THEN [disk EXCEPT !.bio = NONE] ELSE disk
    /\ Finish
    /\ UNCHANGED <<ks, provider, nextId>> /\ Quiet

-----------------------------------------------------------------------------
(* A restore under protectReplacement: it holds the queue for its duration. *)

\* lock() in the finally of protectReplacement, then the queue is released.
FinishLocking ==
    /\ FinishForgetting
    /\ IF store = 0 \/ keeper.disposed THEN Quiet ELSE ShowStored(disk)

\* The archive carries a vault of its own.
StartRestoreVault ==
    /\ Starts("restoreVault")
    /\ \E p \in Passphrases :
         LET archive == [db |-> [key |-> Op.id, rev |-> 0],
                         blob |-> [key |-> Op.id, by |-> p], bio |-> NONE]
         IN Awaits("build", [Local(NONE, NONE, FALSE) EXCEPT !.next = archive])
    /\ UNCHANGED disk

NoVaultIfLocked == sess # "unlocked"

\* Nothing of a vault may be on the device when none is kept.
NoVaultToKeep ==
    /\ ~IsInitialized(disk) /\ sess = "uninit"
    /\ disk.db = NONE /\ disk.blob = NONE

VaultToKeep ==
    /\ IsInitialized(disk) /\ sess = "unlocked"
    /\ keeper.cur # NONE /\ keeper.blob # NONE

\* The device's vault is kept: it must be unlocked and read afresh.
StartRestoreKeep ==
    /\ Starts("restoreKeep")
    /\ \/ VaultToKeep /\ Awaits("keepRead", Local(keeper.blob, keeper.cur, keeper.bio))
       \/ NoVaultToKeep /\ Awaits("build", [Local(NONE, NONE, FALSE) EXCEPT !.next = NoDisk])
       \/ ~VaultToKeep /\ ~NoVaultToKeep /\ Finish /\ Quiet
                       /\ UNCHANGED <<ks, provider, nextId>>
    /\ UNCHANGED disk

KeepRead ==
    /\ At("keepRead")
    /\ \/ ~Fresh /\ Ends
       \/ /\ Fresh /\ Reads(run.sec, run.blob, disk)
          /\ Continue("build") /\ run' = [run EXCEPT !.next = disk]
          /\ Show("unlocked", disk.db.rev)
          /\ UNCHANGED <<disk, ks, provider, nextId>>
       \/ /\ Fresh /\ (May("native") \/ ~Reads(run.sec, run.blob, disk))
          /\ FinishLocking
          /\ UNCHANGED <<disk, ks, provider, nextId>>

\* The next data set is built; the lease is checked before the switch.
BuildRestored ==
    /\ At("build")
    /\ IF Fresh
       THEN \/ Awaits("switch", run) /\ UNCHANGED disk
            \/ May("io") /\ FinishLocking /\ UNCHANGED <<disk, ks, provider, nextId>>
       ELSE FinishLocking /\ UNCHANGED <<disk, ks, provider, nextId>>

\* After its turn in the publish queue the pointer is switched.
Switch ==
    /\ At("switch")
    /\ disk' = run.next /\ epoch' = epoch + 1 /\ phase' = "dirty"
    /\ Continue("switched") /\ run' = run
    /\ UNCHANGED <<ks, store, nextId>> /\ Quiet

SwitchFails ==
    /\ At("switch") /\ May("io")
    /\ FinishLocking
    /\ UNCHANGED <<disk, ks, provider, nextId>>

Released ==
    /\ At("switched")
    /\ FinishLocking
    /\ UNCHANGED <<disk, ks, provider, nextId>>

-----------------------------------------------------------------------------

\* What the app does by itself; the user, faults and the system are not in it.
Runs ==
    \/ Dispose \/ Build \/ Built
    \/ Cancelled \/ Throws \/ Loaded
    \/ StartEnable \/ CoreCreates \/ CoreWraps \/ Created
    \/ StartUnlock \/ StartChange \/ Rewrapped
    \/ StartMutate \/ CoreWrites \/ Written \/ Reread
    \/ StartEnrol \/ EnrolAlready \/ EnrolChecked \/ EnrolWrapped
    \/ SealKey \/ Sealed \/ EnrolStored
    \/ StartBioUnlock \/ BioChecked \/ BioRead \/ StartDisable
    \/ ClearRecord \/ DestroyKey \/ Cleared
    \/ StartRestoreVault \/ StartRestoreKeep \/ KeepRead
    \/ BuildRestored \/ Switch \/ SwitchFails \/ Released

Next == UserCalls \/ Lock \/ Invalidate \/ Crash \/ KeyInvalidated \/ Runs

\* The device the app starts on. "legacy": a biometric blob whose plaintext
\* secret the first contact of this version has deleted.
Device(kind, p) ==
    [db |-> IF kind = "fresh" THEN NONE ELSE [key |-> 0, rev |-> 0],
     blob |-> IF kind = "fresh" THEN NONE ELSE [key |-> 0, by |-> p],
     bio |-> IF kind \in {"enrolled", "legacy"} THEN [key |-> 0, by |-> 0] ELSE NONE]

Init ==
    /\ \E kind \in Installed, p \in Passphrases :
         /\ disk = Device(kind, p)
         /\ ks = IF kind = "enrolled" THEN [key |-> 0, rec |-> 0]
                                      ELSE [key |-> NONE, rec |-> NONE]
    /\ keeper = EmptyKeeper /\ live = {} /\ pending = {}
    /\ sess = "loading" /\ view = 0
    /\ queue = <<>> /\ pc = "wait" /\ run = NoRun
    /\ phase = "building" /\ store = 0 /\ epoch = 1
    /\ nextId = 1

Spec == Init /\ [][Next]_vars

\* Every await completes and the scheduler rebuilds a dirty provider; nothing
\* is assumed of the user, of lock() or of the faults.
FairSpec == Spec /\ WF_vars(Runs)

-----------------------------------------------------------------------------
(* Properties                                                               *)

Phases == {"ready", "dirty", "disposed", "building"}
Labels == {"wait", "create", "wrap", "created", "load", "rewrap", "write",
           "written", "reread", "checkBio", "wrapBio", "seal", "prompt",
           "stored", "hasBio", "readBio", "clear", "destroy", "cleared",
           "keepRead", "build", "switch", "switched"}
Calls == [id: Ids, kind: AllKinds, sec: Passphrases \cup {NONE}, gen: Nat]

\* Every variable keeps its type.
TypeOK ==
    /\ disk \in Disks
    /\ ks \in [key: KeyIds \cup {NONE}, rec: KeyIds \cup {NONE}]
    /\ keeper \in [cur: Secrets \cup {NONE}, buf: 0 .. MaxOps,
                    blob: Blobs \cup {NONE}, bio: BOOLEAN, gen: Nat,
                    life: Nat, disposed: BOOLEAN]
    /\ live \subseteq Ids /\ pending \subseteq Ids
    /\ sess \in {"loading", "uninit", "locked", "unlocked"} /\ view \in Nat
    /\ queue \in Seq(Calls) /\ pc \in Labels
    /\ run \in [blob: Blobs \cup {NONE}, sec: Secrets \cup {NONE}, bio: BOOLEAN,
                 ok: BOOLEAN, life: Nat, ep: Nat, next: Disks \cup {NONE}]
    /\ phase \in Phases /\ store \in Nat /\ epoch \in Nat
    /\ nextId \in 1 .. MaxOps + 1

\* Whatever dies or fails in between, the key blobs on disk belong to the
\* database on disk: a key never outlives or precedes the rows it opens
\* (enable writes the blob last; changePassphrase re-wraps, never rotates).
BlobsMatchDatabase ==
    \A blob \in {disk.blob, disk.bio} :
        blob # NONE => disk.db # NONE /\ disk.blob # NONE /\ blob.key = disk.db.key

\* The secret the session holds opens, with the blob it is paired with, the
\* database of the active data set, until a restore has replaced that set.
HeldOpensVault ==
    keeper.cur # NONE /\ pc # "switched" => Reads(keeper.cur, keeper.blob, disk)

\* Every unwiped secret buffer has an owner that a lock would wipe with it,
\* and the held one is never wiped under the session (VaultSecretKeeper's
\* list of invariants).
SecretsOwned ==
    /\ live = pending \cup ({keeper.buf} \ {0})
    /\ (keeper.buf = 0) <=> (keeper.cur = NONE)
    /\ \A id \in pending : \E i \in 1 .. Len(queue) : queue[i].id = id

\* A lock sticks: a secret is taken and rows are shown only by an operation
\* that was called in the session that is current when it ends.
LockSticks ==
    [][ (keeper'.cur # NONE /\ keeper'.buf # keeper.buf) \/ (sess' = "unlocked" /\ view' # view)
        => queue # <<>> /\ Op.gen = keeper.gen /\ ~keeper.disposed ]_vars

\* When nothing runs, the rows the page shows are the rows of the database,
\* and they are shown only while the secret is held.
ViewCurrent ==
    sess = "unlocked" /\ pc = "wait" /\ phase = "ready"
        => keeper.cur # NONE /\ view = disk.db.rev

\* The core never meets a file where it is asked to create one: an orphan of a
\* crash or of a failed save is gone by then, so enable is never stuck.
CreateFindsNoFile == pc = "create" => disk.db = NONE

\* A running operation works on the active data set: none starts on the
\* directory a restore has just replaced.
StoreIsActive == pc \notin {"wait", "switched"} => run.ep = epoch

\* The vault of the device, with every row written to it, survives everything
\* but a restore that brings a vault of its own.
VaultKept ==
    [][ IsInitialized(disk) /\ ~(Switch /\ Op.kind = "restoreVault")
        => /\ disk'.db # NONE /\ disk'.blob # NONE
           /\ disk'.db.key = disk.db.key /\ disk'.db.rev >= disk.db.rev ]_vars

\* A restore replaces the vault of the session that asked for it, or of none: a
\* lock may end that session while the switch waits for the publish queue, but
\* no secret is held then, and none of a later session.
SwitchMeetsNoOther == [][ Switch => Fresh \/ keeper.cur = NONE ]_vars

\* With no crash and a Keystore that works, a stored S opens the biometric
\* blob beside it: a lock in the middle of an enrolment leaves no foreign S.
BioPairMatches ==
    pc = "wait" /\ disk.bio # NONE /\ HasSecret => disk.bio.by = ks.rec

\* Every call returns: no lock, rebuild, fault or failure of another
\* operation leaves one waiting in the queue.
Queued(id) == \E i \in 1 .. Len(queue) : queue[i].id = id
CallsReturn == \A id \in Ids : Queued(id) ~> ~Queued(id)

\* The comment of KeystoreBiometricSecretVault: the old biometric blob "is
\* overwritten by the next enrolment", so one reported as done can unlock.
EnrolledCanUnlock == [][ EnrolAlready => disk.bio.by = ks.rec ]_vars
=============================================================================
