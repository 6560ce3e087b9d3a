# Pitak: formal models and proofs

Pitak is an offline-first library catalogue (Flutter) with an encrypted borrowers
vault (Rust), backups, and publishing of the catalogue to a static site. This
directory models the parts of it that are hard to test: what happens between two
awaits, between two file operations, and between two processes of the same phone.

Paths below are relative to `src/`; `vault/`, `backup/`, `publish/`, `library/`,
`network/` stand for `lib/features/<name>/`.

## 1. The system

The Dart code runs on one isolate. A method runs without interruption from one
`await` to the next, and everything else may run in between: another call, a lock,
a provider rebuild. Native work (the Rust core, the Keystore) that was already
sent is not called back when the session that asked for it ends. Two FIFO queues
(`core/async/serial_op_queue.dart`) order most of it: one for the vault, one for
publishing.

| Component | State it keeps | Operations | Correct when |
|---|---|---|---|
| Rust vault core (`rust/src`) | none between calls; the database file, with its two tables and its write lock | create, read, five one-statement writes, the delete of a borrower, re-wrap, biometric wrap | a call happens whole or not at all; a blob handed out opens the vault; no loan without its borrower; an id names one row |
| Vault session (`vault/application/vault_session_controller.dart`, `vault_secret_keeper.dart`) | held secret and its blob, generation, lifetime, rows shown | enable, unlock, change, enrol, biometric unlock, disable, row writes, protectReplacement, lock | a lock sticks; secrets have one owner; the held secret opens the vault; what is shown is what is stored |
| Vault store (`vault/infrastructure/vault_store.dart`) | `borrowers.db`, two key blobs | atomic blob writes, orphan removal, copying into a new data set | no blob without its database, and no way to get stuck on an orphan |
| Biometric secret vault (Dart and Kotlin) | Keystore key, sealed record | store (with prompt), read, clear | the sealed secret opens the blob beside it |
| Lending (`vault/application/lend_book_use_case.dart`, `insert_loan_with_policy.dart`) | rows of the vault | lend, return, delete borrower | no more copies out than there are; limits hold; no loan without a borrower |
| Catalogue hard delete (`library/application/delete_catalogue_item_use_case.dart`) | catalogue row | purge loans, delete row | no loan of a deleted book |
| Data generations (`core/storage/data_generations.dart`) | generation directories, `CURRENT` | open, beginNext, complete, activate, discard | one whole data set at any time, old or new |
| Restore (`backup/infrastructure/restore_backup.dart`, `backup/application/restore_controller.dart`) | the generation being built | build, lease check, switch, adopt identity and network | all or nothing; the session it ran in is over |
| Backup writer | none | read everything into an archive | reads one consistent state |
| Catalogue ids guard (`publish/.../catalogue_keys_reset.dart`) | publishing records | reset before item ids change meaning | no record claims keys of the old ids |
| Availability lane (`publish/.../availability_*.dart`) | pending set, published set, retry state, timer | update, publish, resume, replace | the site shows the newest set in the end; a removed site file stays removed; old ids never reach a new catalogue |
| GitHub commit with its upload journal (`publish/.../resumable_upload_github_api.dart`, `http_github_commit.dart`) | stored blobs, pause and refusals on disk; working copy and unsaved blobs in memory | one request per new file, then tree, commit and branch; save every 20 blobs; pause, resume, forget | a publish larger than the hourly limit gets there in the end; `commitFiles` sends nothing while GitHub asks for silence and the journal knows it (the reads before it are sent all the same) |
| GitHub and Cloudflare publishing, site move, events | manifests, unconfirmed attempts, pending move | publish, verify, move, retire | a lost answer is resolved before anything is sent again |
| Network refresh (`network/`) | cached files of other libraries, move notices | refresh, reconcile | a cached file and its entity tag belong together |
| Import, export, merge | database rows | reconcile in one transaction | each row is matched once |
| Catalogue, covers, periodicals, wishlist, lookup, settings, app lock, update check, pages | rows and preferences | edits | sequential; unit tests reach it |

How they interact: lending and the hard delete call the vault session, whose rows
they read from the state it shows. A restore runs inside the vault queue
(`protectReplacement`), waits there for the publish queue (`beforeIdsChange`), and
switches the data generation; the switch republishes the store provider, which the
session watches and therefore rebuilds. The availability lane listens to the loan
counts of the session and to the catalogue.

## 2. What is modelled

| Module | Models | Checked by |
|---|---|---|
| `VaultRows` | the rows of the vault, the SQL statements on them, the fields the FFI refuses, how errors are mapped | through `VaultCore` |
| `AtomicVault` | the promise of the core: a call takes effect in one step, or changes nothing and says why | as a property of `VaultCore` |
| `VaultCore` | the ten commands of the Rust core as tasks that overlap, one step per access to the file | `VaultCore` |
| `VaultRows_proofs`, `VaultCore_proofs`, `VaultAtomic_proofs` | theorems about them | tlapm |
| `VaultSession` | session controller, secret keeper, queue, vault store, the core's create/open/re-wrap/write, the Keystore, restore as seen by the session | `VaultSession`, `VaultBiometric`, `VaultEnrolment` |
| `VaultSession_proofs` | theorems about it | tlapm |
| `AtomicRestore` | the promise of the data generations: one data set, replaced in one step or not at all | as a property of `Generations` |
| `DataGenerations` | the directories, the marker, the pointer, start-up, clean-up and a restore, one step per file operation | `Generations`, `GenerationsUnreadable`, `GenerationsPower` |
| `DataGenerations_proofs` | theorems about it | tlapm |
| `Lending` | the lend flow, returns, borrower deletion and hard delete over a session reduced to rows, generation and queue | `Lending`, `LendingDelete` |
| `Lending_proofs` | theorems about it | tlapm |
| `AvailabilityLane` | the notifier that reads the lane's inputs, the lane with its remembered sets, the publish queue with catalogue publishes and the ids guard, the GitHub site and this phone's record of it | `Availability`, `AvailabilityShown` |
| `AvailabilityLane_proofs` | theorems about it | tlapm |
| `UploadJournal` | one GitHub commit request by request, the journal that lets the next attempt go on, the pause, GitHub's window and its clean-up | `UploadJournal` |
| `UploadJournal_proofs` | theorems about it | tlapm |

### VaultRows, VaultCore and AtomicVault

`VaultRows` has no state. A borrower row is its name; a loan row is its borrower and
whether `returned_date` is set: no statement looks at anything else. A statement is a
function from rows to rows and an error (`InsertLoan`, `UpdateLoan`, ...); `Enforced` is
the foreign key. `lastBorrower` and `lastLoan` are SQLite's `sqlite_sequence`. The
records of the `...Args` definitions are what the wire functions of `frb_generated.rs`
decode, and `ValidBorrower` and `ValidLoan` are the checks before any key is made.
`Mapped` is the `map_*_err` functions of `api.rs`.

In `VaultCore` the core keeps nothing between calls, so the state is the file (is it
there, its key, its tables), the committed rows `db`, SQLite's write `lock`, the blobs
that callers keep, and `task`, a thread of the FFI's pool for each call in flight.
`Call...` is a command up to its first access to the file: argument checks, parsing the
blob, unwrapping the key. `OpenAndKey` is `open_and_key` with its decrypt check, which an
empty file passes with any key. Then come `ReadBorrowers` and `ReadLoans`, or `Statement`,
or the steps of the delete transaction from `Begin` to `Commit`, which work on the copy
`rows` of their task until the commit. A create goes through `CheckExists`, `Connect`,
`CreateTable` (twice), and `Wrap`; an error after `CheckExists` goes through `CleanUp`,
which may itself fail. `Fault` and `MakingFault` are failing files and a lock that is
not granted in time, `Crash` a process death at any step, `DiscardOrphan` the app's
removal of a database it has no blob of.

`Alone` names the operations that no other call overlaps. The app puts all calls of a
vault into one FIFO queue, so there it is all of `Ops`. The core relies on much less:
`create_vault` alone for all but one property, and reads alone for `ReadIsSnapshot`. The
module is checked and proved with that smaller set, so the results hold for any caller
that keeps to it, and also while the app's queue lets calls of a dead session finish.

`AtomicVault` knows no file, no lock and no key: `there`, `rows`, `owned` (somebody holds
a blob) and what each call asks for and is answered. `Write` is the one step in which a
write happens or is refused for what the rows are; `Answer` is a refusal for another
reason, which changes nothing. `Forget` is allowed only when nobody owns the vault.
`CallsAreAtomic` maps a task to its atomic call with `Abstracted`.

### VaultSession

`disk` is the vault directory: the database (the key it is encrypted with and a
revision that every write raises), the passphrase blob and the biometric blob. A blob
is a key wrapped under a secret; it opens under that secret only. `keeper`, `live` and
`pending` are `VaultSecretKeeper`: what is held, which secret buffers are not wiped, and
which wait in the list that a lock wipes. A buffer is named by the call that owns it.
`sess` and `view` are the published state and the revision of the rows it shows.
`phase`, `store` and `epoch` follow the provider: a restore raises `epoch` and makes the
provider dirty; `Dispose`, `Build` and `Built` are its rebuild.

`queue` holds the calls not finished, with the generation each was called in. `pc` and
`run` are the place and the locals of the head; every label is an `await`. An action is
the code from one await to the next, with the check of the generation where the code
has it. The operations are `StartEnable` to `Created` (enable), `StartUnlock` and
`Loaded`, `StartChange` and `Rewrapped`, `StartMutate` to `Reread`, `StartEnrol` to
`EnrolStored`, `StartBioUnlock` to `BioRead`, `StartDisable`, the two steps of
`clear()`, and `StartRestoreVault`/`StartRestoreKeep` to `Released`. A failing core
call, file or Keystore call is a disjunct that a run turns on with `Faults`.

### DataGenerations

`gens` maps a directory number to its files, its marker, what has been removed of it
and what is not flushed yet; `current` and `tmp` are the pointer and its temporary
file; `flat` is the layout of versions before generations. `pc` walks through `open`,
a restore and the clean-up; each action is one file operation. `Crash` loses the
memory; `PowerLoss` also tears the contents that were not flushed.
`AtomicRestore` is the abstract specification: `data` is the one data set and
`offer` the set a restore has built, if any; the mapping takes the data the pointer
names. `SwitchIsAtomic` is `Promise!Spec`.

### Lending

A flow is a thing the user started, with the values it captured before its awaits
(`snap` are the loans the lend page read). The vault is the rows in `db`, the rows
shown in `view`, the generation and the queue; the steps of the head are those of
`_mutate`, of `insertLoanWithPolicy` and of the core. `Edit` is another page changing
the book or the lending rules at any time.

### AvailabilityLane

The library is one book. Its id is raised by a restore, so that the same key names
another book; a published set is "out or not", tagged with the library its book was
read from. The code cannot see the tag and compares the rest (`SameKeys`).

`input` is the notifier (`availability_auto_publisher.dart`): a queue of notices, each
read (`ReadInputs`, `InputsRead`) and applied as one step of the lane. `late` are the
items that a read begun before a restore may still bring after the switch: they replace
the items, and the mark the restore had set is gone, until the library controller
publishes the restored list (`LibraryNotified`). `steps` is the
lane's step queue; `StepStart`, `StepUpdate`, `StepReplaced`, `StepResumed`,
`StepSitePublished`, `StepNow` and `StepFollowUp` are its bodies. A step that computes
a set waits for its keys in the publish queue (`AskKeys`, `KeysMade`) and goes on with
the loans and items it took before the wait; without keys (`NoKeys`) `publishNow` goes on
with the set that is pending, if any. `mem` and `store` are the remembered sets
and their saved copy; `Remember` is `_save`, which changes memory also when saving
fails. `TimerFires` is `_run` up to its turn in the queue: what is sent is decided
there. `Written`, `Removed`, `StaleRemoved`, `Refused` and `Postponed` are the outcomes.

`pubq` is the publish queue: `LaneBegins` and `CatalogueBegins` read the site, reconcile
the record and plan a commit; `Lands` moves the branch if it is still where it was read;
then the answer arrives and the record is saved (`Accepted`), or not. `ResetKeys` and
`SwitchLibrary` are the turn of a restore. A publish that was accepted counts as live:
the deferred proof only changes "going live" into "up to date".

`outlived` is a history variable: no guard reads it. It records that the lane was told
of a restore while it was off, or could not write its store, and kept a set of the old
ids (`SetsOutlive`). `TagsOfThisLibrary` excepts what follows from such a set; see the
disagreements below.

### UploadJournal

`run` are the locals of `commitFiles` in the decorator and in the writer below it:
`files` the tree will name, those still to `send`, those `held` for an earlier attempt,
the journal it is `working` on, the `pending` blobs not yet in it. `disk` is the journal
file. An attempt has its files (`Begin`), then the use case reads the Pages site, the head
of the branch and its tree (`Look`, `pc` "look"). These reads come before `commitFiles`:
they are sent in a pause too, and one that is refused or lost ends the attempt without a
word to the journal (`LookFails`). Inside `commitFiles` `pc` goes over the read of the
journal and the pause (`Resume`), the comparison of the head (`CheckHead`), a request per file
(`SendBlob`), the tree and the commit to the move of the branch (`MoveRef`). Each request
from the comparison on (`Requests`) may be refused (`RateLimited`) or lost, before it arrives or after
(`Dropped`); `Unprocessable` is the answer 422. `Persist` is a save, which may fail.

`gh` is what the code assumes of GitHub: a number of content requests per window, how
long it wants silence after a refusal (`wait`), the blobs it has stored, those any commit
has named (`history`), which it never collects, and those it has thrown away. A cover
keeps its sha; the page of a publish carries a time, so it is new in every attempt and
junk in the journal after it. `Without` is `removeWhere`, written as a recursive
function: the proofs reason about it, and tlapm has no facts about `SelectSeq`.
`BeginOther` is a commit of another flow, which goes
through the same journal and ends its pause when it lands.

## 3. Runs

Passing:

| Run | Properties beside `TypeOK` | Bounds |
|---|---|---|
| `VaultCore` | `LoansHaveBorrowers`, `EveryBlobOpens`, `ReadIsSnapshot`, `IdsNameOneRow`, `CallsAreAtomic` | 2 calls in flight, 2 secrets, 1 key of this vault and a foreign one, 1 name, row ids up to 2 |
| `VaultSession` | `BlobsMatchDatabase`, `HeldOpensVault`, `SecretsOwned`, `ViewCurrent`, `CreateFindsNoFile`, `StoreIsActive`, `LockSticks`, `VaultKept`, `SwitchMeetsNoOther` | 3 calls out of enable, unlock, change, write, enrol and both restores, 2 passphrases and one too short, all faults, sessions up to generation 2, phones with nothing installed or enrolled |
| `VaultBiometric` | `BioPairMatches`, `HeldOpensVault`, `SecretsOwned`, `CallsReturn` | 4 calls, 1 passphrase, enrolled and legacy devices, generation up to 2 |
| `Generations` | `ServesCurrent`, `NoSecondCopy`, `SwitchIsAtomic` | 3 leaves (catalogue, vault, covers), 2 restores, 3 directories |
| `Lending` | `RowsAreShown`, `LoansHaveBorrowers`, `CopiesKept`, `LimitKept`, `ActiveLoansStay` | 3 flows, 1 edit, 1 lock, books of 0 or 2 copies, limit 1 |
| `UploadJournal` | `JournalIsExact`, `SilentWhileAsked`, `Publishes` | 3 covers and a page, 4 content requests per window of 2 units, saves every 2 blobs, a journal of 5, 2 faults or other commits of ten kinds |
| `Availability` | `TagsOfThisLibrary`, `QuietIsOff`, `InputsAreNewest`, `QuietIsNewest`, `Settles` | 3 moves of the user and faults in all, each kind of fault at most once, a book of 1 or 2 copies |

Why these bounds are enough to be interesting: two overlapping calls of the core are a
writer against a reader, a deleting transaction, another writer, or a create against a
blob that is already out; two ids are a row that is deleted and the one inserted after
it. three calls in the vault queue are one
that runs, one that waits across a lock and one that is called after it; the second
generation is the session unlocked again after a lock. Two restores and three
directories are the live set, the one being built, and the leftover of an earlier
attempt. Three lending flows are two lends that race and one call that changes what
they decided on; a book of no copies counts as one copy, a book of two lets one loan
pass and not two. Three moves or faults let a loan change while a publish of the set
before it runs and something fail; the lane's own steps are not bounded. What
three moves cannot reach, as a set that outlives a restore, the proofs cover.
In `Availability` nothing is published and the process does not die between a restore's
reset and the moment the lane has taken notice of it (`Overlaps` is empty): see below.

In `UploadJournal` a publish needs seven requests where a window accepts four, so none
gets there without what the journal kept; attempts, refusals and the time that passes are
not bounded.

Symmetry is used over passphrases, calls, names and leaves, which the models only compare, and in
no run that checks liveness.

Violations, each the code against its own comment (see `findings` in `PROJECT.json`):

| Run | Shows |
|---|---|
| `VaultEnrolment` | a process death inside an enrolment over an old blob leaves a secret and a blob that do not belong together; the next enrolment reports success and changes nothing |
| `GenerationsUnreadable` | an interrupted recursive delete leaves the `COMPLETE` marker; recovery without a readable `CURRENT` prefers that directory |
| `GenerationsPower` | the copy of the vault database and the covers are written without a flush before the switch (the key blobs are flushed) |
| `LendingDelete` | a lend in flight records a loan of a book that is being hard-deleted |
| `AvailabilityShown` | with the vault locked, a switch back on while the removal runs leaves the lane saying "up to date" after the file is gone |

Disagreements that were met and have no run of their own:

`purgeLoansForBook` may fail
after it has deleted some of the loans, and returns without reading the vault again,
while `delete_catalogue_item_use_case.dart:82-83` says that a purge failure "leaves
everything intact". `RowsAreShown` is therefore stated with "at least the loans there
are": the page may show loans that are gone, never the opposite, which is the direction
the lending gates need.

`api.rs:417` says of `VaultCreateError::VaultOpen` "SQLCipher keying/schema failed". A
failing schema is a `VaultError::Open` (`vault.rs:116-117`), which `map_vault_err_create`
turns into `AlreadyExists` (`api.rs:571`): the user of a full disk is told that the path
is taken. A key derivation that fails in an unlock becomes `Corrupt`, documented as "Blob
malformed / archive corrupt" (`api.rs:105`, 43). `validate_text` counts the characters of
the trimmed text (`api.rs:176`) and the text is stored untrimmed. `Mapped` and
`ValidBorrower` follow the code in all three.

`availability_lane.dart:188-203` forgets the sets of the old ids in a restore only while
the lane is on, and keeps going when its store cannot be written. A set that waits to be
sent is kept when the switch was put off before the restore. Put on again with the vault
locked, the lane schedules that set as it is, a catalogue publish of the new library
gives the record keys, and the set of the old library goes out beside the new catalogue.
`catalogue_keys_reset.dart:84-85` says that a running lane "forgets the sets it holds in
memory (they were computed from the old ids)". This takes five moves of the user, more than the run explores; it came
up when the invariant of `TagsOfThisLibrary` could not be made inductive. `outlived`
marks such a history, and the property is stated for all the others.

`catalogue_keys_reset.dart:84-86` says that a running lane forgets its sets before any
later publish can start. The notice of the change is queued, not awaited. A publish
asked for in between can send a set of the old ids over the new catalogue, and a
process that dies in between can find such a set saved by a step that ran after the
reset. TLC finds both as violations of `TagsOfThisLibrary`: with
`Overlaps = {"publish"}`, and with `Overlaps = {"crash"}` and `MaxEvents = 4`.

`availability_lane_outcomes.dart:59` says that connecting a host and ending a move are
triggers. No listener of `availability_auto_publisher.dart` is one: the lane goes on
at the next loan, edit, resume or publish. `QuietIsNewest` and `QuietIsOff` therefore
allow a lane that says it is not ready.

A catalogue publish writes a set of its own and does not tell the lane. A book lent
and returned while it runs leaves the middle state on the site until the set changes
again. `QuietIsNewest` is about the set the lane remembers.

`restore_backup.dart:328-330` says of the lease that "a lock/disposal during the build
must not be followed by a switch that reports success for a session that ended". After
the check the code awaits `activate` (333), which waits for its turn in the publish queue,
and nothing looks at the lease again: a lock in that wait is followed by the switch and a
success. `[][Switch => Fresh]_vars` is violated in four steps of `VaultSession`. What
does hold is `SwitchMeetsNoOther`.

`resumable_upload_github_api.dart:25-27` says that a 422 "for a tree that named
remembered blobs" forgets them. The code (167) looks at the status only, whichever
request it answers. A branch that another writer moved between the read and the move is
refused too, with a status the writer calls "GitHub's side"
(`http_github_commit.dart:215-221`): if it is a 422, the blobs are all there and are
forgotten, and a publish of several hours starts over. `MoveRef` allows both answers;
`Publishes` holds because others move the branch only now and then.

`publish_availability_use_case.dart:259-260` says of a rate-limited commit that the lane
"tries again later, and until the pause ends that try sends nothing". The pause is looked at
in `commitFiles` alone. Every try first reads the Pages site, the head of the branch and,
unless the head is the recorded one, the tree (134-153; `publish_library_use_case.dart:236-255`),
in a pause as well. A 403 or 429 to one of these reads is a `GitHubApiException` like any other
(`github_publication_reconciler.dart:91`, 121): no refusal is counted and no pause saved, so a
pause that GitHub makes longer there is not known to the next `commitFiles`. `Look` and
`LookFails` are these reads; `SilentWhileAsked` and `SilenceHolds` speak of the requests of
`commitFiles` only, and except (`missed`) what follows from a refused read.

`github_upload_journal.dart:12-14` says that "each attempt gets further". The journal
forgets its oldest blobs beyond `maxBlobs` (315-324), also those of the publish under way.
When the new files and the pages of two attempts do not fit into it, each attempt can
make it forget what the next one has to send again, and TLC finds `Publishes` violated
(`MaxBlobs = 4`).

### Fairness

`FairSpec` assumes weak fairness of what the app does by itself (`Runs`, or `Vault` and
the flow steps): an await completes, the event loop takes its turn, the scheduler
rebuilds a dirty provider. A biometric prompt is answered or dismissed by the system.
Nothing is assumed of the user, of `lock()`, of crashes or of failures. `VaultBiometric`
(for `CallsReturn`), `UploadJournal` (for `Publishes`), `Availability` (for `Settles`) and most violations use `FairSpec`;
the other safety runs do not need it.

The `FairSpec` of `UploadJournal` assumes that an attempt that was started goes on and
that time passes. That somebody publishes is not assumed: it is the premise of
`Publishes`, together with the bound on faults. The pause may be running when an attempt
starts, and the attempt then ends after its reads, before `commitFiles` sends anything.

The `FairSpec` of `AvailabilityLane` has one condition each for the notifier, the lane's
steps, the timer, the outcomes, the publish queue and the end of a replaced session:
each is a chain of its own of awaited futures on the event loop, or a timer that fires.
`Settles` says that retries and follow-ups come to rest after the last move and fault.
Each kind of fault happens at most once, so it says nothing of a network that stays
down: there the lane goes on retrying on its backoff, as it should.

## 4. Proofs

### The Rust vault core

For every set of calls, secrets, keys and names and every largest row id:

| Theorem | Statement |
|---|---|
| `StatementIsSound` (`VaultRows_proofs`) | each statement keeps the rows typed and each loan with its borrower, and gives new rows new ids |
| `Inductive` (`VaultCore_proofs`) | the inductive invariant `IInv` |
| `TypesHold`, `LoansKeepBorrowers`, `BlobsOpen`, `IdsAreForGood` | `TypeOK`, `LoansHaveBorrowers`, `EveryBlobOpens`, `IdsNameOneRow` |
| `ReadsAreSnapshots` | `ReadIsSnapshot`, if no call overlaps a read |
| `CoreIsAtomic` (`VaultAtomic_proofs`) | `CallsAreAtomic`: the core implements `AtomicVault` |

The assumptions are `RowsAssumption` and `CoreAssumption`: the constants are what their
names say, and `create_vault` is in `Alone`. It is needed: `exists()` and the clean-up of
a failed create are two steps, so of two creates that overlap, one can remove the
database the other has handed out the blob of.

None of the properties is inductive. `IInv` says what each place in a task knows. A call
past its key came with a blob, so the file is the whole vault of that key, or the key is
a foreign one and opens nothing but a file without tables (`KeyKnown`). A create past its
check runs alone, and nobody holds a blob or is about to be answered one (`Cleared`), so
neither its clean-up nor `DiscardOrphan` costs anybody a vault. A delete inside its
transaction holds the lock, its copy of the rows is exactly what its step says of the
committed ones, and it found the borrower without active loans (`Copies`). Tables that
are not all there are empty (`FileFits`). TLC checked `IInv` as an invariant before it
was proved. The proof has a lemma for each action; most of them rest on `TaskStep`,
which says when a step that leaves the file alone keeps the places of all other calls
(`OthersStay`).

`CoreIsAtomic` uses `IInv` to show that each step is one of the atomic call or a stutter:
a write is its one statement or the commit of its transaction, a create its second
table. The refusals of a delete need `Copies`: they are decided on the rows of the copy,
and the promise speaks of the committed rows.

### The data generations

`DataGenerations_proofs` proves, for every set of leaves and every bound:

| Theorem | Statement |
|---|---|
| `TypesHold` | type correctness |
| `SwitchAtomic` | `SwitchIsAtomic`: start-up, recovery, restore and clean-up implement `AtomicRestore` |
| `MemoryIsCurrent` | `ServesCurrent`: what the running app serves is what the pointer names, whole |
| `NoCopyLingers` | `NoSecondCopy` |
| `SwitchInvHolds` | the inductive invariant `SwitchInv` the others rest on |

The assumptions are `GenerationsAssumption` (the constants are what their names say) and
`Gentle`: the pointer can be read, and if power may be lost, contents are flushed. The
two violations show that neither can be dropped.

`SwitchIsAtomic` is not inductive: that the pointer is switched to a finished set needs
to know that the builder is a directory of its own, that it holds exactly the planned
files by the time it is marked, that the temporary pointer is a copy of the target, and
that what the clean-up removes is never the current directory. Before the first pointer
is written, the flat layout and the first directory together hold the one data set
(`FlatIsCovered`). `SwitchInv` names these parts. The proof has one lemma for each
action that changes the directories (`AdoptKeeps`, `MoveKeeps`, `FillKeeps`,
`CompleteKeeps`, ...), a typing lemma for each group of actions, and one lemma per group
that maps a step to a step or a stutter of `AtomicRestore`.

### Lending

`Lending_proofs` proves every property of the run `Lending` for any catalogue, copy
counts, limits and number of flows:

| Theorem | Statement |
|---|---|
| `TypesHold` | type correctness |
| `ShownHolds` | `RowsAreShown` |
| `BorrowersHold` | `LoansHaveBorrowers` |
| `CopiesHold`, `LimitHolds` | `CopiesKept`, `LimitKept`: the two gates of a lend |
| `ActiveLoansHold` | `ActiveLoansStay` |

The assumptions are `LendingAssumption` and `NoneIsNoRows`: the constants are what their
names say. `CopiesKept` speaks of the insert, but the gate decided some steps before, on
the rows shown and not on those of the database. `IInv` closes the gap in three parts. A
flow waits for exactly one call, and a call of the running generation finds rows shown
(`OneCallEach`, `ShownToCalls`). Past its start the head is a call of the running
generation, or a lock hid the rows (`HeadInv`), so the gate sees every loan there is
(`RowsAreShown`), and fewer loans are no more copies out (`FewerLoans`). Between the gate
and the insert nothing else writes rows or what the gate read, so its decision still holds
(`PastGate`). `FlowKeeps` shows that what the user starts meanwhile disturbs none of it;
one lemma per step of the head follows.

### The vault session

`VaultSession_proofs` proves every property of the run `VaultSession` for any set of
passphrases, faults, operations and bounds:

| Theorem | Statement |
|---|---|
| `TypesHold` | type correctness |
| `BlobsMatch`, `CreateFindsNone`, `VaultIsKept` | `BlobsMatchDatabase`, `CreateFindsNoFile`, `VaultKept`: the files |
| `HeldOpens`, `OwnersHold`, `LockHolds` | `HeldOpensVault`, `SecretsOwned`, `LockSticks`: the held secret |
| `StoreHolds`, `SwitchMeets` | `StoreIsActive`, `SwitchMeetsNoOther`: the data set |
| `ViewHolds` | `ViewCurrent`: the page |

The assumptions are `ConstantsAssumption` and `NoneIsNoFile`. One invariant, `IInv`,
carries all ten, because none of the state properties is inductive alone:

- `QueueInv`: each call has its own id, is of a generation that was, and has the
  passphrase it brought tracked for as long as its session lasts; no call in the queue
  owns the held buffer. So a call that returns wipes its own secret and no other. A
  call of the current generation excludes a disposed keeper: without that clause
  `Build` would let a call of the old provider take a secret in the new one.
- `HeadInv`: while a call runs, a held secret is one of its own session. A lock may take
  the secret away, but only the head could take another, and its generation is gone by
  then. `SwitchMeetsNoOther` is one case of it.
- `DiskInv`: what each label knows of the files (`Place`). No database lies where
  `create` runs; no blob lies beside the new database until `created`; what was read
  before the await still opens the file at `rewrap`, `write` and `wrapBio`. That this
  still holds after the await is the point: only the head writes the files.
- `ProviderInv`: a ready provider serves the active data set, and the head works on it
  until it has itself switched.
- `ViewInv`: the page shows the rows of the database, or the head has written one and
  is about to read them again.

There is one lemma per action (`<Action>Keeps`), over a few that say what each way to
end or to go on preserves (`FinishKeeps`, `ForgettingKeeps`, `HoldingKeeps`, `GoesOn`).
`VaultKept` and `LockSticks` are about steps: `StepKeepsVault` and `StepTakesInSession`
go through the actions once more under `IInv`.

`BioPairHolds` proves `BioPairMatches`, the one state property of the run
`VaultBiometric` that is not above, without the faults `crash` and `keystore`. Both
hypotheses are needed: `VaultEnrolment` shows what a process death leaves, and a
Keystore clear that fails leaves a new record beside an old blob. Its invariant
`PairInv` says where the pair is in between: record and blob match except from the
write of a new record to the write of its blob, or to the clear that undoes it, and
what is about to be saved then is sealed under the secret of this very call. It is
proved on top of `IInv`, which says whose call that is.

### The upload journal

From `JournalAssumption`, for every quota, window, pause, cap, set of covers and budget
of faults:

| Theorem | Statement |
|---|---|
| `TypesHold` | type correctness, and the cap of the journal |
| `SilenceHolds` | `SilentWhileAsked`: `commitFiles` sends nothing in a silence the journal knows of |
| `PauseHolds` | the inductive invariant `IInv` behind it |
| `JournalIsConfirmed` | the journal names no blob GitHub has not confirmed: the first half of `JournalIsExact` |
| `JournalHolds` | `JournalIsExact`, if `Roomy` |
| `SkipsHold` | `SkipsKnown`: a file left out of the sends is one GitHub was given, so an attempt asks for a tree only of blobs that GitHub has or had |

`SilentWhileAsked` speaks of the attempt inside `commitFiles`, not of the reads before it;
the invariant `IInv` speaks of the two journals. Until a refusal was missed, the pause
on disk is at least what GitHub still asks for (`PauseKept`), which a refusal
establishes because the pause is at least the hint and at least one unit
(`PauseCoversHint`), and which time keeps because both run down together. An attempt
that sends has no pause on disk nor in the copy it works on (`NoPauseWhileSending`), so
storing blobs, forgetting them and landing cannot shorten one.

What is remembered needs another invariant, `HeldInv`. Every blob in the journal on disk,
in the working copy or pending is one GitHub has or had (`Knows`), whatever is damaged or
collected; the copy names nothing that is still to be sent; and, if `Roomy`, what the
attempt has sent is exactly the newest end of its copy, up to what is pending
(`EndsWith`). That last part is why storing more does not lose what was stored before:
`_pruned` drops from the other end. `Roomy` says that the covers and the page of one site
fit into `MaxBlobs` (20000 in the code). Without it `_pruned` may drop what the same
attempt has just stored, and `JournalIsExact` is false: TLC finds it with `MaxBlobs = 2`.
TLC checked `HeldInv` with caps of 2, 4 and 5, and `SkipsKnown` with the bounds of the run.

`Without` is the one recursive definition that is reasoned about. The induction theorems
of the library cannot be used (they take an operator as a parameter), but `WFMin` can: it
gives a shortest sequence for which the description of `Without` fails, and from it a
shorter one (`DroppingExists`, `Dropping`). `DistinctFit` counts a sequence without
repetitions against the set it names in the same way.

### The availability lane

From `LaneAssumption` and `NoneIsNothing` (the constants are what their names say), for
any number of moves and any set of faults:

| Theorem | Statement |
|---|---|
| `TypesHold` | type correctness |
| `InputsNewest` | `InputsAreNewest` |
| `QuietNewest`, `QuietOff` | `QuietIsNewest`, `QuietIsOff` |
| `TagsHold` | `TagsOfThisLibrary`, if `Overlaps = {}` |

`LaneInv` says what the two queues know of the actor at their head: nobody waits twice in
the publish queue and its head fits the turn (`TurnsInv`), the lane's queue holds at most
one notice, the oldest of the notifier's (`ToldInv`), and the lane runs exactly while its
publish does (`RunInv`). `InputsInv` adds what the last notice in the queue will tell the
lane, and that the items the notifier holds are those of now unless marked stale or about
to be. `LateInv` says of items of before a restore that are still being read that the word
of the restore is behind them in the queue and the change of the catalogue still to come.

`QuietIsNewest` and `QuietIsOff` are about a state of rest, reached on many ways.
`WorkInv` is what makes them inductive: with a set to send or a file to remove, the lane
is armed, running, about to look again, or says that it waits. `NewestInv` says of the
remembered sets that once the inputs are known a pending set is the one of now, and that
with none pending the published one is, with no older one on its way. For `QuietIsOff`
the record names the file on the site as long as nothing failed, except between a commit
and its answer (`RecordInv`).

`TagsHold` follows an id through everything that holds one: the items the notifier read
and the lane was told (`IdsInv`), the sets to send in memory and in the store (`SetsInv`),
the publish on its way (`SentInv`), the record that may be built upon (`KeyedInv`), and
the file (`FilesInv`). Between the reset of a restore and the lane's word of it the old
ids are still there; what keeps them off the site is that no record is keyed and no
catalogue publish comes behind the restore (`QueueOrder`). `Overlaps` lets exactly that
happen, and TLC shows that the property is then false.

### What is only model-checked

Every invariant and every step property of a passing run is stated by a theorem. What
stays with TLC:

- Liveness: `CallsReturn`, `Publishes` and `Settles`. The temporal prover has no rule for
  fairness, whose meaning is `ENABLED`, and each of the three needs a measure over several
  actors that goes down.
- What is false: the five violations, on the smallest instance that shows them.

## 5. What is left out

- Cryptography, file formats, row contents: a blob opens under its secret, a row is a
  name. Argon2 parameters, AES-GCM and the archive format are covered by the Rust tests.
- Waiting times. A timer may fire at any moment after it was set. The pacing of the
  lane, its hourly budget and the backoff are therefore an armed timer, and the minute
  a set was computed in is left out: a file with the same keys may or may not be the
  same file.
- In the lane: the Cloudflare half with its unconfirmed attempts, deferred proofs, the
  check of an unconfirmed commit before the next, the one-time notice.
- In the lane: an unlock between the switch of a restore and the moment the items of before
  have been replaced or marked again (`OldItems`). The old database answers in
  milliseconds, and the controller reads the restored list right after the switch; an
  unlock derives a key first. If an unlock did come between, old items
  with new loans would reach the lane: without the guard TLC finds `TagsOfThisLibrary`
  violated (moves lock, publish and restore, `MaxEvents = 5`). An edit loses no mark: one connection answers in
  order, so the answer to a read begun before it arrives before the change is announced.
- In the upload journal: other repositories (their blobs are kept apart), the pacing of
  one request a second, a clock that moves back. Pages of earlier attempts count as one
  entry of the journal: a few per attempt age out after a week, long before they fill it.
- In the Rust core: SQLite itself. It is taken to give what the code asks of it: a
  rollback journal that leaves no trace of an unfinished transaction, one writer, and
  a foreign key checked when a connection has switched it on.
- Everything `PROJECT.json` lists as `not_modelled`, with the reason.

## 6. Plan

In order of what the app would lose:

1. `AvailabilityLane`: the Cloudflare host, and an abstract specification ("the site
   shows a set of the current library, or none") that the lane implements,
   with the mapping proved step by step on top of `TagsInv`.
2. The unconfirmed attempts of both hosts: a lost answer is resolved before anything is
   sent again.
3. Site move and the publishing record after a restore; network refresh and its cache;
   merge reconciliation as a pure operator against a reference definition.
