------------------------------ MODULE VaultCore ------------------------------
(***************************************************************************)
(* The Rust vault core: rust/src/api.rs over vault.rs and crypto.rs, as    *)
(* called through the FFI (rust/src/frb_generated.rs).                     *)
(*                                                                         *)
(* The core keeps nothing between calls. A call is a task of the thread    *)
(* pool that the FFI handler runs it on: it checks its arguments, unwraps  *)
(* the key from the blob, opens the database file and works on it, one     *)
(* action per step at which the file is read or written. Tasks overlap,    *)
(* but an operation of Alone never runs beside another call: the app puts  *)
(* every call of a vault through one queue, and the core by itself only    *)
(* relies on create_vault being alone.                                     *)
(*                                                                         *)
(* Outside src/, and modelled from its use: SQLite (a rollback journal, so *)
(* an unfinished transaction leaves no trace; one writer; a wait for it    *)
(* that may time out) and AES-GCM (a blob opens under its own secret).     *)
(***************************************************************************)
EXTENDS VaultRows, FiniteSets

CONSTANTS
    Calls,      \* calls that may be in flight
    Secrets,    \* passphrases and biometric secrets
    Keys,       \* vault keys
    Foreign,    \* the key of another vault
    Damaged,    \* a blob that does not parse
    Alone       \* operations that no other call overlaps

VARIABLES
    file,       \* the database file: is it there, its key, its tables
    db,         \* the committed rows
    lock,       \* the call that holds SQLite's write lock
    task,       \* the calls in flight
    blobs       \* the blobs of this vault that callers keep

vars == <<file, db, lock, task, blobs>>

Tables == {"borrowers", "loans"}

\* WrappedBlob: the key it wraps and the secret that opens it.
Blob == [secret : Secrets, key : Keys \cup {Foreign}]

ASSUME CoreAssumption == /\ Alone \subseteq Ops
                         /\ "create_vault" \in Alone
                         /\ Foreign \notin Keys
                         /\ NONE \notin Calls \cup Secrets \cup Keys \cup {Foreign}
                         /\ NONE \notin Rows \cup Blob
                         /\ Damaged \notin Blob

File == [exists : BOOLEAN, key : Keys \cup {NONE}, tables : SUBSET Tables]
Absent == [exists |-> FALSE, key |-> NONE, tables |-> {}]

\* A whole vault under a key. A file with no page yet has no key.
Vault(key) == [exists |-> TRUE, key |-> key, tables |-> Tables]

\* The steps of a call. Those of Locked are inside the transaction of delete_borrower.
Making == {"connect", "schema", "clean"}
Locked == {"lookup", "active", "history", "row", "commit"}
Steps == {"exists", "wrap", "open", "statement", "begin", "borrowers", "loans"}
            \cup Making \cup Locked

Task == [pc     : {"idle", "answer"} \cup Steps,
         ask    : Ask \cup {NONE},
         secret : Secrets \cup {NONE},
         key    : Keys \cup {Foreign, NONE},
         rows   : Rows \cup {NONE},        \* rows read, or not committed yet
         reply  : Replies \cup {NONE},
         blob   : Blob \cup {NONE}]        \* the blob that is answered

Idle == [pc |-> "idle", ask |-> NONE, secret |-> NONE, key |-> NONE,
         rows |-> NONE, reply |-> NONE, blob |-> NONE]

Answered(op, error) == [Idle EXCEPT !.pc = "answer", !.reply = Mapped(op, error)]

Become(c, state) == task' = [task EXCEPT ![c] = state]
Goto(c, pc) == Become(c, [task[c] EXCEPT !.pc = pc])
Op(c) == task[c].ask.op
At(c, pc) == task[c].pc = pc

Init == /\ file = Absent
        /\ db = EmptyRows
        /\ lock = NONE
        /\ task = [c \in Calls |-> Idle]
        /\ blobs = {}

-----------------------------------------------------------------------------
(* Keys and blobs (crypto.rs).                                             *)

\* The blobs a caller may come with: this vault's, another's, a damaged one.
Presented == blobs \cup [secret : Secrets, key : {Foreign}] \cup {Damaged}

\* The key under a secret; the key derivation may fail.
Unwrapped(secret, blob) ==
    IF blob = Damaged THEN {[error |-> "InvalidFormat", key |-> NONE]}
    ELSE {[error |-> "UnwrapKdf", key |-> NONE],
          IF blob.secret = secret THEN [error |-> "none", key |-> blob.key]
                                  ELSE [error |-> "WrongPassphrase", key |-> NONE]}

\* A blob of the key under a secret.
Wrapped(secret, key) ==
    {[error |-> "none", blob |-> [secret |-> secret, key |-> key]],
     [error |-> "WrapKdf", blob |-> NONE],
     [error |-> "Encrypt", blob |-> NONE]}

\* A key from the random generator: not one that a blob wraps.
NewKeys == {k \in Keys : \A b \in blobs : b.key # k}

-----------------------------------------------------------------------------
(* Calls. What a call does before it touches the file is one step.         *)

\* The caller's queue lets the operation start.
Anytime(op) == TRUE
Turn(op) == \A c \in Calls :
                task[c].pc \in Steps => op \notin Alone /\ Op(c) \notin Alone

\* Fields are checked before any key is made.
Refuse(c, op, unfit) ==
    /\ At(c, "idle")
    /\ Turn(op)
    /\ unfit # {}
    /\ Become(c, Answered(op, "Validation"))
    /\ UNCHANGED <<file, db, lock, blobs>>

\* What the FFI decodes for the other commands.
UnlockArgs == [secret : Secrets, blob : Presented]
RewrapArgs == [secret : Secrets, new : Secrets, blob : Presented]
BiometricArgs == [secret : Secrets, blob : Presented]
CreateArgs == [secret : Secrets]

\* The blob is parsed and its key unwrapped, for a caller with any secret and any blob.
Enter(c, op, asks) ==
    /\ At(c, "idle")
    /\ Turn(op)
    /\ \E u \in UNION {Unwrapped(a.secret, a.blob) : a \in UnlockArgs} :
          \/ /\ u.error # "none"
             /\ Become(c, Answered(op, u.error))
          \/ /\ u.error = "none"
             /\ \E ask \in asks :
                    Become(c, [Idle EXCEPT !.pc = "open", !.ask = ask, !.key = u.key])
    /\ UNCHANGED <<file, db, lock, blobs>>

CallInsertBorrower(c) ==
    \/ Refuse(c, "insert_borrower", InsertBorrowerArgs \ FitBorrowers(InsertBorrowerArgs))
    \/ Enter(c, "insert_borrower",
             {Asks("insert_borrower", a.id, BorrowerOf(a.fields)) :
                  a \in FitBorrowers(InsertBorrowerArgs)})

CallUpdateBorrower(c) ==
    \/ Refuse(c, "update_borrower", UpdateBorrowerArgs \ FitBorrowers(UpdateBorrowerArgs))
    \/ Enter(c, "update_borrower",
             {Asks("update_borrower", a.id, BorrowerOf(a.fields)) :
                  a \in FitBorrowers(UpdateBorrowerArgs)})

CallDeleteBorrower(c) ==
    Enter(c, "delete_borrower", {Asks("delete_borrower", a.id, NONE) : a \in DeleteBorrowerArgs})

CallInsertLoan(c) ==
    \/ Refuse(c, "insert_loan", InsertLoanArgs \ FitLoans(InsertLoanArgs))
    \/ Enter(c, "insert_loan",
             {Asks("insert_loan", a.id, LoanOf(a.fields)) : a \in FitLoans(InsertLoanArgs)})

CallUpdateLoan(c) ==
    \/ Refuse(c, "update_loan", UpdateLoanArgs \ FitLoans(UpdateLoanArgs))
    \/ Enter(c, "update_loan",
             {Asks("update_loan", a.id, LoanOf(a.fields)) : a \in FitLoans(UpdateLoanArgs)})

CallDeleteLoan(c) ==
    Enter(c, "delete_loan", {Asks("delete_loan", a.id, NONE) : a \in DeleteLoanArgs})

CallUnlockAndRead(c) ==
    Enter(c, "unlock_and_read_vault", {Plain("unlock_and_read_vault")})

\* A key goes from under a secret to under another: what may be answered. The file is
\* not opened.
Exchange(op, secret, blob, new) ==
    UNION {IF u.error # "none" THEN {Answered(op, u.error)}
           ELSE {[Answered(op, w.error) EXCEPT !.blob = w.blob] : w \in Wrapped(new, u.key)} :
           u \in Unwrapped(secret, blob)}

CallRewrap(c) ==
    /\ At(c, "idle")
    /\ Turn("rewrap_blob")
    /\ \E state \in UNION {Exchange("rewrap_blob", a.secret, a.blob, a.new) : a \in RewrapArgs} :
           Become(c, state)
    /\ UNCHANGED <<file, db, lock, blobs>>

\* The new secret is made here, at random, and goes back with the blob.
CallWrapForBiometric(c) ==
    /\ At(c, "idle")
    /\ Turn("wrap_for_biometric")
    /\ \E new \in Secrets :
          \E state \in UNION {Exchange("wrap_for_biometric", a.secret, a.blob, new) :
                                a \in BiometricArgs} :
             Become(c, state)
    /\ UNCHANGED <<file, db, lock, blobs>>

CallCreate(c) ==
    /\ At(c, "idle")
    /\ Turn("create_vault")
    /\ \E a \in CreateArgs, key \in NewKeys :
          Become(c, [Idle EXCEPT !.pc = "exists", !.ask = Plain("create_vault"),
                                 !.secret = a.secret, !.key = key])
    /\ UNCHANGED <<file, db, lock, blobs>>

-----------------------------------------------------------------------------
(* Opening, reading, and writing with one statement (vault.rs).            *)

\* The call ends with the error; its transaction, if it has one, is rolled back.
Release(c) == lock' = IF lock = c THEN NONE ELSE lock
End(c, error) == Become(c, Answered(Op(c), error)) /\ Release(c)

\* A key passes the decrypt check of its own file, and of one without a page.
Opens(key) == file.exists /\ file.key \in {NONE, key}

FirstStep(op) == CASE op = "unlock_and_read_vault" -> "borrowers"
                   [] op = "delete_borrower" -> "begin"
                   [] OTHER -> "statement"

OpenAndKey(c) ==
    /\ At(c, "open")
    /\ IF Opens(task[c].key)
       THEN Goto(c, FirstStep(Op(c))) /\ UNCHANGED lock
       ELSE End(c, IF file.exists THEN "Key" ELSE "Open")
    /\ UNCHANGED <<file, db, blobs>>

\* The two SELECTs of open_and_read: no transaction holds them together.
ReadBorrowers(c) ==
    /\ At(c, "borrowers")
    /\ IF "borrowers" \in file.tables
       THEN /\ Become(c, [task[c] EXCEPT !.pc = "loans",
                                         !.rows = [EmptyRows EXCEPT !.borrowers = db.borrowers]])
            /\ UNCHANGED lock
       ELSE End(c, "Read")
    /\ UNCHANGED <<file, db, blobs>>

ReadLoans(c) ==
    /\ At(c, "loans")
    /\ IF "loans" \in file.tables
       THEN /\ Become(c, [Answered(Op(c), "none")
                            EXCEPT !.rows = [task[c].rows EXCEPT !.loans = db.loans]])
            /\ UNCHANGED lock
       ELSE End(c, "Read")
    /\ UNCHANGED <<file, db, blobs>>

\* A statement of its own is a transaction of its own.
Statement(c) ==
    /\ At(c, "statement")
    /\ lock = NONE
    /\ LET done == IF file.tables = Tables THEN Execute(db, task[c].ask) ELSE Failed("Read", db)
       IN  db' = done.rows /\ End(c, done.error)
    /\ UNCHANGED <<file, blobs>>

-----------------------------------------------------------------------------
(* delete_borrower: an IMMEDIATE transaction.                              *)

BeginDeferred(c) ==
    /\ At(c, "begin")
    /\ Become(c, [task[c] EXCEPT !.pc = "lookup", !.rows = db])
    /\ UNCHANGED <<file, db, lock, blobs>>

Begin(c) ==
    /\ At(c, "begin")
    /\ lock = NONE
    /\ lock' = c
    /\ Become(c, [task[c] EXCEPT !.pc = "lookup", !.rows = db])
    /\ UNCHANGED <<file, db, blobs>>

Lookup(c) ==
    /\ At(c, "lookup")
    /\ IF "borrowers" \notin file.tables THEN End(c, "Read")
       ELSE IF task[c].rows.borrowers[task[c].ask.id] = NONE THEN End(c, "NotFound")
       ELSE Goto(c, "active") /\ UNCHANGED lock
    /\ UNCHANGED <<file, db, blobs>>

CheckActive(c) ==
    /\ At(c, "active")
    /\ IF "loans" \notin file.tables THEN End(c, "Read")
       ELSE IF ActiveOf(task[c].rows, task[c].ask.id) # {} THEN End(c, "Constraint")
       ELSE Goto(c, "history") /\ UNCHANGED lock
    /\ UNCHANGED <<file, db, blobs>>

DeleteHistory(c) ==
    /\ At(c, "history")
    /\ Become(c, [task[c] EXCEPT !.pc = "row",
                                 !.rows = WithoutLoansOf(@, task[c].ask.id)])
    /\ UNCHANGED <<file, db, lock, blobs>>

DeleteRow(c) ==
    /\ At(c, "row")
    /\ LET done == WithoutBorrower(task[c].rows, task[c].ask.id)
       IN  IF done.error = "none"
           THEN /\ Become(c, [task[c] EXCEPT !.pc = "commit", !.rows = done.rows])
                /\ UNCHANGED lock
           ELSE End(c, done.error)
    /\ UNCHANGED <<file, db, blobs>>

Commit(c) ==
    /\ At(c, "commit")
    /\ db' = task[c].rows
    /\ End(c, "none")
    /\ UNCHANGED <<file, blobs>>

-----------------------------------------------------------------------------
(* create_vault.                                                           *)

\* The file of another vault would not survive a clean-up after the refusal.
CheckExistsCleans(c) ==
    /\ At(c, "exists")
    /\ IF file.exists
       THEN Become(c, [task[c] EXCEPT !.pc = "clean", !.reply = "AlreadyExists"])
       ELSE Goto(c, "connect")
    /\ UNCHANGED <<file, db, lock, blobs>>

CheckExists(c) ==
    /\ At(c, "exists")
    /\ IF file.exists
       THEN End(c, "Open")
       ELSE Goto(c, "connect") /\ UNCHANGED lock
    /\ UNCHANGED <<file, db, blobs>>

\* Opening the connection makes an empty file. The key is used with its first page.
Touched == IF file.exists THEN file ELSE [Absent EXCEPT !.exists = TRUE]

Connect(c) ==
    /\ At(c, "connect")
    /\ file' = Touched
    /\ Goto(c, "schema")
    /\ UNCHANGED <<db, lock, blobs>>

\* The error is answered after what was made is removed.
CleansUp(c, error) == Become(c, [task[c] EXCEPT !.pc = "clean",
                                                !.reply = Mapped("create_vault", error)])

\* CREATE TABLE IF NOT EXISTS, each committed on its own.
CreateTable(c) ==
    /\ At(c, "schema")
    /\ IF file.key \in {NONE, task[c].key}
       THEN LET new == IF "borrowers" \in file.tables THEN "loans" ELSE "borrowers"
            IN  /\ file' = [file EXCEPT !.key = task[c].key, !.tables = @ \cup {new}]
                /\ Goto(c, IF new = "loans" THEN "wrap" ELSE "schema")
       ELSE UNCHANGED file /\ CleansUp(c, "Open")
    /\ UNCHANGED <<db, lock, blobs>>

\* Best effort: the removal may fail.
CleanUp(c) ==
    /\ At(c, "clean")
    /\ \/ file' = Absent /\ db' = EmptyRows
       \/ UNCHANGED <<file, db>>
    /\ Become(c, [Idle EXCEPT !.pc = "answer", !.reply = task[c].reply])
    /\ UNCHANGED <<lock, blobs>>

\* The blob comes last: there is none for a vault that was not made.
Wrap(c) ==
    /\ At(c, "wrap")
    /\ \E w \in Wrapped(task[c].secret, task[c].key) :
          Become(c, [Answered(Op(c), w.error) EXCEPT !.blob = w.blob])
    /\ UNCHANGED <<file, db, lock, blobs>>

-----------------------------------------------------------------------------
(* Failures, answers, and the caller.                                      *)

\* The disk is full, the file cannot be read, the wait for the lock times out.
ErrorsAt(pc) == IF pc = "open" THEN {"Open", "Key"} ELSE {"Read"}

Fault(c) ==
    /\ task[c].pc \in Locked \cup {"open", "statement", "begin", "borrowers", "loans"}
    /\ \E state \in {Answered(Op(c), error) : error \in ErrorsAt(task[c].pc)} : Become(c, state)
    /\ Release(c)
    /\ UNCHANGED <<file, db, blobs>>

MakingFault(c) ==
    /\ task[c].pc \in {"connect", "schema"}
    /\ file' \in {file, Touched}
    /\ \E error \in IF At(c, "connect") THEN {"Open"} ELSE {"Key", "Open"} : CleansUp(c, error)
    /\ UNCHANGED <<db, lock, blobs>>

\* The answer crosses the boundary. The caller stores a blob it gets, or fails to; what
\* becomes of a blob of another vault is not this vault's concern.
Return(c) ==
    /\ At(c, "answer")
    /\ blobs' \in {blobs, blobs \cup {b \in {task[c].blob} : b # NONE /\ b.key # Foreign}}
    /\ Become(c, Idle)
    /\ UNCHANGED <<file, db, lock>>

Crash == /\ \E c \in Calls : ~ At(c, "idle")
         /\ task' = [c \in Calls |-> Idle]
         /\ lock' = NONE
         /\ UNCHANGED <<file, db, blobs>>

\* The app finds a database it has no blob of, and removes it.
DiscardOrphan == /\ file.exists
                 /\ blobs = {}
                 /\ \A c \in Calls : At(c, "idle")
                 /\ file' = Absent
                 /\ db' = EmptyRows
                 /\ UNCHANGED <<lock, task, blobs>>

-----------------------------------------------------------------------------
Called(c) == \/ CallInsertBorrower(c) \/ CallUpdateBorrower(c) \/ CallDeleteBorrower(c)
             \/ CallInsertLoan(c) \/ CallUpdateLoan(c) \/ CallDeleteLoan(c)
             \/ CallUnlockAndRead(c) \/ CallCreate(c)
             \/ CallRewrap(c) \/ CallWrapForBiometric(c)

Deletes(c) == \/ Begin(c) \/ Lookup(c) \/ CheckActive(c)
              \/ DeleteHistory(c) \/ DeleteRow(c) \/ Commit(c)

Makes(c) == \/ CheckExists(c) \/ Connect(c) \/ CreateTable(c)
            \/ CleanUp(c) \/ Wrap(c) \/ MakingFault(c)

Next == \/ \E c \in Calls : \/ Called(c)
                            \/ OpenAndKey(c) \/ ReadBorrowers(c) \/ ReadLoans(c)
                            \/ Statement(c) \/ Deletes(c) \/ Makes(c)
                            \/ Fault(c) \/ Return(c)
        \/ Crash
        \/ DiscardOrphan

Spec == Init /\ [][Next]_vars

-----------------------------------------------------------------------------
(* Properties.                                                             *)

TypeOK == /\ file \in File
          /\ db \in Rows
          /\ lock \in Calls \cup {NONE}
          /\ task \in [Calls -> Task]
          /\ blobs \subseteq Blob

\* No loan is ever without its borrower, whichever writes overlap: the foreign key is
\* switched on for each connection of the write path, and a borrower's history leaves
\* with the borrower.
LoansHaveBorrowers == Refers(db)

\* Every blob that the core handed out opens the vault, whole, under the blob's secret:
\* no create that fails or is refused, no re-wrap and no crash parts a blob from its
\* database.
EveryBlobOpens == \A b \in blobs : file = Vault(b.key)

\* The rows a read answers are those of one moment: each loan in the answer has its
\* borrower in the answer, although they come from two SELECTs with no transaction.
ReadIsSnapshot ==
    \A c \in Calls : At(c, "answer") /\ task[c].rows # NONE => Refers(task[c].rows)

\* An id names one row for good: a caller that still holds the id of a deleted row never
\* meets another row under it. (AUTOINCREMENT of the schema: a new row takes an id above
\* every id given out before.)
IdsNameOneRow == [][file' # Absent => IdsAreNew(db, db')]_vars

\* The core implements AtomicVault: a call happens in one step or not at all, also when
\* it fails in the middle or the process dies, and a refusal is true of the rows.
Abstracted(t) ==
    [at    |-> CASE t.pc = "idle" -> "idle"
                 [] t.pc = "answer" -> "answered"
                 [] t.pc = "wrap" -> "made"
                 [] OTHER -> "running",
     ask   |-> t.ask,
     reply |-> IF t.pc = "answer" THEN t.reply ELSE NONE]

Atomic == INSTANCE AtomicVault WITH
              there <- file.tables = Tables,
              rows  <- db,
              owned <- blobs # {},
              call  <- [c \in Calls |-> Abstracted(task[c])]

CallsAreAtomic == Atomic!Spec
=============================================================================
