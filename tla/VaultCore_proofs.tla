--------------------------- MODULE VaultCore_proofs ---------------------------
(***************************************************************************)
(* The invariants of VaultCore, and that it implements AtomicVault, for    *)
(* any number of calls, secrets, keys, names and rows.                     *)
(*                                                                         *)
(* What each step of a call may rely on is the inductive invariant IInv:   *)
(* a call that came with a key of this vault found it in a blob, so the    *)
(* file is whole; a create that goes on is alone and nobody has a blob; a  *)
(* delete that goes on holds the lock, so the rows it read are the         *)
(* committed ones and its working copy is what it announced.               *)
(***************************************************************************)
EXTENDS VaultCore, VaultRows_proofs

\* The steps of create_vault, and those of other calls once the file is open.
Creating == {"exists", "wrap"} \cup Making
Working == {"statement", "begin", "borrowers", "loans"} \cup Locked

\* The operation that a step belongs to.
StepFits(op, pc) == /\ pc \in Creating => op = "create_vault"
                    /\ pc = "statement" => op \in Statements
                    /\ pc \in Locked \cup {"begin"} => op = "delete_borrower"
                    /\ pc \in {"borrowers", "loans"} => op = "unlock_and_read_vault"
                    /\ pc = "open" => op \in Writes \cup {"unlock_and_read_vault"}

\* What a task holds at each of its steps.
Formed(t) ==
    /\ t \in Task
    /\ t.pc = "idle" => t = Idle
    /\ t.pc = "answer" => t.ask = NONE /\ t.reply \in Replies
    /\ t.pc # "answer" => t.blob = NONE
    /\ t.pc \in Steps => FitAsk(t.ask) /\ StepFits(t.ask.op, t.pc)
    /\ t.pc \in Creating => t.secret \in Secrets /\ t.key \in Keys
    /\ t.pc \in Steps \ Creating => t.key \in Keys \cup {Foreign}
    /\ t.pc \in Locked \cup {"loans"} => t.rows \in Rows
    /\ t.pc = "clean" => t.reply \in {"AlreadyExists", "VaultOpen"}

\* The key of a call is that of a blob somebody keeps; a foreign key opens nothing but a
\* file with no table.
KeyKnown(t) == \/ \E b \in blobs : b.key = t.key
               \/ t.key = Foreign /\ (t.pc = "open" \/ file.tables = {})

\* The blob that a call answers.
BlobOpens(t) ==
    t.blob # NONE /\ t.blob.key # Foreign
        => file = Vault(t.blob.key) /\ (t.reply = "vault" \/ blobs # {})

\* A create past its check that there is no file: nobody can have a blob.
Cleared(t) ==
    /\ blobs = {}
    /\ \A d \in Calls : task[d].blob # NONE => task[d].blob.key = Foreign
    /\ t.pc = "connect" => ~ file.exists
    /\ t.pc = "schema" => file.exists
    /\ t.pc \in Making => file.key \in {NONE, t.key} /\ "loans" \notin file.tables
    /\ t.pc = "wrap" => file = Vault(t.key)

\* The rows that a delete works on, and what it found.
Copies(t) ==
    LET id == t.ask.id
    IN  /\ t.pc \in {"lookup", "active"} => t.rows = db
        /\ t.pc \in {"active", "history", "row", "commit"}
               => /\ "borrowers" \in file.tables
                  /\ db.borrowers[id] # NONE
        /\ t.pc \in {"history", "row", "commit"} => ActiveOf(db, id) = {}
        /\ t.pc = "history" => t.rows = db
        /\ t.pc = "row" => t.rows = WithoutLoansOf(db, id)
        /\ t.pc = "commit" => t.rows = WithoutBorrower(WithoutLoansOf(db, id), id).rows

Placed(c) ==
    /\ Formed(task[c])
    /\ BlobOpens(task[c])
    /\ task[c].pc \in Steps \ Creating => KeyKnown(task[c])
    /\ task[c].pc \in Creating \ {"exists"} => Cleared(task[c])
    /\ task[c].pc \in Locked <=> lock = c
    /\ task[c].pc \in Locked => Copies(task[c])

\* An operation of Alone runs beside no other.
AloneRuns == \A c, d \in Calls :
                 /\ c # d
                 /\ task[c].pc \in Steps
                 /\ task[d].pc \in Steps
                 => Op(c) \notin Alone

\* A file that is not there is empty, and so are tables that are not all there.
FileFits == /\ ~ file.exists => file = Absent
            /\ file.key = NONE => file.tables = {}
            /\ file.tables # Tables => db = EmptyRows

IInv == /\ file \in File
        /\ db \in Rows
        /\ Refers(db)
        /\ lock \in Calls \cup {NONE}
        /\ task \in [Calls -> Task]
        /\ blobs \subseteq [secret : Secrets, key : Keys]
        /\ EveryBlobOpens
        /\ FileFits
        /\ AloneRuns
        /\ \A c \in Calls : Placed(c)

-----------------------------------------------------------------------------
(* What may be answered.                                                   *)

Errors == {"none", "InvalidFormat", "UnwrapKdf", "WrongPassphrase", "WrapKdf", "Encrypt",
           "Validation", "Open", "Key", "Read", "Constraint", "NotFound"}

LEMMA NoneIsApart ==
    /\ NONE \notin Calls /\ NONE \notin Secrets /\ NONE \notin Keys /\ NONE # Foreign
    /\ NONE \notin Rows /\ NONE \notin Blob
    /\ Foreign \notin Keys
BY CoreAssumption

LEMMA MappedIsReply ==
    ASSUME NEW op \in Ops, NEW error \in Errors
    PROVE  Mapped(op, error) \in Replies
BY DEF Errors, Mapped, Success, Replies, Excuses, Ops, Writes, Statements

LEMMA IdleIsFormed == Idle \in Task /\ Formed(Idle) /\ Idle.blob = NONE /\ Idle.pc = "idle"
BY DEF Idle, Task, Formed, Steps, Making, Locked, Creating

\* An answer holds nothing but its reply.
LEMMA AnsweredIsFormed ==
    ASSUME NEW op \in Ops, NEW error \in Errors
    PROVE  /\ Answered(op, error) \in Task
           /\ Formed(Answered(op, error))
           /\ Answered(op, error).pc = "answer"
           /\ Answered(op, error).ask = NONE
           /\ Answered(op, error).blob = NONE
           /\ Answered(op, error).rows = NONE
           /\ Answered(op, error).reply = Mapped(op, error)
<1> DEFINE r == Mapped(op, error)
<1>1. r \in Replies
  BY MappedIsReply
<1>2. Answered(op, error) = [Idle EXCEPT !.pc = "answer", !.reply = r]
  BY DEF Answered
<1> HIDE DEF r
<1>3. [Idle EXCEPT !.pc = "answer", !.reply = r] \in Task
  BY <1>1 DEF Idle, Task
<1> QED
  BY <1>1, <1>2, <1>3 DEF Idle, Formed, Steps, Making, Locked, Creating, r

-----------------------------------------------------------------------------
(* Steps that leave the file: of the other calls nothing has to be shown.  *)

\* A call that does not step keeps its place, when what it relies on is left.
LEMMA OthersStay ==
    ASSUME IInv, NEW c \in Calls, NEW s \in Task, task' = [task EXCEPT ![c] = s],
           UNCHANGED <<file, blobs>>,
           db' = db \/ lock \in {NONE, c},
           lock' = lock \/ {lock, lock'} \subseteq {NONE, c},
           NEW d \in Calls, d # c,
           task[d].pc \in Creating => s.blob = NONE \/ s.blob.key = Foreign
    PROVE  Placed(d)'
<1>1. task'[d] = task[d] /\ task'[c] = s /\ Placed(d) /\ task[d] \in Task
  BY DEF IInv
<1>2. Formed(task[d])'
  BY <1>1 DEF Placed, Formed
<1>3. BlobOpens(task[d])'
  BY <1>1 DEF Placed, BlobOpens
<1>4. (task[d].pc \in Steps \ Creating => KeyKnown(task[d]))'
  BY <1>1 DEF Placed, KeyKnown
<1>5. (task[d].pc \in Creating \ {"exists"} => Cleared(task[d]))'
  <2>1. SUFFICES ASSUME task[d].pc \in Creating \ {"exists"}
                 PROVE  Cleared(task[d])'
    BY <1>1
  <2>2. Cleared(task[d])
    BY <2>1, <1>1 DEF Placed
  <2>3. ASSUME NEW e \in Calls, task'[e].blob # NONE
        PROVE  task'[e].blob.key = Foreign
    <3>1. CASE e = c
      BY <3>1, <2>1, <2>3, <1>1
    <3>2. CASE e # c
      BY <3>2, <2>2, <2>3 DEF Cleared, IInv
    <3> QED  BY <3>1, <3>2
  <2> QED  BY <2>2, <2>3, <1>1 DEF Cleared
<1>6. (task[d].pc \in Locked <=> lock = d)'
  BY <1>1, NoneIsApart DEF Placed
<1>7. (task[d].pc \in Locked => Copies(task[d]))'
  <2>1. SUFFICES ASSUME task[d].pc \in Locked
                 PROVE  Copies(task[d])'
    BY <1>1
  <2>2. lock = d /\ Copies(task[d])
    BY <2>1, <1>1 DEF Placed
  <2>3. db' = db
    BY <2>2, NoneIsApart
  <2> QED  BY <2>2, <2>3, <1>1 DEF Copies
<1> QED  BY <1>2, <1>3, <1>4, <1>5, <1>6, <1>7 DEF Placed

\* A step of a call that leaves the file keeps IInv, when the call arrives at a place
\* and the rows it wrote are sound.
LEMMA TaskStep ==
    ASSUME IInv, NEW c \in Calls, NEW s \in Task, task' = [task EXCEPT ![c] = s],
           UNCHANGED <<file, blobs>>,
           db' \in Rows, Refers(db'),
           db' = db \/ (file.tables = Tables /\ lock \in {NONE, c}),
           lock' = lock \/ {lock, lock'} \subseteq {NONE, c},
           s.pc \in Steps => Turn(s.ask.op) \/ (task[c].pc \in Steps /\ s.ask = task[c].ask),
           s.blob # NONE /\ s.blob.key # Foreign
               => \A d \in Calls \ {c} : task[d].pc \notin Creating,
           Placed(c)'
    PROVE  IInv'
<1>1. task'[c] = s /\ \A d \in Calls : d # c => task'[d] = task[d]
  BY DEF IInv
<1>2. \A d \in Calls : Placed(d)'
  <2>1. ASSUME NEW d \in Calls, d # c
        PROVE  Placed(d)'
    <3>1. task[d].pc \in Creating => s.blob = NONE \/ s.blob.key = Foreign
      BY <2>1
    <3> QED  BY <3>1, <2>1, OthersStay
  <2> QED  BY <2>1
<1>3. AloneRuns'
  <2>1. SUFFICES ASSUME NEW d \in Calls, NEW e \in Calls, d # e,
                        task'[d].pc \in Steps, task'[e].pc \in Steps
                 PROVE  task'[d].ask.op \notin Alone
    BY DEF AloneRuns, Op
  <2>2. CASE d = c
    <3>1. task[e].pc \in Steps
      BY <2>1, <2>2, <1>1
    <3>2. CASE Turn(s.ask.op)
      BY <3>1, <3>2, <2>1, <2>2, <1>1 DEF Turn
    <3>3. CASE task[c].pc \in Steps /\ s.ask = task[c].ask
      BY <3>1, <3>3, <2>1, <2>2, <1>1 DEF IInv, AloneRuns, Op
    <3> QED  BY <3>2, <3>3, <2>1, <2>2, <1>1
  <2>3. CASE e = c /\ d # c
    <3>1. task[d].pc \in Steps /\ task'[d] = task[d]
      BY <2>1, <2>3, <1>1
    <3>2. CASE Turn(s.ask.op)
      BY <3>1, <3>2 DEF Turn, Op
    <3>3. CASE task[c].pc \in Steps /\ s.ask = task[c].ask
      BY <3>1, <3>3, <2>3 DEF IInv, AloneRuns, Op
    <3> QED  BY <3>2, <3>3, <2>1, <2>3, <1>1
  <2>4. CASE d # c /\ e # c
    BY <2>1, <2>4, <1>1 DEF IInv, AloneRuns, Op
  <2> QED  BY <2>2, <2>3, <2>4
<1>4. FileFits'
  BY DEF IInv, FileFits
<1>5. lock' \in Calls \cup {NONE}
  BY DEF IInv
<1>6. task' \in [Calls -> Task] /\ EveryBlobOpens'
  BY DEF IInv, EveryBlobOpens
<1> QED  BY <1>2, <1>3, <1>4, <1>5, <1>6 DEF IInv, Refers

\* A call that answers is placed when it has let go of the lock and its blob opens.
LEMMA AnswerIsPlaced ==
    ASSUME NEW c \in Calls, NEW s, task'[c] = s, s.pc = "answer", Formed(s),
           BlobOpens(s)', lock' # c
    PROVE  Placed(c)'
BY DEF Placed, Formed, BlobOpens, Steps, Making, Locked, Creating

\* A call that ends with an error, or with what it has written.
LEMMA EndKeeps ==
    ASSUME IInv, NEW c \in Calls, task[c].pc \in Steps, NEW error \in Errors, End(c, error),
           UNCHANGED <<file, blobs>>,
           db' \in Rows, Refers(db'),
           db' = db \/ (file.tables = Tables /\ lock \in {NONE, c})
    PROVE  IInv'
<1> DEFINE s == Answered(Op(c), error)
<1>1. Op(c) \in Ops
  BY DEF IInv, Placed, Formed, FitAsk, Ask, Op
<1>2. /\ s \in Task /\ Formed(s) /\ s.pc = "answer" /\ s.blob = NONE
  BY <1>1, AnsweredIsFormed
<1>3. task' = [task EXCEPT ![c] = s] /\ lock' = IF lock = c THEN NONE ELSE lock
  BY DEF End, Become, Release
<1> HIDE DEF s
<1>4. task'[c] = s
  BY <1>3 DEF IInv
<1>5. Placed(c)'
  BY <1>2, <1>3, <1>4, NoneIsApart, AnswerIsPlaced DEF BlobOpens
<1>6. lock' = lock \/ {lock, lock'} \subseteq {NONE, c}
  BY <1>3
<1>7. s.pc \notin Steps
  BY <1>2 DEF Steps, Making, Locked
<1> QED  BY <1>2, <1>3, <1>5, <1>6, <1>7, TaskStep

\* A call that is refused before it has begun.
LEMMA RefusalKeeps ==
    ASSUME IInv, NEW c \in Calls, At(c, "idle"), NEW op \in Ops, NEW error \in Errors,
           Become(c, Answered(op, error)), UNCHANGED <<file, db, lock, blobs>>
    PROVE  IInv'
<1> DEFINE s == Answered(op, error)
<1>1. s \in Task /\ Formed(s) /\ s.pc = "answer" /\ s.blob = NONE
  BY AnsweredIsFormed
<1>2. task' = [task EXCEPT ![c] = s]
  BY DEF Become
<1> HIDE DEF s
<1>3. task'[c] = s /\ lock # c
  BY <1>2 DEF IInv, Placed, At, Locked
<1>4. Placed(c)'
  BY <1>1, <1>3, AnswerIsPlaced DEF BlobOpens
<1>5. s.pc \notin Steps
  BY <1>1 DEF Steps, Making, Locked
<1> QED  BY <1>1, <1>2, <1>4, <1>5, TaskStep DEF IInv

-----------------------------------------------------------------------------
(* Calls.                                                                  *)

LEMMA RefuseKeeps ==
    ASSUME IInv, NEW c \in Calls, NEW op \in Ops, NEW unfit, Refuse(c, op, unfit)
    PROVE  IInv'
BY RefusalKeeps DEF Refuse, Errors

\* A key that was unwrapped is that of a blob somebody keeps, or a foreign one.
LEMMA UnwrappedKey ==
    ASSUME IInv, NEW secret \in Secrets, NEW blob \in Presented,
           NEW u \in Unwrapped(secret, blob)
    PROVE  /\ u.error \in Errors
           /\ u.error = "none" => u.key = Foreign \/ \E b \in blobs : b.key = u.key
           /\ u.error = "none" => u.key \in Keys \cup {Foreign}
<1>1. CASE blob = Damaged
  BY <1>1 DEF Unwrapped, Errors
<1>2. CASE blob # Damaged
  <2>1. blob \in blobs \/ blob.key = Foreign
    BY <1>2 DEF Presented
  <2>2. blob \in blobs => blob.key \in Keys
    BY DEF IInv
  <2>3. u \in {[error |-> "UnwrapKdf", key |-> NONE],
               [error |-> "none", key |-> blob.key],
               [error |-> "WrongPassphrase", key |-> NONE]}
    BY <1>2 DEF Unwrapped
  <2> QED  BY <2>1, <2>2, <2>3 DEF Errors
<1> QED  BY <1>1, <1>2

\* An operation that opens the file begins at "open", with the key of its blob.
LEMMA EnterKeeps ==
    ASSUME IInv, NEW c \in Calls, NEW op \in Writes \cup {"unlock_and_read_vault"}, NEW asks,
           \A ask \in asks : FitAsk(ask) /\ ask.op = op,
           Enter(c, op, asks)
    PROVE  IInv'
<1>1. PICK u \in UNION {Unwrapped(a.secret, a.blob) : a \in UnlockArgs} :
          \/ /\ u.error # "none"
             /\ Become(c, Answered(op, u.error))
          \/ /\ u.error = "none"
             /\ \E ask \in asks :
                    Become(c, [Idle EXCEPT !.pc = "open", !.ask = ask, !.key = u.key])
  BY DEF Enter
<1>2. /\ At(c, "idle") /\ Turn(op) /\ UNCHANGED <<file, db, lock, blobs>>
      /\ op \in Ops
  BY DEF Enter, Ops
<1>3. /\ u.error \in Errors
      /\ u.error = "none" => u.key = Foreign \/ \E b \in blobs : b.key = u.key
      /\ u.error = "none" => u.key \in Keys \cup {Foreign}
  <2>1. PICK a \in UnlockArgs : u \in Unwrapped(a.secret, a.blob)
    BY <1>1
  <2>2. a.secret \in Secrets /\ a.blob \in Presented
    BY DEF UnlockArgs
  <2> QED  BY <2>1, <2>2, UnwrappedKey
<1>4. CASE u.error # "none"
  BY <1>1, <1>2, <1>3, <1>4, RefusalKeeps
<1>5. CASE u.error = "none"
  <2>1. PICK ask \in asks : Become(c, [Idle EXCEPT !.pc = "open", !.ask = ask, !.key = u.key])
    BY <1>1, <1>5
  <2> DEFINE s == [Idle EXCEPT !.pc = "open", !.ask = ask, !.key = u.key]
  <2>2. FitAsk(ask) /\ ask.op = op /\ ask \in Ask
    BY DEF FitAsk
  <2>3. /\ s.pc = "open" /\ s.ask = ask /\ s.key = u.key /\ s.blob = NONE
    BY DEF Idle
  <2>4. s \in Task
    BY <2>2, <1>3, <1>5 DEF Idle, Task, Steps
  <2>5. task' = [task EXCEPT ![c] = s]
    BY <2>1 DEF Become
  <2> HIDE DEF s
  <2>6. Formed(s)
    BY <2>2, <2>3, <2>4, <1>3, <1>5
       DEF Formed, StepFits, Steps, Making, Locked, Creating
  <2>7. KeyKnown(s)'
    BY <2>3, <1>2, <1>3, <1>5 DEF KeyKnown
  <2>8. task'[c] = s /\ lock' # c
    BY <2>5, <1>2 DEF IInv, Placed, At, Locked
  <2>9. Placed(c)'
    BY <2>3, <2>6, <2>7, <2>8 DEF Placed, BlobOpens, Formed, Creating, Making, Locked
  <2> QED  BY <2>2, <2>3, <2>4, <2>5, <2>9, <1>2, TaskStep DEF IInv
<1> QED  BY <1>4, <1>5

\* Fields that the boundary lets through are rows.
LEMMA FitFields ==
    /\ \A f \in BorrowerFields : ValidBorrower(f) => BorrowerOf(f) \in Borrower
    /\ \A f \in LoanFields : ValidLoan(f) => LoanOf(f) \in Loan
<1>1. ASSUME NEW f \in BorrowerFields, ValidBorrower(f)
      PROVE  BorrowerOf(f) \in Borrower
  BY <1>1 DEF BorrowerFields, ValidBorrower, BorrowerOf
<1>2. ASSUME NEW f \in LoanFields, ValidLoan(f)
      PROVE  LoanOf(f) \in Loan
  <2>1. f.borrower \in Ids
    BY <1>2, RowsAssumption DEF LoanFields, ValidLoan, Ids
  <2>2. (f.returned # "null") \in BOOLEAN
    OBVIOUS
  <2> QED  BY <2>1, <2>2 DEF LoanOf, Loan
<1> QED  BY <1>1, <1>2

LEMMA CallWriteKeeps ==
    ASSUME IInv, NEW c \in Calls,
           \/ CallInsertBorrower(c) \/ CallUpdateBorrower(c) \/ CallDeleteBorrower(c)
           \/ CallInsertLoan(c) \/ CallUpdateLoan(c) \/ CallDeleteLoan(c)
    PROVE  IInv'
<1> DEFINE insertBorrower == {Asks("insert_borrower", a.id, BorrowerOf(a.fields)) :
                                  a \in FitBorrowers(InsertBorrowerArgs)}
           updateBorrower == {Asks("update_borrower", a.id, BorrowerOf(a.fields)) :
                                  a \in FitBorrowers(UpdateBorrowerArgs)}
           deleteBorrower == {Asks("delete_borrower", a.id, NONE) : a \in DeleteBorrowerArgs}
           insertLoan == {Asks("insert_loan", a.id, LoanOf(a.fields)) :
                              a \in FitLoans(InsertLoanArgs)}
           updateLoan == {Asks("update_loan", a.id, LoanOf(a.fields)) :
                              a \in FitLoans(UpdateLoanArgs)}
           deleteLoan == {Asks("delete_loan", a.id, NONE) : a \in DeleteLoanArgs}
<1>1. \A ask \in insertBorrower : FitAsk(ask) /\ ask.op = "insert_borrower"
  BY FitFields DEF FitBorrowers, InsertBorrowerArgs, FitAsk, Ask, Asks, Ops, Writes, Statements
<1>2. \A ask \in updateBorrower : FitAsk(ask) /\ ask.op = "update_borrower"
  BY FitFields DEF FitBorrowers, UpdateBorrowerArgs, FitAsk, Ask, Asks, Ops, Writes, Statements
<1>3. \A ask \in deleteBorrower : FitAsk(ask) /\ ask.op = "delete_borrower"
  BY DEF DeleteBorrowerArgs, FitAsk, Ask, Asks, Ops, Writes, Statements
<1>4. \A ask \in insertLoan : FitAsk(ask) /\ ask.op = "insert_loan"
  BY FitFields DEF FitLoans, InsertLoanArgs, FitAsk, Ask, Asks, Ops, Writes, Statements
<1>5. \A ask \in updateLoan : FitAsk(ask) /\ ask.op = "update_loan"
  BY FitFields DEF FitLoans, UpdateLoanArgs, FitAsk, Ask, Asks, Ops, Writes, Statements
<1>6. \A ask \in deleteLoan : FitAsk(ask) /\ ask.op = "delete_loan"
  BY DEF DeleteLoanArgs, FitAsk, Ask, Asks, Ops, Writes, Statements
<1>7. {"insert_borrower", "update_borrower", "delete_borrower",
       "insert_loan", "update_loan", "delete_loan"} \subseteq Writes /\ Writes \subseteq Ops
  BY DEF Writes, Statements, Ops
<1>8. CASE CallInsertBorrower(c)
  <2>1. CASE Refuse(c, "insert_borrower", InsertBorrowerArgs \ FitBorrowers(InsertBorrowerArgs))
    BY <2>1, <1>7, RefuseKeeps
  <2>2. CASE Enter(c, "insert_borrower", insertBorrower)
    <3> HIDE DEF insertBorrower
    <3> QED  BY <2>2, <1>1, <1>7, EnterKeeps
  <2> QED  BY <1>8, <2>1, <2>2 DEF CallInsertBorrower
<1>9. CASE CallUpdateBorrower(c)
  <2>1. CASE Refuse(c, "update_borrower", UpdateBorrowerArgs \ FitBorrowers(UpdateBorrowerArgs))
    BY <2>1, <1>7, RefuseKeeps
  <2>2. CASE Enter(c, "update_borrower", updateBorrower)
    <3> HIDE DEF updateBorrower
    <3> QED  BY <2>2, <1>2, <1>7, EnterKeeps
  <2> QED  BY <1>9, <2>1, <2>2 DEF CallUpdateBorrower
<1>10. CASE CallDeleteBorrower(c)
  <2>1. Enter(c, "delete_borrower", deleteBorrower)
    BY <1>10 DEF CallDeleteBorrower
  <2> HIDE DEF deleteBorrower
  <2> QED  BY <2>1, <1>3, <1>7, EnterKeeps
<1>11. CASE CallInsertLoan(c)
  <2>1. CASE Refuse(c, "insert_loan", InsertLoanArgs \ FitLoans(InsertLoanArgs))
    BY <2>1, <1>7, RefuseKeeps
  <2>2. CASE Enter(c, "insert_loan", insertLoan)
    <3> HIDE DEF insertLoan
    <3> QED  BY <2>2, <1>4, <1>7, EnterKeeps
  <2> QED  BY <1>11, <2>1, <2>2 DEF CallInsertLoan
<1>12. CASE CallUpdateLoan(c)
  <2>1. CASE Refuse(c, "update_loan", UpdateLoanArgs \ FitLoans(UpdateLoanArgs))
    BY <2>1, <1>7, RefuseKeeps
  <2>2. CASE Enter(c, "update_loan", updateLoan)
    <3> HIDE DEF updateLoan
    <3> QED  BY <2>2, <1>5, <1>7, EnterKeeps
  <2> QED  BY <1>12, <2>1, <2>2 DEF CallUpdateLoan
<1>13. CASE CallDeleteLoan(c)
  <2>1. Enter(c, "delete_loan", deleteLoan)
    BY <1>13 DEF CallDeleteLoan
  <2> HIDE DEF deleteLoan
  <2> QED  BY <2>1, <1>6, <1>7, EnterKeeps
<1> QED  BY <1>8, <1>9, <1>10, <1>11, <1>12, <1>13

LEMMA CallUnlockKeeps ==
    ASSUME IInv, NEW c \in Calls, CallUnlockAndRead(c)
    PROVE  IInv'
<1>1. FitAsk(Plain("unlock_and_read_vault"))
  BY DEF FitAsk, Ask, Plain, Asks, Ops
<1>2. Plain("unlock_and_read_vault").op = "unlock_and_read_vault"
  BY DEF Plain, Asks
<1> QED  BY <1>1, <1>2, EnterKeeps DEF CallUnlockAndRead

\* A blob of a key under another secret opens what the first one opens, and is never
\* the first blob of its vault.
LEMMA ExchangeKeeps ==
    ASSUME IInv, NEW c \in Calls, At(c, "idle"), NEW op \in {"rewrap_blob", "wrap_for_biometric"},
           Turn(op), NEW secret \in Secrets, NEW new \in Secrets, NEW blob \in Presented,
           NEW s \in Exchange(op, secret, blob, new), Become(c, s),
           UNCHANGED <<file, db, lock, blobs>>
    PROVE  IInv'
<1>1. PICK u \in Unwrapped(secret, blob) :
          s \in IF u.error # "none" THEN {Answered(op, u.error)}
                ELSE {[Answered(op, w.error) EXCEPT !.blob = w.blob] : w \in Wrapped(new, u.key)}
  BY DEF Exchange
<1>2. /\ u.error \in Errors
      /\ u.error = "none" => u.key = Foreign \/ \E b \in blobs : b.key = u.key
      /\ u.error = "none" => u.key \in Keys \cup {Foreign}
  BY UnwrappedKey
<1>3. op \in Ops
  BY DEF Ops
<1>4. CASE u.error # "none"
  BY <1>1, <1>2, <1>3, <1>4, RefusalKeeps
<1>5. CASE u.error = "none"
  <2>1. PICK w \in Wrapped(new, u.key) : s = [Answered(op, w.error) EXCEPT !.blob = w.blob]
    BY <1>1, <1>5
  <2>2. /\ w.error \in Errors
        /\ w.blob = NONE \/ w.blob = [secret |-> new, key |-> u.key]
    BY DEF Wrapped, Errors
  <2>3. w.blob \in Blob \cup {NONE}
    BY <2>2, <1>2, <1>5 DEF Blob
  <2> DEFINE a == Answered(op, w.error)
  <2>4. /\ a \in Task /\ Formed(a) /\ a.pc = "answer" /\ a.ask = NONE
    BY <2>2, <1>3, AnsweredIsFormed
  <2>5. s = [a EXCEPT !.blob = w.blob]
    BY <2>1
  <2> HIDE DEF a
  <2>6. s \in Task /\ s.pc = "answer" /\ s.ask = NONE /\ s.blob = w.blob /\ s.reply = a.reply
    BY <2>3, <2>4, <2>5 DEF Task
  <2>7. Formed(s)
    BY <2>4, <2>6 DEF Formed, Steps, Making, Locked, Creating
  <2>8. BlobOpens(s)'
    <3>1. SUFFICES ASSUME w.blob # NONE, u.key # Foreign
                   PROVE  file = Vault(u.key) /\ blobs # {}
      BY <2>2, <2>6, NoneIsApart DEF BlobOpens, Blob
    <3>2. PICK b \in blobs : b.key = u.key
      BY <3>1, <1>2, <1>5
    <3> QED  BY <3>2 DEF IInv, EveryBlobOpens
  <2>9. task' = [task EXCEPT ![c] = s] /\ task'[c] = s /\ lock' # c
    BY DEF Become, IInv, Placed, At, Locked
  <2>10. Placed(c)'
    BY <2>6, <2>7, <2>8, <2>9, AnswerIsPlaced
  <2>11. \A d \in Calls \ {c} : task[d].pc \notin Creating
    <3>1. SUFFICES ASSUME NEW d \in Calls, task[d].pc \in Creating
                   PROVE  FALSE
      OBVIOUS
    <3>2. task[d].pc \in Steps /\ Op(d) = "create_vault"
      BY <3>1 DEF IInv, Placed, Formed, StepFits, Op, Creating, Steps, Making
    <3> QED  BY <3>2, CoreAssumption DEF Turn
  <2>12. s.pc \notin Steps
    BY <2>6 DEF Steps, Making, Locked
  <2> QED  BY <2>6, <2>9, <2>10, <2>11, <2>12, TaskStep DEF IInv
<1> QED  BY <1>4, <1>5

LEMMA CallExchangeKeeps ==
    ASSUME IInv, NEW c \in Calls, CallRewrap(c) \/ CallWrapForBiometric(c)
    PROVE  IInv'
<1>1. CASE CallRewrap(c)
  <2>1. PICK a \in RewrapArgs :
            \E s \in Exchange("rewrap_blob", a.secret, a.blob, a.new) : Become(c, s)
    BY <1>1 DEF CallRewrap
  <2> QED  BY <1>1, <2>1, ExchangeKeeps DEF CallRewrap, RewrapArgs
<1>2. CASE CallWrapForBiometric(c)
  <2>1. PICK new \in Secrets, a \in BiometricArgs :
            \E s \in Exchange("wrap_for_biometric", a.secret, a.blob, new) : Become(c, s)
    BY <1>2 DEF CallWrapForBiometric
  <2> QED  BY <1>2, <2>1, ExchangeKeeps DEF CallWrapForBiometric, BiometricArgs
<1> QED  BY <1>1, <1>2

LEMMA CallCreateKeeps ==
    ASSUME IInv, NEW c \in Calls, CallCreate(c)
    PROVE  IInv'
<1>1. PICK a \in CreateArgs, key \in NewKeys :
          Become(c, [Idle EXCEPT !.pc = "exists", !.ask = Plain("create_vault"),
                                 !.secret = a.secret, !.key = key])
  BY DEF CallCreate
<1> DEFINE ask == Plain("create_vault")
           s == [Idle EXCEPT !.pc = "exists", !.ask = ask, !.secret = a.secret, !.key = key]
<1>2. /\ At(c, "idle") /\ Turn("create_vault") /\ UNCHANGED <<file, db, lock, blobs>>
      /\ a.secret \in Secrets /\ key \in Keys
  BY DEF CallCreate, CreateArgs, NewKeys
<1>3. FitAsk(ask) /\ ask \in Ask /\ ask.op = "create_vault"
  BY DEF FitAsk, Ask, Plain, Asks, Ops
<1>4. task' = [task EXCEPT ![c] = s]
  BY <1>1 DEF Become
<1> HIDE DEF ask
<1>5. /\ s.pc = "exists" /\ s.ask = ask /\ s.blob = NONE
      /\ s.secret = a.secret /\ s.key = key
  BY DEF Idle
<1>6. s \in Task
  BY <1>2, <1>3 DEF Idle, Task, Steps
<1> HIDE DEF s
<1>7. Formed(s)
  BY <1>2, <1>3, <1>5, <1>6 DEF Formed, StepFits, Steps, Making, Locked, Creating
<1>8. task'[c] = s /\ lock' # c
  BY <1>2, <1>4 DEF IInv, Placed, At, Locked
<1>9. Placed(c)'
  BY <1>5, <1>7, <1>8 DEF Placed, BlobOpens, Formed, Creating, Making, Locked
<1> QED  BY <1>2, <1>3, <1>4, <1>5, <1>6, <1>9, TaskStep DEF IInv

-----------------------------------------------------------------------------
(* Reads and writes.                                                       *)

\* A call that found a table has the key of a whole vault.
LEMMA TableIsWhole ==
    ASSUME IInv, NEW c \in Calls, task[c].pc \in Working, file.tables # {}
    PROVE  file.tables = Tables /\ \E b \in blobs : b.key = task[c].key
<1>1. KeyKnown(task[c]) /\ task[c].pc # "open"
  BY DEF IInv, Placed, Working, Steps, Creating, Making, Locked
<1>2. PICK b \in blobs : b.key = task[c].key
  BY <1>1 DEF KeyKnown
<1>3. file = Vault(b.key)
  BY DEF IInv, EveryBlobOpens
<1> QED  BY <1>2, <1>3 DEF Vault

\* A call that goes on to another of its steps, with other rows at most.
LEMMA GoesOn ==
    ASSUME IInv, NEW c \in Calls, task[c].pc \in (Steps \ Creating), NEW pc \in Working,
           NEW rows \in Rows \cup {NONE},
           StepFits(Op(c), pc),
           pc \in Locked \cup {"loans"} => rows \in Rows,
           task' = [task EXCEPT ![c] = [task[c] EXCEPT !.pc = pc, !.rows = rows]],
           KeyKnown([task[c] EXCEPT !.pc = pc, !.rows = rows]),
           pc \in Locked => Copies([task[c] EXCEPT !.pc = pc, !.rows = rows]),
           UNCHANGED <<file, db, blobs>>,
           lock' = lock \/ {lock, lock'} \subseteq {NONE, c},
           pc \in Locked <=> lock' = c
    PROVE  IInv'
<1>0. PICK s : s = [task[c] EXCEPT !.pc = pc, !.rows = rows]
  OBVIOUS
<1>1. task[c] \in Task /\ Placed(c) /\ Formed(task[c])
  BY DEF IInv, Placed
<1>2. /\ s.pc = pc /\ s.rows = rows /\ s.ask = task[c].ask /\ s.key = task[c].key
      /\ s.blob = task[c].blob
  BY <1>0, <1>1 DEF Task
<1>3. pc \in Steps /\ pc \notin Creating /\ pc # "open" /\ pc # "answer" /\ pc # "idle"
  BY DEF Working, Steps, Creating, Making, Locked
<1>4. s \in Task
  BY <1>0, <1>1, <1>3 DEF Task
<1>5. s.blob = NONE
  BY <1>1, <1>2 DEF Formed, Steps, Making, Locked
<1>6. Formed(s)
  BY <1>1, <1>2, <1>3, <1>4, <1>5 DEF Formed, Op, Creating, Making
<1>7. task'[c] = s /\ task' = [task EXCEPT ![c] = s]
  BY <1>0 DEF IInv
<1>8. KeyKnown(s)' /\ (pc \in Locked => Copies(s)')
  BY <1>0 DEF KeyKnown, Copies
<1>9. Placed(c)'
  <2>1. BlobOpens(s)'
    BY <1>5 DEF BlobOpens
  <2> QED  BY <1>2, <1>3, <1>6, <1>7, <1>8, <2>1 DEF Placed
<1> QED  BY <1>1, <1>2, <1>3, <1>4, <1>5, <1>7, <1>9, TaskStep DEF IInv

LEMMA OpenAndKeyKeeps ==
    ASSUME IInv, NEW c \in Calls, OpenAndKey(c)
    PROVE  IInv'
<1>1. /\ task[c].pc = "open" /\ task[c].pc \in Steps \ Creating /\ task[c] \in Task
      /\ UNCHANGED <<file, db, blobs>>
  BY DEF OpenAndKey, At, Steps, Creating, Making, Locked, IInv
<1>2. CASE Opens(task[c].key)
  <2> DEFINE pc == FirstStep(Op(c))
  <2>1. task' = [task EXCEPT ![c] = [task[c] EXCEPT !.pc = pc]] /\ lock' = lock
    BY <1>2 DEF OpenAndKey, Goto, Become
  <2>2. /\ StepFits(Op(c), "open") /\ KeyKnown(task[c]) /\ lock # c
        /\ task[c].rows \in Rows \cup {NONE} /\ Formed(task[c])
    BY <1>1 DEF IInv, Placed, Formed, Op, Locked, Task
  <2>3. /\ pc \in {"statement", "begin", "borrowers"}
        /\ pc \in Working /\ pc \notin Locked \cup {"loans"}
        /\ StepFits(Op(c), pc)
    BY <2>2 DEF FirstStep, StepFits, Working, Locked, Creating, Making, Writes, Statements
  <2> HIDE DEF pc
  <2>4. [task[c] EXCEPT !.pc = pc] = [task[c] EXCEPT !.pc = pc, !.rows = task[c].rows]
    BY <1>1 DEF Task
  <2>5. KeyKnown([task[c] EXCEPT !.pc = pc])
    <3>1. [task[c] EXCEPT !.pc = pc].key = task[c].key
      BY <1>1 DEF Task
    <3>2. task[c].key = Foreign => file.key = NONE
      BY <1>2, CoreAssumption DEF Opens, IInv, File
    <3>3. file.key = NONE => file.tables = {}
      BY DEF IInv, FileFits
    <3> QED  BY <2>2, <3>1, <3>2, <3>3 DEF KeyKnown
  <2> QED  BY <1>1, <2>1, <2>2, <2>3, <2>4, <2>5, GoesOn
<1>3. CASE ~ Opens(task[c].key)
  <2>1. PICK error \in {"Key", "Open"} : End(c, error)
    BY <1>3 DEF OpenAndKey
  <2> QED  BY <1>1, <2>1, EndKeeps DEF Errors, IInv
<1> QED  BY <1>2, <1>3

LEMMA ReadBorrowersKeeps ==
    ASSUME IInv, NEW c \in Calls, ReadBorrowers(c)
    PROVE  IInv'
<1>1. /\ task[c].pc = "borrowers" /\ task[c].pc \in Steps \ Creating
      /\ UNCHANGED <<file, db, blobs>>
  BY DEF ReadBorrowers, At, Steps, Creating, Making, Locked
<1>2. CASE "borrowers" \in file.tables
  <2> DEFINE rows == [EmptyRows EXCEPT !.borrowers = db.borrowers]
  <2>1. /\ task' = [task EXCEPT ![c] = [task[c] EXCEPT !.pc = "loans", !.rows = rows]]
        /\ lock' = lock
    BY <1>2 DEF ReadBorrowers, Become
  <2>2. rows \in Rows
    BY EmptyIsSound DEF IInv, Rows
  <2>3. /\ StepFits(Op(c), "borrowers") /\ KeyKnown(task[c]) /\ lock # c
        /\ task[c] \in Task
    BY <1>1 DEF IInv, Placed, Formed, Op, Locked
  <2>4. "loans" \in Working /\ "loans" \notin Locked /\ StepFits(Op(c), "loans")
    BY <2>3 DEF StepFits, Working, Locked, Creating, Making
  <2> HIDE DEF rows
  <2>5. KeyKnown([task[c] EXCEPT !.pc = "loans", !.rows = rows])
    BY <1>1, <1>2, <2>3 DEF KeyKnown, Task
  <2> QED  BY <1>1, <2>1, <2>2, <2>3, <2>4, <2>5, GoesOn
<1>3. CASE "borrowers" \notin file.tables
  <2>1. End(c, "Read")
    BY <1>3 DEF ReadBorrowers
  <2> QED  BY <1>1, <2>1, EndKeeps DEF Errors, IInv
<1> QED  BY <1>2, <1>3

LEMMA ReadLoansKeeps ==
    ASSUME IInv, NEW c \in Calls, ReadLoans(c)
    PROVE  IInv'
<1>1. /\ task[c].pc = "loans" /\ task[c].pc \in Steps
      /\ UNCHANGED <<file, db, blobs>>
  BY DEF ReadLoans, At, Steps, Making, Locked
<1>2. CASE "loans" \in file.tables
  <2> DEFINE rows == [task[c].rows EXCEPT !.loans = db.loans]
             a == Answered(Op(c), "none")
             s == [a EXCEPT !.rows = rows]
  <2>1. task' = [task EXCEPT ![c] = s] /\ lock' = lock
    BY <1>2 DEF ReadLoans, Become
  <2>2. Op(c) \in Ops /\ task[c].rows \in Rows /\ lock # c
    BY <1>1 DEF IInv, Placed, Formed, FitAsk, Ask, Op, Locked
  <2>3. rows \in Rows
    BY <2>2 DEF IInv, Rows
  <2>4. a \in Task /\ Formed(a) /\ a.pc = "answer" /\ a.ask = NONE /\ a.blob = NONE
    BY <2>2, AnsweredIsFormed DEF Errors
  <2> HIDE DEF rows, a
  <2>5. /\ s \in Task /\ s.pc = "answer" /\ s.ask = NONE /\ s.blob = NONE /\ s.reply = a.reply
    BY <2>3, <2>4 DEF Task
  <2> HIDE DEF s
  <2>6. Formed(s)
    BY <2>4, <2>5 DEF Formed, Steps, Making, Locked, Creating
  <2>7. task'[c] = s
    BY <2>1 DEF IInv
  <2>8. Placed(c)'
    BY <2>1, <2>2, <2>5, <2>6, <2>7, AnswerIsPlaced DEF BlobOpens
  <2>9. s.pc \notin Steps
    BY <2>5 DEF Steps, Making, Locked
  <2> QED  BY <1>1, <2>1, <2>5, <2>8, <2>9, TaskStep DEF IInv
<1>3. CASE "loans" \notin file.tables
  <2>1. End(c, "Read")
    BY <1>3 DEF ReadLoans
  <2> QED  BY <1>1, <2>1, EndKeeps DEF Errors, IInv
<1> QED  BY <1>2, <1>3

\* One statement: sound rows when the tables are there.
LEMMA StatementKeeps ==
    ASSUME IInv, NEW c \in Calls, Statement(c)
    PROVE  IInv'
<1>1. task[c].pc = "statement" /\ task[c].pc \in Steps /\ lock = NONE /\ UNCHANGED <<file, blobs>>
  BY DEF Statement, At, Steps
<1>2. FitAsk(task[c].ask) /\ task[c].ask.op \in Statements
  BY <1>1 DEF IInv, Placed, Formed, StepFits
<1>3. CASE file.tables = Tables
  <2> DEFINE done == Execute(db, task[c].ask)
  <2>1. db' = done.rows /\ End(c, done.error)
    BY <1>3 DEF Statement
  <2>2. Sound(db, done)
    BY <1>2, StatementIsSound DEF IInv
  <2> HIDE DEF done
  <2> QED  BY <1>1, <1>3, <2>1, <2>2, EndKeeps DEF Sound, RowErrors, Errors
<1>4. CASE file.tables # Tables
  <2>1. db' = db /\ End(c, "Read")
    BY <1>4 DEF Statement, Failed
  <2> QED  BY <1>1, <2>1, EndKeeps DEF Errors, IInv
<1> QED  BY <1>3, <1>4

-----------------------------------------------------------------------------
(* delete_borrower.                                                        *)

\* What is known of a call that waits for the lock or holds it.
LEMMA DeletingFacts ==
    ASSUME IInv, NEW c \in Calls, task[c].pc \in Locked \cup {"begin"}
    PROVE  /\ task[c] \in Task /\ task[c].pc \in Steps \ Creating /\ task[c].pc \in Working
           /\ StepFits(Op(c), task[c].pc) /\ Op(c) = "delete_borrower"
           /\ task[c].ask.id \in Ids
           /\ KeyKnown(task[c])
           /\ task[c].pc \in Locked => lock = c /\ Copies(task[c]) /\ task[c].rows \in Rows
<1>1. Placed(c) /\ Formed(task[c]) /\ task[c] \in Task
  BY DEF IInv, Placed
<1>2. task[c].pc \in Steps \ Creating /\ task[c].pc \in Working
  BY DEF Steps, Creating, Making, Locked, Working
<1>3. StepFits(Op(c), task[c].pc) /\ FitAsk(task[c].ask)
  BY <1>1, <1>2 DEF Formed, Op
<1>4. Op(c) = "delete_borrower"
  BY <1>3 DEF StepFits
<1>5. task[c].ask.id \in Ids
  BY <1>3, <1>4 DEF FitAsk, Op
<1> QED  BY <1>1, <1>2, <1>3, <1>4, <1>5 DEF Placed, Formed

LEMMA BeginKeeps ==
    ASSUME IInv, NEW c \in Calls, Begin(c)
    PROVE  IInv'
<1>1. /\ task[c].pc = "begin" /\ lock = NONE /\ lock' = c /\ db \in Rows
      /\ UNCHANGED <<file, db, blobs>>
      /\ task' = [task EXCEPT ![c] = [task[c] EXCEPT !.pc = "lookup", !.rows = db]]
  BY DEF Begin, At, Become, IInv
<1>2. /\ task[c] \in Task /\ task[c].pc \in Steps \ Creating
      /\ Op(c) = "delete_borrower" /\ KeyKnown(task[c])
  BY <1>1, DeletingFacts
<1>3. "lookup" \in Working /\ "lookup" \in Locked /\ StepFits(Op(c), "lookup")
  BY <1>2 DEF StepFits, Working, Locked, Creating, Making
<1>4. /\ KeyKnown([task[c] EXCEPT !.pc = "lookup", !.rows = db])
      /\ Copies([task[c] EXCEPT !.pc = "lookup", !.rows = db])
  BY <1>1, <1>2 DEF KeyKnown, Copies, Task
<1> QED  BY <1>1, <1>2, <1>3, <1>4, GoesOn

\* A step of the delete that goes on with the lock.
LEMMA DeleteGoesOn ==
    ASSUME IInv, NEW c \in Calls, task[c].pc \in Locked, NEW pc \in Locked, NEW rows \in Rows,
           task' = [task EXCEPT ![c] = [task[c] EXCEPT !.pc = pc, !.rows = rows]],
           Copies([task[c] EXCEPT !.pc = pc, !.rows = rows]),
           UNCHANGED <<file, db, lock, blobs>>
    PROVE  IInv'
<1>1. /\ task[c] \in Task /\ task[c].pc \in Steps \ Creating /\ lock = c
      /\ Op(c) = "delete_borrower" /\ KeyKnown(task[c])
      /\ task[c].pc # "open"
  BY DeletingFacts DEF Locked
<1>2. pc \in Working /\ StepFits(Op(c), pc)
  BY <1>1 DEF StepFits, Working, Locked, Creating, Making
<1>3. KeyKnown([task[c] EXCEPT !.pc = pc, !.rows = rows])
  BY <1>1 DEF KeyKnown, Task
<1> QED  BY <1>1, <1>2, <1>3, GoesOn

LEMMA LookupKeeps ==
    ASSUME IInv, NEW c \in Calls, Lookup(c)
    PROVE  IInv'
<1> DEFINE t == task[c]
<1>1. /\ t.pc = "lookup" /\ t.pc \in Locked /\ t.pc \in Steps /\ UNCHANGED <<file, db, blobs>>
  BY DEF Lookup, At, Locked, Steps
<1>2. t \in Task /\ Copies(t) /\ t.rows \in Rows
  BY <1>1, DeletingFacts
<1>3. CASE "borrowers" \notin file.tables \/ t.rows.borrowers[t.ask.id] = NONE
  <2>1. PICK error \in {"Read", "NotFound"} : End(c, error)
    BY <1>3 DEF Lookup
  <2> QED  BY <1>1, <2>1, EndKeeps DEF Errors, IInv
<1>4. CASE "borrowers" \in file.tables /\ t.rows.borrowers[t.ask.id] # NONE
  <2>1. task' = [task EXCEPT ![c] = [t EXCEPT !.pc = "active"]] /\ lock' = lock
    BY <1>4 DEF Lookup, Goto, Become
  <2>2. [t EXCEPT !.pc = "active"] = [t EXCEPT !.pc = "active", !.rows = t.rows]
    BY <1>2 DEF Task
  <2>3. Copies([t EXCEPT !.pc = "active"])
    BY <1>1, <1>2, <1>4 DEF Copies, Task
  <2>4. "active" \in Locked
    BY DEF Locked
  <2> QED  BY <1>1, <1>2, <2>1, <2>2, <2>3, <2>4, DeleteGoesOn
<1> QED  BY <1>3, <1>4

LEMMA CheckActiveKeeps ==
    ASSUME IInv, NEW c \in Calls, CheckActive(c)
    PROVE  IInv'
<1> DEFINE t == task[c]
<1>1. /\ t.pc = "active" /\ t.pc \in Locked /\ t.pc \in Steps /\ UNCHANGED <<file, db, blobs>>
  BY DEF CheckActive, At, Locked, Steps
<1>2. t \in Task /\ Copies(t) /\ t.rows \in Rows
  BY <1>1, DeletingFacts
<1>3. CASE "loans" \notin file.tables \/ ActiveOf(t.rows, t.ask.id) # {}
  <2>1. PICK error \in {"Read", "Constraint"} : End(c, error)
    BY <1>3 DEF CheckActive
  <2> QED  BY <1>1, <2>1, EndKeeps DEF Errors, IInv
<1>4. CASE "loans" \in file.tables /\ ActiveOf(t.rows, t.ask.id) = {}
  <2>1. task' = [task EXCEPT ![c] = [t EXCEPT !.pc = "history"]] /\ lock' = lock
    BY <1>4 DEF CheckActive, Goto, Become
  <2>2. [t EXCEPT !.pc = "history"] = [t EXCEPT !.pc = "history", !.rows = t.rows]
    BY <1>2 DEF Task
  <2>3. Copies([t EXCEPT !.pc = "history"])
    BY <1>1, <1>2, <1>4 DEF Copies, Task
  <2>4. "history" \in Locked
    BY DEF Locked
  <2> QED  BY <1>1, <1>2, <2>1, <2>2, <2>3, <2>4, DeleteGoesOn
<1> QED  BY <1>3, <1>4

LEMMA DeleteHistoryKeeps ==
    ASSUME IInv, NEW c \in Calls, DeleteHistory(c)
    PROVE  IInv'
<1> DEFINE t == task[c]
           rows == WithoutLoansOf(t.rows, t.ask.id)
<1>1. /\ t.pc = "history" /\ t.pc \in Locked /\ UNCHANGED <<file, db, lock, blobs>>
  BY DEF DeleteHistory, At, Locked
<1>2. t \in Task /\ Copies(t) /\ t.rows \in Rows /\ t.ask.id \in Ids
  BY <1>1, DeletingFacts
<1>3. t.rows = db /\ rows \in Rows
  BY <1>1, <1>2, DeletedIsSound DEF Copies, IInv
<1>4. task' = [task EXCEPT ![c] = [t EXCEPT !.pc = "row", !.rows = rows]]
  BY <1>2 DEF DeleteHistory, Become, Task
<1>5. rows = WithoutLoansOf(db, t.ask.id)
  BY <1>3
<1> HIDE DEF rows
<1>6. Copies([t EXCEPT !.pc = "row", !.rows = rows])
  BY <1>1, <1>2, <1>5 DEF Copies, Task
<1>7. "row" \in Locked
  BY DEF Locked
<1> QED  BY <1>1, <1>3, <1>4, <1>6, <1>7, DeleteGoesOn

LEMMA DeleteRowKeeps ==
    ASSUME IInv, NEW c \in Calls, DeleteRow(c)
    PROVE  IInv'
<1> DEFINE t == task[c]
           done == WithoutBorrower(t.rows, t.ask.id)
<1>1. /\ t.pc = "row" /\ t.pc \in Locked /\ UNCHANGED <<file, db, blobs>>
  BY DEF DeleteRow, At, Locked
<1>2. t \in Task /\ Copies(t) /\ t.ask.id \in Ids
  BY <1>1, DeletingFacts
<1>3. t.rows = WithoutLoansOf(db, t.ask.id)
  BY <1>1, <1>2 DEF Copies
<1>4. done.error = "none" /\ done.rows \in Rows
  BY <1>2, <1>3, DeletedIsSound DEF IInv, Sound
<1>5. /\ task' = [task EXCEPT ![c] = [t EXCEPT !.pc = "commit", !.rows = done.rows]]
      /\ lock' = lock
  BY <1>4 DEF DeleteRow, Become
<1>6. done = WithoutBorrower(WithoutLoansOf(db, t.ask.id), t.ask.id)
  BY <1>3
<1> HIDE DEF done
<1>7. Copies([t EXCEPT !.pc = "commit", !.rows = done.rows])
  BY <1>1, <1>2, <1>6 DEF Copies, Task
<1>8. "commit" \in Locked
  BY DEF Locked
<1> QED  BY <1>1, <1>4, <1>5, <1>7, <1>8, DeleteGoesOn

LEMMA CommitKeeps ==
    ASSUME IInv, NEW c \in Calls, Commit(c)
    PROVE  IInv'
<1> DEFINE t == task[c]
<1>1. /\ t.pc = "commit" /\ t.pc \in Locked /\ t.pc \in Steps
      /\ db' = t.rows /\ End(c, "none") /\ UNCHANGED <<file, blobs>>
  BY DEF Commit, At, Locked, Steps
<1>2. t \in Task /\ Copies(t) /\ t.ask.id \in Ids /\ lock = c /\ t.pc \in Working
  BY <1>1, DeletingFacts
<1>3. t.rows = WithoutBorrower(WithoutLoansOf(db, t.ask.id), t.ask.id).rows
  BY <1>1, <1>2 DEF Copies
<1>4. db' \in Rows /\ Refers(db')
  BY <1>1, <1>2, <1>3, DeletedIsSound DEF IInv, Sound
<1>5. file.tables = Tables
  BY <1>1, <1>2, TableIsWhole DEF Copies
<1> QED  BY <1>1, <1>2, <1>4, <1>5, EndKeeps DEF Errors

\* A failure of any step that uses the file.
LEMMA FaultKeeps ==
    ASSUME IInv, NEW c \in Calls, Fault(c)
    PROVE  IInv'
<1>1. PICK error \in ErrorsAt(task[c].pc) : Become(c, Answered(Op(c), error))
  BY DEF Fault
<1>2. error \in Errors
  BY DEF ErrorsAt, Errors
<1>3. task[c].pc \in Steps /\ End(c, error) /\ UNCHANGED <<file, db, blobs>>
  BY <1>1 DEF Fault, End, Steps, Locked
<1> QED  BY <1>2, <1>3, EndKeeps DEF IInv

-----------------------------------------------------------------------------
(* create_vault.                                                           *)

\* What is known of a create that runs: it is alone.
LEMMA CreatingFacts ==
    ASSUME IInv, NEW c \in Calls, task[c].pc \in Creating
    PROVE  /\ task[c] \in Task /\ task[c].pc \in Steps /\ Formed(task[c])
           /\ Op(c) = "create_vault" /\ task[c].blob = NONE
           /\ task[c].key \in Keys /\ task[c].secret \in Secrets
           /\ lock # c
           /\ task[c].pc # "exists" => Cleared(task[c])
           /\ \A d \in Calls \ {c} : task[d].pc \notin Steps
<1>1. Placed(c) /\ Formed(task[c]) /\ task[c] \in Task
  BY DEF IInv, Placed
<1>2. /\ task[c].pc \in Steps /\ task[c].pc \notin Locked
      /\ task[c].pc # "answer"
  BY DEF Steps, Creating, Making, Locked
<1>3. StepFits(Op(c), task[c].pc)
  BY <1>1, <1>2 DEF Formed, Op
<1>4. Op(c) = "create_vault"
  BY <1>3 DEF StepFits
<1>5. \A d \in Calls \ {c} : task[d].pc \notin Steps
  BY <1>2, <1>4, CoreAssumption DEF IInv, AloneRuns
<1> QED  BY <1>1, <1>2, <1>4, <1>5 DEF Placed, Formed

LEMMA CheckExistsKeeps ==
    ASSUME IInv, NEW c \in Calls, CheckExists(c)
    PROVE  IInv'
<1>1. task[c].pc = "exists" /\ task[c].pc \in Creating /\ UNCHANGED <<file, db, blobs>>
  BY DEF CheckExists, At, Creating
<1>2. CASE file.exists
  <2>1. task[c].pc \in Steps
    BY <1>1, CreatingFacts
  <2>2. End(c, "Open")
    BY <1>2 DEF CheckExists
  <2> QED  BY <1>1, <2>1, <2>2, EndKeeps DEF Errors, IInv
<1>3. CASE ~ file.exists
  <2>0. PICK s : s = [task[c] EXCEPT !.pc = "connect"]
    OBVIOUS
  <2>1. task' = [task EXCEPT ![c] = s] /\ lock' = lock
    BY <1>3, <2>0 DEF CheckExists, Goto, Become
  <2>2. /\ task[c] \in Task /\ Formed(task[c]) /\ lock # c /\ task[c].blob = NONE
        /\ task[c].key \in Keys /\ task[c].secret \in Secrets /\ task[c].pc \in Steps
        /\ Op(c) = "create_vault" /\ FitAsk(task[c].ask)
    BY <1>1, CreatingFacts DEF Formed
  <2>3. "connect" \in Creating /\ "connect" \in Steps /\ "connect" \notin Locked
    BY DEF Creating, Making, Steps, Locked
  <2>4. /\ s \in Task /\ s.pc = "connect" /\ s.ask = task[c].ask /\ s.blob = NONE
        /\ s.key = task[c].key /\ s.secret = task[c].secret
    BY <2>0, <2>2, <2>3 DEF Task
  <2>5. Formed(s)
    BY <2>2, <2>3, <2>4 DEF Formed, StepFits, Op, Locked
  <2>6. task'[c] = s
    BY <2>1 DEF IInv
  <2>7. blobs = {} /\ \A d \in Calls : task[d].blob # NONE => task[d].blob.key = Foreign
    <3>1. \A k \in Keys : file # Vault(k)
      BY <1>3 DEF Vault
    <3>2. blobs = {}
      BY <3>1 DEF IInv, EveryBlobOpens
    <3>3. ASSUME NEW d \in Calls, task[d].blob # NONE
          PROVE  task[d].blob.key = Foreign
      <4>1. task[d].blob \in Blob /\ BlobOpens(task[d])
        BY <3>3 DEF IInv, Placed, Task
      <4> QED  BY <3>1, <3>3, <4>1 DEF BlobOpens, Blob
    <3> QED  BY <3>2, <3>3
  <2>8. file = Absent
    BY <1>3 DEF IInv, FileFits
  <2>9. Cleared(s)'
    <3>1. \A d \in Calls : task'[d].blob # NONE => task'[d].blob.key = Foreign
      BY <2>1, <2>4, <2>6, <2>7 DEF IInv
    <3> QED  BY <1>1, <2>4, <2>7, <2>8, <3>1 DEF Cleared, Absent
  <2>10. Placed(c)'
    <3>1. BlobOpens(s)'
      BY <2>4 DEF BlobOpens
    <3> QED  BY <2>1, <2>2, <2>3, <2>4, <2>5, <2>6, <2>9, <3>1 DEF Placed
  <2> QED  BY <1>1, <2>1, <2>2, <2>4, <2>10, TaskStep DEF IInv
<1> QED  BY <1>2, <1>3

\* A step of the create that changes the file: it is alone and nobody has a blob.
LEMMA MakingStep ==
    ASSUME IInv, NEW c \in Calls, task[c].pc \in Making,
           NEW s \in Task, task' = [task EXCEPT ![c] = s],
           UNCHANGED <<lock, blobs>>,
           file' \in File, db' \in Rows, Refers(db'), FileFits',
           Placed(c)'
    PROVE  IInv'
<1>1. task'[c] = s /\ \A d \in Calls : d # c => task'[d] = task[d]
  BY DEF IInv
<1>2. /\ Cleared(task[c]) /\ \A d \in Calls \ {c} : task[d].pc \notin Steps
  BY CreatingFacts DEF Creating, Making
<1>3. blobs = {} /\ \A d \in Calls : task[d].blob # NONE => task[d].blob.key = Foreign
  BY <1>2 DEF Cleared
<1>4. ASSUME NEW d \in Calls, d # c
      PROVE  Placed(d)'
  <2>1. task'[d] = task[d] /\ Placed(d) /\ task[d].pc \notin Steps
    BY <1>1, <1>2, <1>4 DEF IInv
  <2>2. Locked \subseteq Steps /\ Creating \subseteq Steps
    BY DEF Steps, Creating
  <2>3. BlobOpens(task[d])'
    BY <1>3, <2>1 DEF BlobOpens
  <2> QED  BY <2>1, <2>2, <2>3 DEF Placed
<1>5. AloneRuns'
  BY <1>1, <1>2 DEF AloneRuns
<1>6. EveryBlobOpens' /\ blobs' = {}
  BY <1>3 DEF EveryBlobOpens
<1>7. task' \in [Calls -> Task]
  BY DEF IInv
<1> QED  BY <1>4, <1>5, <1>6, <1>7 DEF IInv, Refers

\* Where a create is placed that goes on, or goes to clean up, with the same key.
LEMMA MakingIsPlaced ==
    ASSUME IInv, NEW c \in Calls, task[c].pc \in Making, NEW pc \in Creating \ {"exists"},
           NEW reply \in Replies \cup {NONE},
           NEW s, s = [task[c] EXCEPT !.pc = pc, !.reply = reply],
           task' = [task EXCEPT ![c] = s],
           pc = "clean" => reply \in {"AlreadyExists", "VaultOpen"},
           UNCHANGED <<lock, blobs>>,
           pc # "connect",
           pc = "schema" => file'.exists,
           pc \in Making => file'.key \in {NONE, task[c].key} /\ "loans" \notin file'.tables,
           pc = "wrap" => file' = Vault(task[c].key),
           file' \in File, db' \in Rows, Refers(db'), FileFits'
    PROVE  IInv'
<1>1. task[c].pc \in Creating /\ task[c].pc # "exists"
  BY DEF Creating, Making
<1>2. /\ task[c] \in Task /\ Formed(task[c]) /\ lock # c /\ task[c].blob = NONE
      /\ task[c].key \in Keys /\ task[c].secret \in Secrets /\ task[c].pc \in Steps
      /\ Op(c) = "create_vault" /\ FitAsk(task[c].ask) /\ Cleared(task[c])
  BY <1>1, CreatingFacts DEF Formed
<1>3. pc \in Steps /\ pc \notin Locked /\ pc # "idle" /\ pc # "answer" /\ pc # "loans"
  BY DEF Creating, Making, Steps, Locked
<1>4. /\ s \in Task /\ s.pc = pc /\ s.ask = task[c].ask /\ s.blob = NONE
      /\ s.key = task[c].key /\ s.secret = task[c].secret /\ s.reply = reply
  BY <1>2, <1>3 DEF Task
<1>5. StepFits(s.ask.op, pc)
  BY <1>2, <1>4 DEF StepFits, Op, Creating, Making, Locked
<1>6. Formed(s)
  BY <1>2, <1>3, <1>4, <1>5 DEF Formed
<1>7. task'[c] = s
  BY DEF IInv
<1>8. Cleared(s)'
  <2>1. \A d \in Calls : task'[d].blob # NONE => task'[d].blob.key = Foreign
    BY <1>2, <1>4, <1>7 DEF IInv, Cleared
  <2> QED  BY <1>2, <1>4, <2>1 DEF Cleared
<1>9. Placed(c)'
  <2>1. BlobOpens(s)'
    BY <1>4 DEF BlobOpens
  <2> QED  BY <1>2, <1>3, <1>4, <1>6, <1>7, <1>8, <2>1 DEF Placed
<1> QED  BY <1>4, <1>7, <1>9, MakingStep

\* The file of a create at work.
LEMMA MakingFile ==
    ASSUME IInv, NEW c \in Calls, task[c].pc \in Making
    PROVE  /\ task[c] \in Task /\ task[c].key \in Keys /\ task[c].ask.op = "create_vault"
           /\ file \in File /\ file.key \in {NONE, task[c].key} /\ "loans" \notin file.tables
           /\ db = EmptyRows
           /\ Touched \in File /\ Touched.key = file.key /\ Touched.tables = file.tables
           /\ Touched.exists
<1>1. task[c].pc \in Creating /\ task[c].pc # "exists"
  BY DEF Creating, Making
<1>2. /\ task[c] \in Task /\ task[c].key \in Keys /\ Op(c) = "create_vault"
      /\ Cleared(task[c]) /\ file \in File /\ FileFits
  BY <1>1, CreatingFacts DEF IInv
<1>3. file.tables # Tables
  BY <1>2 DEF Cleared, Tables
<1>4. /\ Touched \in File /\ Touched.key = file.key /\ Touched.tables = file.tables
      /\ Touched.exists
  BY <1>2 DEF Touched, FileFits, Absent, File
<1> QED  BY <1>2, <1>3, <1>4 DEF Cleared, FileFits, Op

LEMMA ConnectKeeps ==
    ASSUME IInv, NEW c \in Calls, Connect(c)
    PROVE  IInv'
<1>0. PICK pc : pc = "schema"
  OBVIOUS
<1>1. /\ task[c].pc = "connect" /\ task[c].pc \in Making /\ file' = Touched
      /\ task' = [task EXCEPT ![c] = [task[c] EXCEPT !.pc = pc]]
      /\ UNCHANGED <<db, lock, blobs>>
  BY <1>0 DEF Connect, At, Making, Goto, Become
<1>2. /\ task[c] \in Task /\ file'.key = file.key /\ file'.tables = file.tables
      /\ file'.exists /\ file' \in File
      /\ file.key \in {NONE, task[c].key} /\ "loans" \notin file.tables
  BY <1>1, MakingFile
<1>3. PICK s : s = [task[c] EXCEPT !.pc = pc, !.reply = task[c].reply]
  OBVIOUS
<1>4. task' = [task EXCEPT ![c] = s]
  <2>1. s = [task[c] EXCEPT !.pc = pc]
    BY <1>2, <1>3 DEF Task
  <2> QED  BY <1>1, <2>1
<1>5. FileFits'
  BY <1>1, <1>2 DEF FileFits, IInv
<1>6. /\ pc \in Creating \ {"exists"} /\ task[c].reply \in Replies \cup {NONE}
      /\ pc \notin {"clean", "connect", "wrap"}
  BY <1>0, <1>2 DEF Creating, Making, Task
<1>7. db' \in Rows /\ Refers(db')
  BY <1>1 DEF IInv
<1>8. file'.key \in {NONE, task[c].key} /\ "loans" \notin file'.tables
  BY <1>2
<1>9. /\ pc = "schema" => file'.exists
      /\ pc = "clean" => task[c].reply \in {"AlreadyExists", "VaultOpen"}
      /\ pc = "wrap" => file' = Vault(task[c].key)
      /\ pc # "connect" /\ file' \in File /\ task[c].pc \in Making /\ UNCHANGED <<lock, blobs>>
  BY <1>1, <1>2, <1>6
<1> QED  BY ONLY IInv, c \in Calls, <1>3, <1>4, <1>5, <1>6, <1>7, <1>8, <1>9, MakingIsPlaced

LEMMA CreateTableKeeps ==
    ASSUME IInv, NEW c \in Calls, CreateTable(c)
    PROVE  IInv'
<1> DEFINE key == task[c].key
           new == IF "borrowers" \in file.tables THEN "loans" ELSE "borrowers"
           pc == IF new = "loans" THEN "wrap" ELSE "schema"
<1>1. task[c].pc = "schema" /\ task[c].pc \in Making /\ UNCHANGED <<db, lock, blobs>>
  BY DEF CreateTable, At, Making
<1>2. /\ task[c] \in Task /\ key \in Keys /\ file \in File
      /\ file.key \in {NONE, key} /\ "loans" \notin file.tables /\ db = EmptyRows
  BY <1>1, MakingFile
<1>3. /\ file' = [file EXCEPT !.key = key, !.tables = @ \cup {new}]
      /\ task' = [task EXCEPT ![c] = [task[c] EXCEPT !.pc = pc]]
  BY <1>2 DEF CreateTable, Goto, Become
<1>4. [task[c] EXCEPT !.pc = pc] = [task[c] EXCEPT !.pc = pc, !.reply = task[c].reply]
  BY <1>2 DEF Task
<1>5. new \in Tables /\ file' \in File /\ file'.key = key /\ file'.exists = file.exists
      /\ file'.tables = file.tables \cup {new}
  BY <1>2, <1>3 DEF File, Tables
<1>6. file.exists
  BY <1>1, CreatingFacts DEF Cleared, Creating, Making
<1>7. new = "loans" => file' = Vault(key)
  <2>1. file' = [exists |-> file'.exists, key |-> file'.key, tables |-> file'.tables]
    BY <1>5 DEF File
  <2>2. new = "loans" => file.tables \cup {new} = Tables
    BY <1>2 DEF Tables, File
  <2> QED  BY <1>5, <1>6, <2>1, <2>2 DEF Vault
<1>8. FileFits'
  BY <1>1, <1>2, <1>5, <1>6, NoneIsApart DEF FileFits
<1>9. /\ pc \in Creating \ {"exists"} /\ pc \notin {"clean", "connect"}
      /\ pc \in Making => new = "borrowers"
      /\ pc = "wrap" => new = "loans"
      /\ task[c].reply \in Replies \cup {NONE}
  BY <1>2 DEF Creating, Making, Task
<1> HIDE DEF new, pc, key
<1>10. pc \in Making => "loans" \notin file'.tables
  BY <1>2, <1>5, <1>9
<1>11. PICK s : s = [task[c] EXCEPT !.pc = pc, !.reply = task[c].reply]
  OBVIOUS
<1>12. task' = [task EXCEPT ![c] = s]
  BY <1>3, <1>4, <1>11
<1>13. db' \in Rows /\ Refers(db')
  BY <1>1 DEF IInv
<1> QED
  BY <1>1, <1>2, <1>5, <1>6, <1>7, <1>8, <1>9, <1>10, <1>11, <1>12, <1>13, MakingIsPlaced
     DEF key

\* A create that fails goes to clean up.
LEMMA MakingFaultKeeps ==
    ASSUME IInv, NEW c \in Calls, MakingFault(c)
    PROVE  IInv'
<1>0. PICK pc : pc = "clean"
  OBVIOUS
<1>1. /\ task[c].pc \in Making /\ file' \in {file, Touched} /\ UNCHANGED <<db, lock, blobs>>
  BY DEF MakingFault, Making
<1>2. PICK error \in {"Open", "Key"} : CleansUp(c, error)
  BY DEF MakingFault
<1>3. PICK reply : reply = Mapped("create_vault", error)
  OBVIOUS
<1>4. reply \in {"AlreadyExists", "VaultOpen"}
  BY <1>2, <1>3 DEF Mapped, Excuses
<1>5. PICK s : s = [task[c] EXCEPT !.pc = pc, !.reply = reply]
  OBVIOUS
<1>6. task' = [task EXCEPT ![c] = s]
  BY <1>0, <1>2, <1>3, <1>5 DEF CleansUp, Become
<1>7. /\ file' \in File /\ file'.key = file.key /\ file'.tables = file.tables
      /\ file.key \in {NONE, task[c].key} /\ "loans" \notin file.tables
      /\ file' = file \/ file'.exists
  BY <1>1, MakingFile
<1>8. FileFits'
  <2>1. FileFits
    BY DEF IInv
  <2>2. CASE file' = file
    BY <1>1, <2>1, <2>2 DEF FileFits
  <2>3. CASE file'.exists
    BY <1>1, <1>7, <2>1, <2>3 DEF FileFits
  <2> QED  BY <1>7, <2>2, <2>3
<1>9. /\ pc \in Creating \ {"exists"} /\ pc \notin {"connect", "schema", "wrap"}
      /\ reply \in Replies \cup {NONE}
  BY <1>0, <1>4 DEF Creating, Making, Replies, Excuses
<1>10. db' \in Rows /\ Refers(db')
  BY <1>1 DEF IInv
<1>11. /\ pc \in Making => file'.key \in {NONE, task[c].key} /\ "loans" \notin file'.tables
       /\ pc = "clean" => reply \in {"AlreadyExists", "VaultOpen"}
       /\ pc = "schema" => file'.exists
       /\ pc = "wrap" => file' = Vault(task[c].key)
       /\ pc # "connect" /\ file' \in File /\ task[c].pc \in Making /\ UNCHANGED <<lock, blobs>>
  BY <1>1, <1>4, <1>7, <1>9
<1> QED
  BY ONLY IInv, c \in Calls, <1>5, <1>6, <1>8, <1>9, <1>10, <1>11, MakingIsPlaced

LEMMA CleanUpKeeps ==
    ASSUME IInv, NEW c \in Calls, CleanUp(c)
    PROVE  IInv'
<1>1. /\ task[c].pc = "clean" /\ task[c].pc \in Making /\ task[c].pc \in Creating
      /\ (file' = Absent /\ db' = EmptyRows) \/ UNCHANGED <<file, db>>
      /\ UNCHANGED <<lock, blobs>>
  BY DEF CleanUp, At, Making, Creating
<1>2. task[c].reply \in {"AlreadyExists", "VaultOpen"} /\ lock # c
  BY <1>1, CreatingFacts DEF Formed
<1>3. PICK s : s = [Idle EXCEPT !.pc = "answer", !.reply = task[c].reply]
  OBVIOUS
<1>4. task' = [task EXCEPT ![c] = s]
  BY <1>3 DEF CleanUp, Become
<1>5. task[c].reply \in Replies
  BY <1>2 DEF Replies, Excuses
<1>6. s \in Task /\ Formed(s) /\ s.pc = "answer" /\ s.blob = NONE
  BY <1>3, <1>5 DEF Idle, Task, Formed, Steps, Making, Locked, Creating
<1>7. task'[c] = s
  BY <1>4 DEF IInv
<1>8. Placed(c)'
  BY <1>1, <1>2, <1>6, <1>7, AnswerIsPlaced DEF BlobOpens
<1>9. file' \in File /\ db' \in Rows /\ Refers(db') /\ FileFits'
  <2>1. CASE file' = Absent /\ db' = EmptyRows
    BY <2>1, EmptyIsSound, NoneIsApart DEF Absent, File, FileFits, Sound
  <2>2. CASE UNCHANGED <<file, db>>
    BY <2>2 DEF IInv, FileFits
  <2> QED  BY <1>1, <2>1, <2>2
<1> QED  BY <1>1, <1>4, <1>6, <1>8, <1>9, MakingStep

\* The blob of a create opens the vault it made.
LEMMA WrapKeeps ==
    ASSUME IInv, NEW c \in Calls, Wrap(c)
    PROVE  IInv'
<1>1. /\ task[c].pc = "wrap" /\ task[c].pc \in Creating /\ task[c].pc # "exists"
      /\ UNCHANGED <<file, db, lock, blobs>>
  BY DEF Wrap, At, Creating
<1>2. /\ task[c].key \in Keys /\ task[c].secret \in Secrets /\ lock # c
      /\ Op(c) = "create_vault" /\ Cleared(task[c])
      /\ \A d \in Calls \ {c} : task[d].pc \notin Steps
  BY <1>1, CreatingFacts
<1>3. PICK w \in Wrapped(task[c].secret, task[c].key) :
          Become(c, [Answered(Op(c), w.error) EXCEPT !.blob = w.blob])
  BY DEF Wrap
<1>4. /\ w.error \in Errors
      /\ \/ w.error = "none" /\ w.blob = [secret |-> task[c].secret, key |-> task[c].key]
         \/ w.blob = NONE
  BY <1>3 DEF Wrapped, Errors
<1>5. PICK a : a = Answered("create_vault", w.error)
  OBVIOUS
<1>6. a \in Task /\ Formed(a) /\ a.pc = "answer" /\ a.reply = Mapped("create_vault", w.error)
  BY <1>4, <1>5, AnsweredIsFormed DEF Ops
<1>7. PICK s : s = [a EXCEPT !.blob = w.blob]
  OBVIOUS
<1>8. task' = [task EXCEPT ![c] = s]
  BY <1>2, <1>3, <1>5, <1>7 DEF Become
<1>9. w.blob \in Blob \cup {NONE}
  BY <1>2, <1>4 DEF Blob
<1>10. /\ s \in Task /\ s.pc = "answer" /\ s.reply = a.reply /\ s.ask = a.ask
       /\ s.blob = w.blob
  BY <1>6, <1>7, <1>9 DEF Task
<1>11. Formed(s)
  BY <1>6, <1>10 DEF Formed, Steps, Making, Locked, Creating
<1>12. BlobOpens(s)'
  <2>1. SUFFICES ASSUME w.blob # NONE
                 PROVE  file = Vault(w.blob.key) /\ s.reply = "vault"
    BY <1>1, <1>10 DEF BlobOpens
  <2>2. w.error = "none" /\ w.blob.key = task[c].key
    BY <1>4, <2>1
  <2>3. s.reply = "vault"
    BY <1>6, <1>10, <2>2 DEF Mapped, Success, Writes, Statements
  <2> QED  BY <1>1, <1>2, <2>2, <2>3 DEF Cleared
<1>13. task'[c] = s
  BY <1>8 DEF IInv
<1>14. Placed(c)'
  BY <1>1, <1>2, <1>10, <1>11, <1>12, <1>13, AnswerIsPlaced
<1>15. s.pc \notin Steps /\ Creating \subseteq Steps
  BY <1>10 DEF Steps, Making, Locked, Creating
<1> QED  BY <1>1, <1>2, <1>8, <1>10, <1>14, <1>15, TaskStep DEF IInv

-----------------------------------------------------------------------------
(* Answers, crashes, and the whole specification.                          *)

\* The caller keeps a blob only if no create is at work that has cleared the place.
LEMMA ReturnKeeps ==
    ASSUME IInv, NEW c \in Calls, Return(c)
    PROVE  IInv'
<1> DEFINE given == {b \in {task[c].blob} : b # NONE /\ b.key # Foreign}
<1>1. /\ task[c].pc = "answer" /\ task' = [task EXCEPT ![c] = Idle]
      /\ blobs' \in {blobs, blobs \cup given} /\ UNCHANGED <<file, db, lock>>
  BY DEF Return, At, Become
<1>2. /\ task'[c] = Idle /\ \A d \in Calls : d # c => task'[d] = task[d]
      /\ \A d \in Calls : Placed(d) /\ task[d] \in Task
      /\ task' \in [Calls -> Task]
  BY <1>1, IdleIsFormed DEF IInv
<1>3. \A b \in given : b \in [secret : Secrets, key : Keys] /\ file = Vault(b.key)
  BY <1>2 DEF Placed, BlobOpens, Task, Blob
<1>4. Placed(c)'
  <2>1. task[c].pc \notin Locked /\ lock # c
    BY <1>1, <1>2 DEF Placed, Locked
  <2>2. Idle.pc \notin Steps \cup Creating \cup Locked
    BY DEF Idle, Steps, Creating, Making, Locked
  <2> QED  BY <1>1, <1>2, <2>1, <2>2, IdleIsFormed DEF Placed, BlobOpens, Steps, Formed
<1>5. ASSUME NEW d \in Calls, d # c
      PROVE  Placed(d)'
  <2>1. task'[d] = task[d] /\ Placed(d) /\ blobs \subseteq blobs'
    BY <1>1, <1>2, <1>5
  <2>2. BlobOpens(task[d])'
    BY <1>1, <2>1 DEF Placed, BlobOpens
  <2>3. (task[d].pc \in Steps \ Creating => KeyKnown(task[d]))'
    BY <1>1, <2>1 DEF Placed, KeyKnown
  <2>4. ASSUME task[d].pc \in Creating \ {"exists"}
        PROVE  Cleared(task[d])'
    <3>1. Cleared(task[d])
      BY <2>1, <2>4 DEF Placed
    <3>2. given = {} /\ blobs' = {}
      BY <1>1, <3>1 DEF Cleared
    <3>3. \A e \in Calls : task'[e].blob # NONE => task'[e].blob.key = Foreign
      BY <1>2, <3>1, IdleIsFormed DEF Cleared
    <3>4. file' = file /\ task'[d] = task[d]
      BY <1>1, <2>1
    <3> QED  BY <3>1, <3>2, <3>3, <3>4 DEF Cleared
  <2>5. (task[d].pc \in Locked => Copies(task[d]))'
    BY <1>1, <2>1 DEF Placed, Copies
  <2> QED  BY <1>1, <2>1, <2>2, <2>3, <2>4, <2>5 DEF Placed, Formed
<1>6. AloneRuns'
  <2>1. Idle.pc \notin Steps
    BY DEF Idle, Steps, Making, Locked
  <2> QED  BY <1>2, <2>1 DEF IInv, AloneRuns, Op
<1>7. blobs' \subseteq [secret : Secrets, key : Keys] /\ EveryBlobOpens'
  BY <1>1, <1>3 DEF IInv, EveryBlobOpens
<1>8. file' \in File /\ db' \in Rows /\ Refers(db') /\ lock' \in Calls \cup {NONE} /\ FileFits'
  BY <1>1 DEF IInv, FileFits
<1> QED  BY <1>2, <1>4, <1>5, <1>6, <1>7, <1>8 DEF IInv, Refers

\* With no call in flight, only the file and the blobs are left to look at.
LEMMA IdleKeeps ==
    ASSUME task' = [c \in Calls |-> Idle], lock' = NONE,
           file' \in File, db' \in Rows, Refers(db'), FileFits',
           blobs' \subseteq [secret : Secrets, key : Keys], EveryBlobOpens'
    PROVE  IInv'
<1>1. \A c \in Calls : task'[c] = Idle
  OBVIOUS
<1>2. Idle.pc \notin Steps \cup Creating \cup Locked
  BY DEF Idle, Steps, Creating, Making, Locked
<1>3. \A c \in Calls : Placed(c)'
  BY <1>1, <1>2, IdleIsFormed, NoneIsApart DEF Placed, Formed, BlobOpens
<1>4. AloneRuns'
  BY <1>1, <1>2 DEF AloneRuns
<1> QED  BY <1>3, <1>4, IdleIsFormed DEF IInv, Refers

LEMMA CrashKeeps == ASSUME IInv, Crash  PROVE IInv'
<1>1. task' = [c \in Calls |-> Idle] /\ lock' = NONE /\ UNCHANGED <<file, db, blobs>>
  BY DEF Crash
<1>2. FileFits' /\ EveryBlobOpens'
  BY <1>1 DEF IInv, FileFits, EveryBlobOpens
<1> QED  BY <1>1, <1>2, IdleKeeps DEF IInv

LEMMA DiscardOrphanKeeps == ASSUME IInv, DiscardOrphan  PROVE IInv'
<1>1. /\ \A c \in Calls : task[c].pc = "idle"
      /\ file' = Absent /\ db' = EmptyRows /\ blobs = {} /\ UNCHANGED <<lock, task, blobs>>
  BY DEF DiscardOrphan, At
<1>2. \A c \in Calls : task[c] = Idle /\ lock # c
  BY <1>1 DEF IInv, Placed, Formed, Locked
<1>3. task' = [c \in Calls |-> Idle] /\ lock' = NONE
  BY <1>1, <1>2 DEF IInv
<1>4. file' \in File /\ FileFits' /\ db' \in Rows /\ Refers(db')
  BY <1>1, EmptyIsSound DEF Absent, File, FileFits
<1>5. EveryBlobOpens' /\ blobs' \subseteq [secret : Secrets, key : Keys]
  BY <1>1 DEF EveryBlobOpens
<1> QED  BY <1>3, <1>4, <1>5, IdleKeeps

LEMMA InitIsFit == ASSUME Init  PROVE IInv
<1>1. \A c \in Calls : task[c] = Idle
  BY DEF Init
<1>2. Idle.pc \notin Steps \cup Creating \cup Locked
  BY DEF Idle, Steps, Creating, Making, Locked
<1>3. \A c \in Calls : Placed(c)
  BY <1>1, <1>2, IdleIsFormed, NoneIsApart DEF Init, Placed, Formed, BlobOpens
<1>4. AloneRuns
  BY <1>1, <1>2 DEF AloneRuns
<1>5. file \in File /\ FileFits /\ db \in Rows /\ Refers(db)
  BY EmptyIsSound DEF Init, Absent, File, FileFits
<1> QED  BY <1>3, <1>4, <1>5, IdleIsFormed DEF Init, IInv, EveryBlobOpens

LEMMA NextKeeps == ASSUME IInv, [Next]_vars  PROVE IInv'
<1>1. ASSUME NEW c \in Calls, Called(c)
      PROVE  IInv'
  BY <1>1, CallWriteKeeps, CallUnlockKeeps, CallExchangeKeeps, CallCreateKeeps DEF Called
<1>2. ASSUME NEW c \in Calls, Deletes(c)
      PROVE  IInv'
  BY <1>2, BeginKeeps, LookupKeeps, CheckActiveKeeps, DeleteHistoryKeeps, DeleteRowKeeps,
     CommitKeeps DEF Deletes
<1>3. ASSUME NEW c \in Calls, Makes(c)
      PROVE  IInv'
  BY <1>3, CheckExistsKeeps, ConnectKeeps, CreateTableKeeps, CleanUpKeeps, WrapKeeps,
     MakingFaultKeeps DEF Makes
<1>4. ASSUME NEW c \in Calls,
             \/ OpenAndKey(c) \/ ReadBorrowers(c) \/ ReadLoans(c) \/ Statement(c)
             \/ Fault(c) \/ Return(c)
      PROVE  IInv'
  BY <1>4, OpenAndKeyKeeps, ReadBorrowersKeeps, ReadLoansKeeps, StatementKeeps, FaultKeeps,
     ReturnKeeps
<1>5. CASE UNCHANGED vars
  <2>1. /\ UNCHANGED <<file, db, lock, task, blobs>>
        /\ \A c \in Calls : Placed(c)
    BY <1>5 DEF vars, IInv
  <2>2. AloneRuns' /\ FileFits' /\ EveryBlobOpens' /\ Refers(db')
    BY <2>1 DEF IInv, AloneRuns, FileFits, EveryBlobOpens, Op
  <2>3. ASSUME NEW c \in Calls
        PROVE  Placed(c)'
    <3>1. Placed(c) /\ task'[c] = task[c]
      BY <2>1
    <3>2. BlobOpens(task[c])' /\ (KeyKnown(task[c]) => KeyKnown(task[c])')
      BY <2>1, <3>1 DEF Placed, BlobOpens, KeyKnown
    <3>3. Cleared(task[c]) => Cleared(task[c])'
      BY <2>1 DEF Cleared
    <3>4. Copies(task[c]) => Copies(task[c])'
      BY <2>1 DEF Copies
    <3> QED  BY <2>1, <3>1, <3>2, <3>3, <3>4 DEF Placed, Formed
  <2> QED  BY <2>1, <2>2, <2>3 DEF IInv, Refers
<1> QED  BY <1>1, <1>2, <1>3, <1>4, <1>5, CrashKeeps, DiscardOrphanKeeps DEF Next

\* IInv holds in every state: what each step relies on is there.
THEOREM Inductive == Spec => []IInv
BY InitIsFit, NextKeeps, PTL DEF Spec

\* The variables have their types, for any number of calls, secrets, keys and rows.
THEOREM TypesHold == Spec => []TypeOK
<1>1. IInv => TypeOK
  BY DEF IInv, TypeOK, Blob
<1> QED  BY <1>1, Inductive, PTL

\* However writes, deletes, faults and crashes of rust/src/vault.rs overlap, no committed
\* loan is without its borrower.
THEOREM LoansKeepBorrowers == Spec => []LoansHaveBorrowers
<1>1. IInv => LoansHaveBorrowers
  BY DEF IInv, LoansHaveBorrowers
<1> QED  BY <1>1, Inductive, PTL

\* A blob that create_vault or rewrap_blob handed out opens the database, which is whole,
\* whatever creates were refused, failed or were cut off since.
THEOREM BlobsOpen == Spec => []EveryBlobOpens
<1>1. IInv => EveryBlobOpens
  BY DEF IInv
<1> QED  BY <1>1, Inductive, PTL

\* Only a statement and the commit of a delete write rows.
LEMMA IdsStay ==
    ASSUME IInv, [Next]_vars, file' # Absent
    PROVE  IdsAreNew(db, db')
<1>1. CASE db' = db
  BY <1>1, SameIds DEF IInv
<1>2. ASSUME NEW c \in Calls, Statement(c)
      PROVE  IdsAreNew(db, db')
  <2>1. FitAsk(task[c].ask) /\ task[c].ask.op \in Statements
    BY <1>2 DEF Statement, At, IInv, Placed, Formed, StepFits, Steps
  <2>2. CASE file.tables = Tables
    <3>1. db' = Execute(db, task[c].ask).rows
      BY <1>2, <2>2 DEF Statement
    <3> QED  BY <2>1, <3>1, StatementIsSound DEF IInv
  <2>3. CASE file.tables # Tables
    BY <1>1, <1>2, <2>3 DEF Statement, Failed
  <2> QED  BY <2>2, <2>3
<1>3. ASSUME NEW c \in Calls, Commit(c)
      PROVE  IdsAreNew(db, db')
  <2>1. task[c].pc = "commit" /\ task[c].pc \in Locked /\ db' = task[c].rows
    BY <1>3 DEF Commit, At, Locked
  <2>2. Copies(task[c]) /\ task[c].ask.id \in Ids
    BY <2>1, DeletingFacts
  <2> QED  BY <2>1, <2>2, DeletedIsSound DEF Copies, IInv
<1>4. ASSUME NEW c \in Calls, CleanUp(c)
      PROVE  db' = db
  BY <1>4 DEF CleanUp
<1>5. ASSUME NEW c \in Calls, Called(c)
      PROVE  db' = db
  BY <1>5 DEF Called, CallInsertBorrower, CallUpdateBorrower, CallDeleteBorrower, CallInsertLoan,
     CallUpdateLoan, CallDeleteLoan, CallUnlockAndRead, CallCreate, CallRewrap,
     CallWrapForBiometric, Refuse, Enter
<1>6. ASSUME NEW c \in Calls,
             \/ Begin(c) \/ Lookup(c) \/ CheckActive(c) \/ DeleteHistory(c) \/ DeleteRow(c)
             \/ CheckExists(c) \/ Connect(c) \/ CreateTable(c) \/ Wrap(c) \/ MakingFault(c)
             \/ OpenAndKey(c) \/ ReadBorrowers(c) \/ ReadLoans(c) \/ Fault(c) \/ Return(c)
      PROVE  db' = db
  BY <1>6 DEF Begin, Lookup, CheckActive, DeleteHistory, DeleteRow, CheckExists, Connect,
     CreateTable, Wrap, MakingFault, OpenAndKey, ReadBorrowers, ReadLoans, Fault, Return
<1>7. DiscardOrphan => file' = Absent
  BY DEF DiscardOrphan
<1>8. Crash \/ UNCHANGED vars => db' = db
  BY DEF Crash, vars
<1> QED
  BY <1>1, <1>2, <1>3, <1>4, <1>5, <1>6, <1>7, <1>8 DEF Next, Deletes, Makes

\* An id names one row for good, whatever calls overlap: a row that appears has an id
\* above every id that was given out.
THEOREM IdsAreForGood == Spec => IdsNameOneRow
<1>1. IInv /\ [Next]_vars => [file' # Absent => IdsAreNew(db, db')]_vars
  BY IdsStay
<1> QED  BY <1>1, Inductive, PTL DEF Spec, IdsNameOneRow

-----------------------------------------------------------------------------
(* Reads that run alone.                                                   *)

\* Between its SELECTs a read has the borrowers that are committed, and what it answers
\* refers.
ReadFits == \A c \in Calls :
    /\ task[c].pc = "loans" => task[c].rows = [EmptyRows EXCEPT !.borrowers = db.borrowers]
    /\ task[c].pc = "answer" /\ task[c].rows # NONE => Refers(task[c].rows)

\* A step of a call that neither reads nor answers rows. The rows change under a read only
\* by a step of another call at work, and there is none.
LEMMA ReadStays ==
    ASSUME "unlock_and_read_vault" \in Alone, IInv, ReadFits, NEW c \in Calls,
           NEW s, task' = [task EXCEPT ![c] = s], s.pc # "loans",
           s.pc = "answer" => s.rows = NONE \/ Refers(s.rows),
           db' = db \/ task[c].pc \in Steps
    PROVE  ReadFits'
<1>1. task'[c] = s /\ \A d \in Calls : d # c => task'[d] = task[d]
  BY DEF IInv
<1>2. SUFFICES ASSUME NEW d \in Calls, d # c, task[d].pc = "loans"
               PROVE  db' = db
  BY <1>1 DEF ReadFits, Refers
<1>3. task[d].pc \in Steps /\ Op(d) = "unlock_and_read_vault"
  BY <1>2 DEF IInv, Placed, Formed, StepFits, Op, Steps
<1>4. task[c].pc \notin Steps
  BY <1>2, <1>3 DEF IInv, AloneRuns
<1> QED  BY <1>4

LEMMA EndAnswersNoRows ==
    ASSUME "unlock_and_read_vault" \in Alone, IInv, ReadFits, NEW c \in Calls,
           NEW op \in Ops, NEW error \in Errors, Become(c, Answered(op, error)),
           db' = db \/ task[c].pc \in Steps
    PROVE  ReadFits'
<1> DEFINE s == Answered(op, error)
<1>1. s.pc = "answer" /\ s.rows = NONE
  BY AnsweredIsFormed
<1>2. task' = [task EXCEPT ![c] = s]
  BY DEF Become
<1> HIDE DEF s
<1> QED  BY <1>1, <1>2, ReadStays

LEMMA CallReadFits ==
    ASSUME "unlock_and_read_vault" \in Alone, IInv, ReadFits, NEW c \in Calls, Called(c)
    PROVE  ReadFits'
<1>1. ASSUME NEW op \in Ops, NEW unfit, Refuse(c, op, unfit)
      PROVE  ReadFits'
  BY <1>1, EndAnswersNoRows DEF Refuse, Errors
<1>2. ASSUME NEW op \in Ops, NEW asks, Enter(c, op, asks)
      PROVE  ReadFits'
  <2>1. PICK a \in UnlockArgs, u \in UNION {Unwrapped(b.secret, b.blob) : b \in UnlockArgs} :
            /\ u \in Unwrapped(a.secret, a.blob)
            /\ \/ Become(c, Answered(op, u.error))
               \/ \E ask \in asks :
                      Become(c, [Idle EXCEPT !.pc = "open", !.ask = ask, !.key = u.key])
    BY <1>2 DEF Enter
  <2>2. u.error \in Errors /\ db' = db
    <3>1. u.error \in Errors
      BY <2>1, UnwrappedKey DEF UnlockArgs
    <3> QED  BY <1>2, <3>1 DEF Enter
  <2>3. CASE Become(c, Answered(op, u.error))
    BY <2>2, <2>3, <1>2, EndAnswersNoRows
  <2>4. CASE \E ask \in asks :
                 Become(c, [Idle EXCEPT !.pc = "open", !.ask = ask, !.key = u.key])
    <3>1. PICK ask \in asks :
              Become(c, [Idle EXCEPT !.pc = "open", !.ask = ask, !.key = u.key])
      BY <2>4
    <3>2. PICK s : s = [Idle EXCEPT !.pc = "open", !.ask = ask, !.key = u.key]
      OBVIOUS
    <3>3. s.pc = "open" /\ task' = [task EXCEPT ![c] = s]
      BY <3>1, <3>2 DEF Idle, Become
    <3> QED  BY <2>2, <3>3, ReadStays
  <2> QED  BY <2>1, <2>3, <2>4
<1>3. ASSUME NEW op \in Ops, NEW secret, NEW blob, NEW new,
             NEW s \in Exchange(op, secret, blob, new), Become(c, s), db' = db
      PROVE  ReadFits'
  <2>1. PICK u \in Unwrapped(secret, blob) :
            s \in IF u.error # "none" THEN {Answered(op, u.error)}
                  ELSE {[Answered(op, w.error) EXCEPT !.blob = w.blob] : w \in Wrapped(new, u.key)}
    BY <1>3 DEF Exchange
  <2>2. CASE s = Answered(op, u.error)
    BY <1>3, <2>1, <2>2, EndAnswersNoRows DEF Unwrapped, Errors
  <2>3. CASE s # Answered(op, u.error)
    <3>1. PICK w \in Wrapped(new, u.key) : s = [Answered(op, w.error) EXCEPT !.blob = w.blob]
      BY <2>1, <2>3
    <3>2. PICK a : a = Answered(op, w.error)
      OBVIOUS
    <3>3. w.error \in Errors
      BY <3>1 DEF Wrapped, Errors
    <3>4. a \in Task /\ a.pc = "answer" /\ a.rows = NONE
      BY <1>3, <3>2, <3>3, AnsweredIsFormed
    <3>5. s.pc = "answer" /\ s.rows = NONE
      BY <3>1, <3>2, <3>4 DEF Task
    <3> QED  BY <1>3, <3>5, ReadStays DEF Become
  <2> QED  BY <2>2, <2>3
<1>4. CASE CallCreate(c)
  <2>1. PICK a \in CreateArgs, key \in NewKeys :
            Become(c, [Idle EXCEPT !.pc = "exists", !.ask = Plain("create_vault"),
                                   !.secret = a.secret, !.key = key])
    BY <1>4 DEF CallCreate
  <2>2. PICK s : s = [Idle EXCEPT !.pc = "exists", !.ask = Plain("create_vault"),
                                  !.secret = a.secret, !.key = key]
    OBVIOUS
  <2>3. s.pc = "exists" /\ task' = [task EXCEPT ![c] = s] /\ db' = db
    BY <1>4, <2>1, <2>2 DEF Idle, Become, CallCreate
  <2> QED  BY <2>3, ReadStays
<1>5. CASE CallRewrap(c) \/ CallWrapForBiometric(c)
  <2>1. CASE CallRewrap(c)
    BY <1>3, <2>1 DEF CallRewrap, Ops
  <2>2. CASE CallWrapForBiometric(c)
    BY <1>3, <2>2 DEF CallWrapForBiometric, Ops
  <2> QED  BY <1>5, <2>1, <2>2
<1>6. Writes \cup {"unlock_and_read_vault"} \subseteq Ops
  BY DEF Ops
<1> QED
  BY <1>1, <1>2, <1>4, <1>5, <1>6 DEF Called, CallInsertBorrower, CallUpdateBorrower,
     CallDeleteBorrower, CallInsertLoan, CallUpdateLoan, CallDeleteLoan, CallUnlockAndRead,
     Writes, Statements

LEMMA ReadsReadFits ==
    ASSUME "unlock_and_read_vault" \in Alone, IInv, ReadFits, NEW c \in Calls,
           ReadBorrowers(c) \/ ReadLoans(c)
    PROVE  ReadFits'
<1>1. /\ task[c].pc \in Steps /\ task[c].pc \in {"borrowers", "loans"} /\ db' = db
      /\ task[c] \in Task /\ db \in Rows /\ Refers(db)
      /\ \A d \in Calls : d # c => task'[d] = task[d]
  BY DEF ReadBorrowers, ReadLoans, At, Steps, IInv, End, Become
<1>2. Op(c) \in Ops
  BY <1>1 DEF IInv, Placed, Formed, FitAsk, Ask, Op
<1>3. CASE End(c, "Read")
  BY <1>1, <1>2, <1>3, EndAnswersNoRows DEF End, Errors
<1>4. CASE ReadBorrowers(c) /\ "borrowers" \in file.tables
  <2>1. PICK rows : rows = [EmptyRows EXCEPT !.borrowers = db.borrowers]
    OBVIOUS
  <2>2. task'[c] = [task[c] EXCEPT !.pc = "loans", !.rows = rows]
    BY <1>4, <2>1 DEF ReadBorrowers, Become, IInv
  <2>3. task'[c].pc = "loans" /\ task'[c].rows = rows
    BY <1>1, <2>2 DEF Task
  <2> QED  BY <1>1, <2>1, <2>3 DEF ReadFits, Refers
<1>5. CASE ReadLoans(c) /\ "loans" \in file.tables
  <2>1. PICK rows : rows = [task[c].rows EXCEPT !.loans = db.loans]
    OBVIOUS
  <2>2. task[c].rows = [EmptyRows EXCEPT !.borrowers = db.borrowers]
    BY <1>5 DEF ReadFits, ReadLoans, At
  <2>3. rows.borrowers = db.borrowers /\ rows.loans = db.loans
    BY <2>1, <2>2 DEF EmptyRows
  <2>4. Refers(rows)
    BY <1>1, <2>3 DEF Refers
  <2>5. PICK a : a = Answered(Op(c), "none")
    OBVIOUS
  <2>6. PICK s : s = [a EXCEPT !.rows = rows]
    OBVIOUS
  <2>7. a \in Task /\ a.pc = "answer"
    BY <1>2, <2>5, AnsweredIsFormed DEF Errors
  <2>8. s.pc = "answer" /\ s.rows = rows
    BY <2>6, <2>7 DEF Task
  <2>9. task' = [task EXCEPT ![c] = s]
    BY <1>5, <2>1, <2>5, <2>6 DEF ReadLoans, Become
  <2> QED  BY <1>1, <2>4, <2>8, <2>9, ReadStays
<1> QED  BY <1>3, <1>4, <1>5 DEF ReadBorrowers, ReadLoans

\* A step of a call that goes on elsewhere, or ends.
LEMMA OtherReadFits ==
    ASSUME "unlock_and_read_vault" \in Alone, IInv, ReadFits, NEW c \in Calls,
           \/ OpenAndKey(c) \/ Statement(c) \/ Begin(c) \/ Lookup(c) \/ CheckActive(c)
           \/ DeleteHistory(c) \/ DeleteRow(c) \/ Commit(c)
           \/ CheckExists(c) \/ Connect(c) \/ CreateTable(c) \/ MakingFault(c) \/ Fault(c)
    PROVE  ReadFits'
<1>1. task[c].pc \in Steps /\ task[c] \in Task /\ Op(c) \in Ops
  <2>1. task[c].pc \in Steps
    BY DEF OpenAndKey, Statement, Begin, Lookup, CheckActive, DeleteHistory, DeleteRow, Commit,
           CheckExists, Connect, CreateTable, MakingFault, Fault, At, Steps, Making, Locked
  <2> QED  BY <2>1 DEF IInv, Placed, Formed, FitAsk, Ask, Op
<1>2. ASSUME NEW error \in Errors, Become(c, Answered(Op(c), error))
      PROVE  ReadFits'
  BY <1>1, <1>2, EndAnswersNoRows
<1>3. ASSUME NEW pc \in Steps \ {"loans"}, NEW rows, NEW reply,
             task' = [task EXCEPT ![c] = [task[c] EXCEPT !.pc = pc, !.rows = rows,
                                                         !.reply = reply]]
      PROVE  ReadFits'
  <2>1. PICK s : s = [task[c] EXCEPT !.pc = pc, !.rows = rows, !.reply = reply]
    OBVIOUS
  <2>2. s.pc = pc /\ task' = [task EXCEPT ![c] = s]
    BY <1>1, <1>3, <2>1 DEF Task
  <2>3. pc # "answer"
    BY DEF Steps, Making, Locked
  <2> QED  BY <1>1, <2>2, <2>3, ReadStays
<1>4. ASSUME NEW pc \in Steps \ {"loans"}, NEW rows,
             task' = [task EXCEPT ![c] = [task[c] EXCEPT !.pc = pc, !.rows = rows]]
      PROVE  ReadFits'
  <2>1. [task[c] EXCEPT !.pc = pc, !.rows = rows]
            = [task[c] EXCEPT !.pc = pc, !.rows = rows, !.reply = task[c].reply]
    BY <1>1 DEF Task
  <2> QED  BY <1>3, <1>4, <2>1
<1>5. ASSUME NEW pc \in Steps \ {"loans"}, Goto(c, pc)
      PROVE  ReadFits'
  <2>1. [task[c] EXCEPT !.pc = pc] = [task[c] EXCEPT !.pc = pc, !.rows = task[c].rows]
    BY <1>1 DEF Task
  <2> QED  BY <1>4, <1>5, <2>1 DEF Goto, Become
<1>6. ASSUME NEW error, CleansUp(c, error)
      PROVE  ReadFits'
  <2>1. PICK reply : reply = Mapped("create_vault", error)
    OBVIOUS
  <2>2. [task[c] EXCEPT !.pc = "clean", !.reply = reply]
            = [task[c] EXCEPT !.pc = "clean", !.rows = task[c].rows, !.reply = reply]
    BY <1>1 DEF Task
  <2>3. "clean" \in Steps \ {"loans"}
    BY DEF Steps, Making
  <2> QED  BY <1>3, <1>6, <2>1, <2>2, <2>3 DEF CleansUp, Become
<1>7. CASE OpenAndKey(c)
  <2>1. FirstStep(Op(c)) \in Steps \ {"loans"}
    BY DEF FirstStep, Steps
  <2> QED  BY <1>2, <1>5, <1>7, <2>1 DEF OpenAndKey, End, Errors
<1>8. CASE Statement(c)
  <2>1. FitAsk(task[c].ask) /\ task[c].ask.op \in Statements
    BY <1>8 DEF Statement, At, IInv, Placed, Formed, StepFits, Steps
  <2>2. Execute(db, task[c].ask).error \in Errors /\ Failed("Read", db).error \in Errors
    BY <2>1, StatementIsSound DEF IInv, Sound, RowErrors, Errors, Failed
  <2>3. \E error \in Errors : Become(c, Answered(Op(c), error))
    <3>1. CASE file.tables = Tables
      BY <1>8, <2>2, <3>1 DEF Statement, End
    <3>2. CASE file.tables # Tables
      BY <1>8, <2>2, <3>2 DEF Statement, End
    <3> QED  BY <3>1, <3>2
  <2> QED  BY <1>2, <2>3
<1>9. {"lookup", "active", "history", "row", "commit", "connect", "schema", "wrap"}
          \subseteq Steps \ {"loans"}
  BY DEF Steps, Making, Locked
<1>10. CASE Begin(c)
  BY <1>4, <1>9, <1>10 DEF Begin, Become
<1>11. CASE Lookup(c) \/ CheckActive(c)
  BY <1>2, <1>5, <1>9, <1>11 DEF Lookup, CheckActive, End, Errors
<1>12. CASE DeleteHistory(c)
  <2>1. task' = [task EXCEPT ![c] = [task[c] EXCEPT
                     !.pc = "row", !.rows = WithoutLoansOf(task[c].rows, task[c].ask.id)]]
    BY <1>1, <1>12 DEF DeleteHistory, Become, Task
  <2> QED  BY <1>4, <1>9, <2>1
<1>13. CASE DeleteRow(c)
  <2>1. task[c].pc = "row" /\ task[c].pc \in Locked
    BY <1>13 DEF DeleteRow, At, Locked
  <2>2. WithoutBorrower(task[c].rows, task[c].ask.id).error = "none"
    BY <2>1, DeletingFacts, DeletedIsSound DEF Copies, IInv
  <2> QED  BY <1>4, <1>9, <1>13, <2>2 DEF DeleteRow, Become
<1>14. CASE Commit(c)
  BY <1>2, <1>14 DEF Commit, End, Errors
<1>15. CASE CheckExists(c) \/ Connect(c)
  BY <1>2, <1>5, <1>9, <1>15 DEF CheckExists, Connect, End, Errors
<1>16. CASE CreateTable(c)
  BY <1>5, <1>6, <1>9, <1>16 DEF CreateTable
<1>17. CASE MakingFault(c)
  BY <1>6, <1>17 DEF MakingFault
<1>18. CASE Fault(c)
  BY <1>2, <1>18 DEF Fault, ErrorsAt, Errors
<1> QED
  BY <1>7, <1>8, <1>10, <1>11, <1>12, <1>13, <1>14, <1>15, <1>16, <1>17, <1>18

LEMMA EndsReadFits ==
    ASSUME "unlock_and_read_vault" \in Alone, IInv, ReadFits, NEW c \in Calls,
           CleanUp(c) \/ Wrap(c) \/ Return(c)
    PROVE  ReadFits'
<1>1. CASE CleanUp(c)
  <2>1. PICK s : s = [Idle EXCEPT !.pc = "answer", !.reply = task[c].reply]
    OBVIOUS
  <2>2. s.pc = "answer" /\ s.rows = NONE /\ task' = [task EXCEPT ![c] = s]
    BY <1>1, <2>1 DEF CleanUp, Become, Idle
  <2>3. task[c].pc \in Steps
    BY <1>1 DEF CleanUp, At, Steps, Making
  <2> QED  BY <2>2, <2>3, ReadStays
<1>2. CASE Wrap(c)
  <2>1. task[c].pc = "wrap" /\ task[c].pc \in Steps /\ db' = db
    BY <1>2 DEF Wrap, At, Steps
  <2>2. Op(c) \in Ops
    BY <2>1 DEF IInv, Placed, Formed, FitAsk, Ask, Op
  <2>3. PICK w \in Wrapped(task[c].secret, task[c].key) :
            Become(c, [Answered(Op(c), w.error) EXCEPT !.blob = w.blob])
    BY <1>2 DEF Wrap
  <2>4. w.error \in Errors
    BY <2>3 DEF Wrapped, Errors
  <2>5. PICK a : a = Answered(Op(c), w.error)
    OBVIOUS
  <2>6. PICK s : s = [a EXCEPT !.blob = w.blob]
    OBVIOUS
  <2>7. a \in Task /\ a.rows = NONE /\ a.pc = "answer"
    BY <2>2, <2>4, <2>5, AnsweredIsFormed
  <2>8. s.pc = "answer" /\ s.rows = NONE /\ task' = [task EXCEPT ![c] = s]
    BY <2>3, <2>5, <2>6, <2>7 DEF Become, Task
  <2> QED  BY <2>1, <2>8, ReadStays
<1>3. CASE Return(c)
  <2>1. task' = [task EXCEPT ![c] = Idle] /\ db' = db
    BY <1>3 DEF Return, Become
  <2>2. Idle.pc # "loans" /\ Idle.pc # "answer"
    BY DEF Idle
  <2> QED  BY <2>1, <2>2, ReadStays
<1> QED  BY <1>1, <1>2, <1>3

\* What a read answers is of one moment, when reads run alone as the app runs them: the
\* two SELECTs of open_and_read (rust/src/vault.rs) have no transaction around them.
THEOREM ReadsAreSnapshots ==
    ASSUME "unlock_and_read_vault" \in Alone
    PROVE  Spec => []ReadIsSnapshot
<1>1. Init => ReadFits
  BY DEF Init, ReadFits, Idle
<1>2. IInv /\ ReadFits /\ [Next]_vars => ReadFits'
  <2>1. SUFFICES ASSUME IInv, ReadFits, [Next]_vars
                 PROVE  ReadFits'
    OBVIOUS
  <2>2. ASSUME NEW c \in Calls, Called(c)
        PROVE  ReadFits'
    BY <2>1, <2>2, CallReadFits
  <2>3. ASSUME NEW c \in Calls, Deletes(c)
        PROVE  ReadFits'
    BY <2>1, <2>3, OtherReadFits DEF Deletes
  <2>4. ASSUME NEW c \in Calls, Makes(c)
        PROVE  ReadFits'
    BY <2>1, <2>4, OtherReadFits, EndsReadFits DEF Makes
  <2>5. ASSUME NEW c \in Calls,
               \/ OpenAndKey(c) \/ ReadBorrowers(c) \/ ReadLoans(c) \/ Statement(c)
               \/ Fault(c) \/ Return(c)
        PROVE  ReadFits'
    BY <2>1, <2>5, OtherReadFits, ReadsReadFits, EndsReadFits
  <2>6. CASE Crash
    BY <2>6 DEF Crash, ReadFits, Idle
  <2>7. CASE DiscardOrphan
    BY <2>7 DEF DiscardOrphan, ReadFits, At, Refers
  <2>8. CASE UNCHANGED vars
    BY <2>1, <2>8 DEF vars, ReadFits, Refers
  <2> QED  BY <2>1, <2>2, <2>3, <2>4, <2>5, <2>6, <2>7, <2>8 DEF Next
<1>3. ReadFits => ReadIsSnapshot
  BY DEF ReadFits, ReadIsSnapshot, At
<1> QED  BY <1>1, <1>2, <1>3, Inductive, PTL DEF Spec

=============================================================================
