------------------------------ MODULE VaultRows ------------------------------
(***************************************************************************)
(* The rows of the borrowers vault and the SQL statements of               *)
(* rust/src/vault.rs on them, as functions from rows to rows; the fields   *)
(* the FFI boundary refuses (rust/src/api.rs).                             *)
(*                                                                         *)
(* A borrower row is its name. A loan row is its borrower and whether it   *)
(* came back (returned_date is not NULL). Contacts, notes, books and the   *)
(* other dates are checked at the boundary and stored, and no statement    *)
(* looks at them.                                                          *)
(***************************************************************************)
EXTENDS Integers

CONSTANTS
    Names,      \* names of borrowers
    MaxId,      \* the largest row id (2^63 - 1 in SQLite)
    NONE        \* no row, no value

Ids == 1..MaxId

\* LoanRow and BorrowerRow.
Loan == [borrower : Ids, back : BOOLEAN]
Borrower == Names

ASSUME RowsAssumption == /\ MaxId \in Nat
                         /\ NONE \notin Names
                         /\ NONE \notin Loan
                         /\ Names \cap {"blank", "long"} = {}

\* VaultData: the two tables, and the ids that AUTOINCREMENT gave out last.
Rows == [borrowers    : [Ids -> Borrower \cup {NONE}],
         loans        : [Ids -> Loan \cup {NONE}],
         lastBorrower : 0..MaxId,
         lastLoan     : 0..MaxId]

EmptyRows == [borrowers    |-> [i \in Ids |-> NONE],
              loans        |-> [i \in Ids |-> NONE],
              lastBorrower |-> 0,
              lastLoan     |-> 0]

-----------------------------------------------------------------------------
(* Statements. A statement answers the rows after it and its error; a      *)
(* failed one is rolled back.                                              *)

Done(rows) == [error |-> "none", rows |-> rows]
Failed(error, rows) == [error |-> error, rows |-> rows]

\* The foreign key of the schema: each loan names a borrower that is there.
Refers(rows) == \A l \in Ids : rows.loans[l] # NONE =>
                    rows.borrowers[rows.loans[l].borrower] # NONE

\* A statement on a connection with foreign_keys = ON, and one without.
NotEnforced(rows, new) == Done(new)
Enforced(rows, new) == IF Refers(new) THEN Done(new) ELSE Failed("Constraint", rows)

\* The ids are AUTOINCREMENT: never one that was used; none is left after MaxId.
InsertBorrower(rows, name) ==
    IF rows.lastBorrower = MaxId
    THEN Failed("Read", rows)
    ELSE Enforced(rows, [rows EXCEPT !.borrowers[rows.lastBorrower + 1] = name,
                                     !.lastBorrower = @ + 1])

UpdateBorrower(rows, id, name) ==
    IF rows.borrowers[id] = NONE
    THEN Failed("NotFound", rows)
    ELSE Enforced(rows, [rows EXCEPT !.borrowers[id] = name])

\* A table without AUTOINCREMENT takes the first free id.
InsertLoanReusing(rows, loan) ==
    LET free == {i \in Ids : rows.loans[i] = NONE}
    IN  IF free = {} THEN Failed("Read", rows)
        ELSE LET i == CHOOSE i \in free : \A j \in free : i <= j
             IN  Enforced(rows, [rows EXCEPT !.loans[i] = loan, !.lastLoan = i])

InsertLoan(rows, loan) ==
    IF rows.lastLoan = MaxId
    THEN Failed("Read", rows)
    ELSE Enforced(rows, [rows EXCEPT !.loans[rows.lastLoan + 1] = loan,
                                     !.lastLoan = @ + 1])

\* No row is affected when the id is not there, and then no key is checked.
UpdateLoan(rows, id, loan) ==
    IF rows.loans[id] = NONE
    THEN Failed("NotFound", rows)
    ELSE Enforced(rows, [rows EXCEPT !.loans[id] = loan])

DeleteLoan(rows, id) ==
    IF rows.loans[id] = NONE
    THEN Failed("NotFound", rows)
    ELSE Enforced(rows, [rows EXCEPT !.loans[id] = NONE])

\* The loans of a borrower, and those that are still out.
LoansOf(rows, id) == {l \in Ids : rows.loans[l] # NONE /\ rows.loans[l].borrower = id}
ActiveOf(rows, id) == {l \in LoansOf(rows, id) : ~ rows.loans[l].back}

\* The two DELETEs of delete_borrower.
WithoutLoansOf(rows, id) ==
    [rows EXCEPT !.loans = [l \in Ids |-> IF l \in LoansOf(rows, id) THEN NONE ELSE @[l]]]
WithoutBorrower(rows, id) ==
    Enforced(rows, [rows EXCEPT !.borrowers[id] = NONE])

\* From old rows to new ones: a new row takes an id above every id given out before.
IdsAreNew(old, new) ==
    /\ old.lastBorrower <= new.lastBorrower
    /\ old.lastLoan <= new.lastLoan
    /\ \A i \in Ids : old.borrowers[i] = NONE /\ new.borrowers[i] # NONE
                         => old.lastBorrower < i /\ i <= new.lastBorrower
    /\ \A i \in Ids : old.loans[i] = NONE /\ new.loans[i] # NONE
                         => old.lastLoan < i /\ i <= new.lastLoan

-----------------------------------------------------------------------------
(* What a call asks for.                                                   *)

Statements == {"insert_borrower", "update_borrower",
               "insert_loan", "update_loan", "delete_loan"}
Writes == Statements \cup {"delete_borrower"}
Ops == Writes \cup {"create_vault", "unlock_and_read_vault",
                    "rewrap_blob", "wrap_for_biometric"}

\* The operation, the row it is about and what is to be stored there.
Ask == [op : Ops, id : Ids \cup {NONE}, row : Borrower \cup Loan \cup {NONE}]
Asks(op, id, row) == [op |-> op, id |-> id, row |-> row]
Plain(op) == Asks(op, NONE, NONE)

\* The one statement of a call that has one.
Execute(rows, ask) ==
    CASE ask.op = "insert_borrower" -> InsertBorrower(rows, ask.row)
      [] ask.op = "update_borrower" -> UpdateBorrower(rows, ask.id, ask.row)
      [] ask.op = "insert_loan"     -> InsertLoan(rows, ask.row)
      [] ask.op = "update_loan"     -> UpdateLoan(rows, ask.id, ask.row)
      [] ask.op = "delete_loan"     -> DeleteLoan(rows, ask.id)

\* The fields of the write commands as they cross the boundary. A text or a date is a
\* value that fits or one that does not; 0 stands for every id below one.
Texts == {"fits", "long"}
Dates == {"fits", "outside"}
BorrowerFields == [name : Borrower \cup {"blank", "long"}, text : Texts]
LoanFields == [book : {0, 1}, borrower : 0..MaxId, lent : Dates,
               returned : Dates \cup {"null"}, text : Texts]

\* What the FFI decodes for each write command, next to the secret and the blob.
InsertBorrowerArgs == [id : {NONE}, fields : BorrowerFields]
UpdateBorrowerArgs == [id : Ids, fields : BorrowerFields]
DeleteBorrowerArgs == [id : Ids, fields : {NONE}]
InsertLoanArgs     == [id : {NONE}, fields : LoanFields]
UpdateLoanArgs     == [id : Ids, fields : LoanFields]
DeleteLoanArgs     == [id : Ids, fields : {NONE}]

\* Before any key is made: the first field that does not fit refuses the call.
ValidBorrower(f) == f.name \notin {"blank", "long"} /\ f.text # "long"
ValidLoan(f) == /\ f.book > 0
                /\ f.borrower > 0
                /\ f.lent # "outside"
                /\ f.returned # "outside"
                /\ f.text # "long"

FitBorrowers(args) == {a \in args : ValidBorrower(a.fields)}
FitLoans(args) == {a \in args : ValidLoan(a.fields)}

\* The rows that valid fields are stored as.
BorrowerOf(f) == f.name
LoanOf(f) == [borrower |-> f.borrower, back |-> f.returned # "null"]

-----------------------------------------------------------------------------
(* The answers. What an operation gives when nothing fails, and the error  *)
(* of each layer as the caller of an operation sees it.                    *)

Success(op) == CASE op \in Writes -> "done"
                 [] op = "unlock_and_read_vault" -> "rows"
                 [] op = "create_vault" -> "vault"
                 [] OTHER -> "blob"

MappedRaw(op, error) == IF error = "none" THEN Success(op) ELSE error

Mapped(op, error) ==
    CASE error = "none" -> Success(op)
      [] error \in {"InvalidFormat", "UnwrapKdf"} -> "Corrupt"
      [] error \in {"WrapKdf", "Encrypt"} -> "Wrap"
      [] error = "Open" /\ op = "create_vault" -> "AlreadyExists"
      [] error \in {"Constraint", "NotFound"} /\ op \notin Writes -> "VaultOpen"
      [] error \in {"Open", "Key", "Read"} -> "VaultOpen"
      [] OTHER -> error

\* Refusals that say nothing of the rows, and all answers.
Excuses == {"Corrupt", "WrongPassphrase", "VaultOpen", "Validation", "AlreadyExists", "Wrap"}
Replies == Excuses \cup {"done", "rows", "vault", "blob", "Constraint", "NotFound"}
=============================================================================
