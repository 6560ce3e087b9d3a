--------------------------- MODULE VaultRows_proofs ---------------------------
(***************************************************************************)
(* What the statements of VaultRows do to the rows: they keep their types, *)
(* they keep every loan with its borrower, and they never reuse an id.     *)
(***************************************************************************)
EXTENDS VaultRows, TLAPS

\* The errors of a statement.
RowErrors == {"none", "Constraint", "NotFound", "Read"}

\* An ask that the FFI boundary let through.
FitAsk(ask) ==
    /\ ask \in Ask
    /\ ask.op \in {"update_borrower", "delete_borrower", "update_loan", "delete_loan"}
           => ask.id \in Ids
    /\ ask.op \in {"insert_borrower", "update_borrower"} => ask.row \in Borrower
    /\ ask.op \in {"insert_loan", "update_loan"} => ask.row \in Loan

\* The result of a statement on rows.
Sound(rows, done) == /\ done.rows \in Rows
                     /\ Refers(done.rows)
                     /\ done.error \in RowErrors

\* A vault starts with rows that refer.
LEMMA EmptyIsSound == EmptyRows \in Rows /\ Refers(EmptyRows)
BY RowsAssumption DEF EmptyRows, Rows, Refers, Ids

\* The foreign key lets a statement through only if every loan keeps its borrower.
LEMMA EnforcedIsSound ==
    ASSUME NEW rows \in Rows, Refers(rows), NEW new \in Rows
    PROVE  Sound(rows, Enforced(rows, new))
BY DEF Enforced, Sound, Done, Failed, RowErrors

\* A refused statement leaves the rows.
LEMMA FailedIsSound ==
    ASSUME NEW rows \in Rows, Refers(rows), NEW error \in RowErrors
    PROVE  Sound(rows, Failed(error, rows))
BY DEF Sound, Failed

\* No row is new when none was written.
LEMMA SameIds ==
    ASSUME NEW rows \in Rows
    PROVE  IdsAreNew(rows, rows)
BY RowsAssumption DEF IdsAreNew, Rows, Ids

LEMMA EnforcedIds ==
    ASSUME NEW rows \in Rows, NEW new \in Rows, IdsAreNew(rows, new)
    PROVE  IdsAreNew(rows, Enforced(rows, new).rows)
BY SameIds DEF Enforced, Done, Failed

LEMMA InsertBorrowerIsSound ==
    ASSUME NEW rows \in Rows, Refers(rows), NEW name \in Borrower
    PROVE  /\ Sound(rows, InsertBorrower(rows, name))
           /\ IdsAreNew(rows, InsertBorrower(rows, name).rows)
<1> DEFINE new == [rows EXCEPT !.borrowers[rows.lastBorrower + 1] = name,
                               !.lastBorrower = @ + 1]
<1>1. CASE rows.lastBorrower = MaxId
  <2>1. InsertBorrower(rows, name) = Failed("Read", rows)
    BY <1>1 DEF InsertBorrower
  <2>2. Failed("Read", rows).rows = rows
    BY DEF Failed
  <2> QED  BY <2>1, <2>2, FailedIsSound, SameIds DEF RowErrors
<1>2. CASE rows.lastBorrower # MaxId
  <2>1. InsertBorrower(rows, name) = Enforced(rows, new)
    BY <1>2 DEF InsertBorrower
  <2>2. rows.lastBorrower \in 0..MaxId /\ rows.lastLoan \in 0..MaxId
    BY DEF Rows
  <2>3. rows.lastBorrower + 1 \in Ids /\ rows.lastBorrower + 1 \in 0..MaxId
    BY <1>2, <2>2, RowsAssumption DEF Ids
  <2>4. [rows.borrowers EXCEPT ![rows.lastBorrower + 1] = name] \in [Ids -> Borrower \cup {NONE}]
    BY <2>3 DEF Rows
  <2>5. new \in Rows
    BY <2>3, <2>4 DEF Rows
  <2>6. /\ new.lastBorrower = rows.lastBorrower + 1
        /\ new.loans = rows.loans /\ new.lastLoan = rows.lastLoan
        /\ new.borrowers = [rows.borrowers EXCEPT ![rows.lastBorrower + 1] = name]
    BY DEF Rows
  <2> HIDE DEF new
  <2>7. IdsAreNew(rows, new)
    BY <2>2, <2>3, <2>6, RowsAssumption DEF IdsAreNew, Rows, Ids
  <2> QED  BY <2>1, <2>5, <2>7, EnforcedIsSound, EnforcedIds
<1> QED  BY <1>1, <1>2

LEMMA UpdateBorrowerIsSound ==
    ASSUME NEW rows \in Rows, Refers(rows), NEW id \in Ids, NEW name \in Borrower
    PROVE  /\ Sound(rows, UpdateBorrower(rows, id, name))
           /\ IdsAreNew(rows, UpdateBorrower(rows, id, name).rows)
<1> DEFINE new == [rows EXCEPT !.borrowers[id] = name]
<1>1. CASE rows.borrowers[id] = NONE
  <2>1. UpdateBorrower(rows, id, name) = Failed("NotFound", rows)
    BY <1>1 DEF UpdateBorrower
  <2>2. Failed("NotFound", rows).rows = rows
    BY DEF Failed
  <2> QED  BY <2>1, <2>2, FailedIsSound, SameIds DEF RowErrors
<1>2. CASE rows.borrowers[id] # NONE
  <2>1. new \in Rows
    BY DEF Rows
  <2>2. UpdateBorrower(rows, id, name) = Enforced(rows, new)
    BY <1>2 DEF UpdateBorrower
  <2>3. IdsAreNew(rows, new)
    BY <1>2, RowsAssumption DEF IdsAreNew, Rows, Ids
  <2> HIDE DEF new
  <2> QED  BY <2>1, <2>2, <2>3, EnforcedIsSound, EnforcedIds
<1> QED  BY <1>1, <1>2

LEMMA InsertLoanIsSound ==
    ASSUME NEW rows \in Rows, Refers(rows), NEW loan \in Loan
    PROVE  /\ Sound(rows, InsertLoan(rows, loan))
           /\ IdsAreNew(rows, InsertLoan(rows, loan).rows)
<1> DEFINE new == [rows EXCEPT !.loans[rows.lastLoan + 1] = loan, !.lastLoan = @ + 1]
<1>1. CASE rows.lastLoan = MaxId
  <2>1. InsertLoan(rows, loan) = Failed("Read", rows)
    BY <1>1 DEF InsertLoan
  <2>2. Failed("Read", rows).rows = rows
    BY DEF Failed
  <2> QED  BY <2>1, <2>2, FailedIsSound, SameIds DEF RowErrors
<1>2. CASE rows.lastLoan # MaxId
  <2>1. InsertLoan(rows, loan) = Enforced(rows, new)
    BY <1>2 DEF InsertLoan
  <2>2. rows.lastBorrower \in 0..MaxId /\ rows.lastLoan \in 0..MaxId
    BY DEF Rows
  <2>3. rows.lastLoan + 1 \in Ids /\ rows.lastLoan + 1 \in 0..MaxId
    BY <1>2, <2>2, RowsAssumption DEF Ids
  <2>4. [rows.loans EXCEPT ![rows.lastLoan + 1] = loan] \in [Ids -> Loan \cup {NONE}]
    BY <2>3 DEF Rows
  <2>5. new \in Rows
    BY <2>3, <2>4 DEF Rows
  <2>6. /\ new.lastLoan = rows.lastLoan + 1
        /\ new.borrowers = rows.borrowers /\ new.lastBorrower = rows.lastBorrower
        /\ new.loans = [rows.loans EXCEPT ![rows.lastLoan + 1] = loan]
    BY DEF Rows
  <2> HIDE DEF new
  <2>7. IdsAreNew(rows, new)
    BY <2>2, <2>3, <2>6, RowsAssumption DEF IdsAreNew, Rows, Ids
  <2> QED  BY <2>1, <2>5, <2>7, EnforcedIsSound, EnforcedIds
<1> QED  BY <1>1, <1>2

LEMMA UpdateLoanIsSound ==
    ASSUME NEW rows \in Rows, Refers(rows), NEW id \in Ids, NEW loan \in Loan
    PROVE  /\ Sound(rows, UpdateLoan(rows, id, loan))
           /\ IdsAreNew(rows, UpdateLoan(rows, id, loan).rows)
<1> DEFINE new == [rows EXCEPT !.loans[id] = loan]
<1>1. CASE rows.loans[id] = NONE
  <2>1. UpdateLoan(rows, id, loan) = Failed("NotFound", rows)
    BY <1>1 DEF UpdateLoan
  <2>2. Failed("NotFound", rows).rows = rows
    BY DEF Failed
  <2> QED  BY <2>1, <2>2, FailedIsSound, SameIds DEF RowErrors
<1>2. CASE rows.loans[id] # NONE
  <2>1. new \in Rows
    BY DEF Rows
  <2>2. UpdateLoan(rows, id, loan) = Enforced(rows, new)
    BY <1>2 DEF UpdateLoan
  <2>3. IdsAreNew(rows, new)
    BY <1>2, RowsAssumption DEF IdsAreNew, Rows, Ids
  <2> HIDE DEF new
  <2> QED  BY <2>1, <2>2, <2>3, EnforcedIsSound, EnforcedIds
<1> QED  BY <1>1, <1>2

LEMMA DeleteLoanIsSound ==
    ASSUME NEW rows \in Rows, Refers(rows), NEW id \in Ids
    PROVE  /\ Sound(rows, DeleteLoan(rows, id))
           /\ IdsAreNew(rows, DeleteLoan(rows, id).rows)
<1> DEFINE new == [rows EXCEPT !.loans[id] = NONE]
<1>1. CASE rows.loans[id] = NONE
  <2>1. DeleteLoan(rows, id) = Failed("NotFound", rows)
    BY <1>1 DEF DeleteLoan
  <2>2. Failed("NotFound", rows).rows = rows
    BY DEF Failed
  <2> QED  BY <2>1, <2>2, FailedIsSound, SameIds DEF RowErrors
<1>2. CASE rows.loans[id] # NONE
  <2>1. new \in Rows
    BY DEF Rows
  <2>2. DeleteLoan(rows, id) = Enforced(rows, new)
    BY <1>2 DEF DeleteLoan
  <2>3. IdsAreNew(rows, new)
    BY <1>2, RowsAssumption DEF IdsAreNew, Rows, Ids
  <2> HIDE DEF new
  <2> QED  BY <2>1, <2>2, <2>3, EnforcedIsSound, EnforcedIds
<1> QED  BY <1>1, <1>2

\* A write command of one statement keeps every loan with its borrower and never gives an
\* id out twice, whatever it asks for.
THEOREM StatementIsSound ==
    ASSUME NEW rows \in Rows, Refers(rows), NEW ask, FitAsk(ask), ask.op \in Statements
    PROVE  /\ Sound(rows, Execute(rows, ask))
           /\ IdsAreNew(rows, Execute(rows, ask).rows)
<1>1. CASE ask.op = "insert_borrower"
  BY <1>1, InsertBorrowerIsSound DEF Execute, FitAsk
<1>2. CASE ask.op = "update_borrower"
  BY <1>2, UpdateBorrowerIsSound DEF Execute, FitAsk
<1>3. CASE ask.op = "insert_loan"
  BY <1>3, InsertLoanIsSound DEF Execute, FitAsk
<1>4. CASE ask.op = "update_loan"
  BY <1>4, UpdateLoanIsSound DEF Execute, FitAsk
<1>5. CASE ask.op = "delete_loan"
  BY <1>5, DeleteLoanIsSound DEF Execute, FitAsk
<1> QED  BY <1>1, <1>2, <1>3, <1>4, <1>5 DEF Statements

\* The two DELETEs of delete_borrower together never leave a loan behind: the key is not
\* violated, and the rows refer.
LEMMA DeletedIsSound ==
    ASSUME NEW rows \in Rows, Refers(rows), NEW id \in Ids
    PROVE  LET done == WithoutBorrower(WithoutLoansOf(rows, id), id)
           IN  /\ WithoutLoansOf(rows, id) \in Rows
               /\ Sound(rows, done)
               /\ done.error = "none"
               /\ IdsAreNew(rows, done.rows)
<1> DEFINE history == WithoutLoansOf(rows, id)
           new == [history EXCEPT !.borrowers[id] = NONE]
<1>1. history \in Rows
  BY DEF WithoutLoansOf, Rows
<1>2. \A l \in Ids : history.loans[l] # NONE
                        => history.loans[l] = rows.loans[l] /\ rows.loans[l].borrower # id
  BY DEF WithoutLoansOf, LoansOf, Rows
<1>3. /\ history.borrowers = rows.borrowers
      /\ history.lastBorrower = rows.lastBorrower
      /\ history.lastLoan = rows.lastLoan
  BY DEF WithoutLoansOf, Rows
<1> HIDE DEF history
<1>4. new \in Rows
  BY <1>1 DEF Rows
<1>5. Refers(new)
  BY <1>1, <1>2, <1>3 DEF Refers, Rows, Loan
<1>6. IdsAreNew(rows, new)
  BY <1>1, <1>2, <1>3, RowsAssumption DEF IdsAreNew, Rows, Ids
<1>7. WithoutBorrower(history, id) = Done(new)
  BY <1>5 DEF WithoutBorrower, Enforced
<1> HIDE DEF new
<1> QED  BY <1>1, <1>4, <1>5, <1>6, <1>7 DEF Sound, Done, RowErrors, history
=============================================================================
