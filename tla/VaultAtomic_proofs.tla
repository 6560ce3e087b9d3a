--------------------------- MODULE VaultAtomic_proofs ---------------------------
(***************************************************************************)
(* VaultCore implements AtomicVault, for any number of calls, secrets,     *)
(* keys, names and rows. Each step of a call is a step of the atomic call, *)
(* or none: a write takes effect at its one statement or at the commit of  *)
(* its transaction, a create at its second table.                          *)
(***************************************************************************)
EXTENDS VaultCore_proofs

Deleted(id) == WithoutBorrower(WithoutLoansOf(db, id), id)

-----------------------------------------------------------------------------
(* The two modules mean the same by the rows and the answers.              *)

LEMMA SameAnswer ==
    ASSUME NEW op, NEW error
    PROVE  Atomic!Mapped(op, error) = Mapped(op, error)
BY DEF Atomic!Mapped, Mapped, Atomic!Success, Success, Atomic!Writes, Writes,
       Atomic!Statements, Statements

LEMMA SameRule ==
    ASSUME NEW rows, NEW new
    PROVE  Atomic!Enforced(rows, new) = Enforced(rows, new)
BY DEF Atomic!Enforced, Enforced, Atomic!Refers, Refers, Atomic!Ids, Ids,
       Atomic!Done, Done, Atomic!Failed, Failed

LEMMA SameStatement ==
    ASSUME NEW rows, NEW ask, ask.op \in Statements
    PROVE  Atomic!Execute(rows, ask) = Execute(rows, ask)
<1>1. CASE ask.op = "insert_borrower"
  BY <1>1, SameRule DEF Atomic!Execute, Execute, Atomic!InsertBorrower, InsertBorrower,
                        Atomic!Failed, Failed
<1>2. CASE ask.op = "update_borrower"
  BY <1>2, SameRule DEF Atomic!Execute, Execute, Atomic!UpdateBorrower, UpdateBorrower,
                        Atomic!Failed, Failed
<1>3. CASE ask.op = "insert_loan"
  BY <1>3, SameRule DEF Atomic!Execute, Execute, Atomic!InsertLoan, InsertLoan,
                        Atomic!Failed, Failed
<1>4. CASE ask.op = "update_loan"
  BY <1>4, SameRule DEF Atomic!Execute, Execute, Atomic!UpdateLoan, UpdateLoan,
                        Atomic!Failed, Failed
<1>5. CASE ask.op = "delete_loan"
  BY <1>5, SameRule DEF Atomic!Execute, Execute, Atomic!DeleteLoan, DeleteLoan,
                        Atomic!Failed, Failed
<1> QED  BY <1>1, <1>2, <1>3, <1>4, <1>5 DEF Statements

LEMMA SameDelete ==
    ASSUME NEW id
    PROVE  Atomic!DeleteBorrower(id) = IF db.borrowers[id] = NONE THEN Failed("NotFound", db)
                                       ELSE IF ActiveOf(db, id) # {} THEN Failed("Constraint", db)
                                       ELSE Deleted(id)
<1>1. Atomic!ActiveOf(db, id) = ActiveOf(db, id)
  BY DEF Atomic!ActiveOf, ActiveOf, Atomic!LoansOf, LoansOf, Atomic!Ids, Ids
<1>2. Atomic!WithoutLoansOf(db, id) = WithoutLoansOf(db, id)
  BY DEF Atomic!WithoutLoansOf, WithoutLoansOf, Atomic!LoansOf, LoansOf, Atomic!Ids, Ids
<1>3. \A rows : Atomic!WithoutBorrower(rows, id) = WithoutBorrower(rows, id)
  BY SameRule DEF Atomic!WithoutBorrower, WithoutBorrower
<1> QED  BY <1>1, <1>2, <1>3 DEF Atomic!DeleteBorrower, Deleted, Atomic!Failed, Failed

-----------------------------------------------------------------------------
(* What a step of a task is to the atomic call.                            *)

LEMMA AtomicStep ==
    ASSUME IInv, NEW c \in Calls, NEW s, task' = [task EXCEPT ![c] = s],
           Atomic!Step(Abstracted(task[c]), Abstracted(s))
    PROVE  Atomic!Next
<1>1. task'[c] = s /\ \A d \in Calls \ {c} : task'[d] = task[d]
  BY DEF IInv
<1> DEFINE call == [d \in Calls |-> Abstracted(task[d])]
<1>2. \A d \in Calls \ {c} : call'[d] = call[d]
  BY <1>1
<1>3. DOMAIN call' = Calls
  OBVIOUS
<1>4. call[c] = Abstracted(task[c]) /\ call'[c] = Abstracted(s)
  BY <1>1
<1> HIDE DEF call
<1>5. Atomic!Step(call[c], call'[c])
  BY <1>4
<1> QED  BY <1>2, <1>3, <1>5 DEF Atomic!Next, call

LEMMA AtomicStutter ==
    ASSUME IInv, NEW c \in Calls, NEW s, task' = [task EXCEPT ![c] = s],
           Abstracted(s) = Abstracted(task[c]),
           (file.tables = Tables)' = (file.tables = Tables), UNCHANGED <<db, blobs>>
    PROVE  UNCHANGED Atomic!vars
<1>1. \A d \in Calls : Abstracted(task'[d]) = Abstracted(task[d])
  BY DEF IInv
<1> QED  BY <1>1 DEF Atomic!vars

\* A task that answers.
LEMMA AbstractAnswer ==
    ASSUME NEW s, s.pc = "answer", s.ask = NONE
    PROVE  Abstracted(s) = Atomic!Answered(s.reply)
BY DEF Abstracted, Atomic!Answered

LEMMA AbstractRunning ==
    ASSUME NEW s, s.pc \in Steps \ {"wrap"}
    PROVE  Abstracted(s) = Atomic!Running(s.ask)
<1>1. s.pc # "idle" /\ s.pc # "answer" /\ s.pc # "wrap"
  BY DEF Steps, Making, Locked
<1> QED  BY <1>1 DEF Abstracted, Atomic!Running

LEMMA AbstractIdle ==
    ASSUME NEW s, s.pc = "idle", Formed(s)
    PROVE  Abstracted(s) = Atomic!Idle
BY DEF Abstracted, Atomic!Idle, Formed, Idle

-----------------------------------------------------------------------------
(* Answers that change nothing.                                            *)

LEMMA AnswerIsAtomic ==
    ASSUME IInv, NEW c \in Calls, task[c].pc = "idle" \/ task[c].pc \in Steps \ {"wrap"},
           NEW s, task' = [task EXCEPT ![c] = s], s.pc = "answer", s.ask = NONE,
           s.reply \in Excuses \cup {"rows", "blob"},
           (file.tables = Tables)' = (file.tables = Tables), UNCHANGED <<db, blobs>>
    PROVE  Atomic!Next
<1>1. Abstracted(s) = Atomic!Answered(s.reply)
  BY AbstractAnswer
<1>2. Abstracted(task[c]).at \in {"idle", "running"}
  <2>1. CASE task[c].pc = "idle"
    BY <2>1 DEF Abstracted
  <2>2. CASE task[c].pc \in Steps \ {"wrap"}
    BY <2>2, AbstractRunning DEF Atomic!Running
  <2> QED  BY <2>1, <2>2
<1>3. Abstracted(s).reply = s.reply
  BY <1>1 DEF Atomic!Answered
<1>4. s.reply \in Atomic!Excuses \cup {"rows", "blob"}
  BY DEF Excuses, Atomic!Excuses
<1>5. (blobs # {})' = (blobs # {})
  OBVIOUS
<1>6. Atomic!Answer(Abstracted(task[c]), Abstracted(s))
  BY <1>1, <1>2, <1>3, <1>4, <1>5 DEF Atomic!Answer
<1> QED  BY <1>6, AtomicStep DEF Atomic!Step

\* A call that ends with a reply that does not speak of the rows.
LEMMA EndIsAtomic ==
    ASSUME IInv, NEW c \in Calls, task[c].pc = "idle" \/ task[c].pc \in Steps \ {"wrap"},
           NEW op \in Ops, NEW error \in Errors, Become(c, Answered(op, error)),
           Mapped(op, error) \in Excuses \cup {"rows", "blob"},
           (file.tables = Tables)' = (file.tables = Tables), UNCHANGED <<db, blobs>>
    PROVE  Atomic!Next
<1> DEFINE s == Answered(op, error)
<1>1. s.pc = "answer" /\ s.ask = NONE /\ s.reply = Mapped(op, error)
  BY AnsweredIsFormed
<1>2. task' = [task EXCEPT ![c] = s]
  BY DEF Become
<1> HIDE DEF s
<1> QED  BY <1>1, <1>2, AnswerIsAtomic

\* The errors of the file and of the blob, on any path.
LEMMA ErrorExcuses ==
    ASSUME NEW op \in Ops
    PROVE  /\ Mapped(op, "Validation") \in Excuses
           /\ \A error \in {"InvalidFormat", "UnwrapKdf", "WrongPassphrase", "WrapKdf", "Encrypt"} :
                  Mapped(op, error) \in Excuses
           /\ \A error \in {"Open", "Key", "Read"} : Mapped(op, error) \in Excuses
BY DEF Mapped, Excuses

LEMMA RefuseIsAtomic ==
    ASSUME IInv, NEW c \in Calls, NEW op \in Ops, NEW unfit, Refuse(c, op, unfit)
    PROVE  Atomic!Next
BY EndIsAtomic, ErrorExcuses DEF Refuse, At, Errors

LEMMA EnterIsAtomic ==
    ASSUME IInv, NEW c \in Calls, NEW op \in Writes \cup {"unlock_and_read_vault"}, NEW asks,
           \A ask \in asks : ask.op = op,
           Enter(c, op, asks)
    PROVE  Atomic!Next
<1>1. op \in Ops
  BY DEF Ops
<1>2. PICK u \in UNION {Unwrapped(a.secret, a.blob) : a \in UnlockArgs} :
          \/ /\ u.error # "none"
             /\ Become(c, Answered(op, u.error))
          \/ /\ u.error = "none"
             /\ \E ask \in asks :
                    Become(c, [Idle EXCEPT !.pc = "open", !.ask = ask, !.key = u.key])
  BY DEF Enter
<1>3. task[c].pc = "idle" /\ Formed(task[c]) /\ UNCHANGED <<file, db, blobs>>
  BY DEF Enter, At, IInv, Placed
<1>4. u.error \in {"none", "InvalidFormat", "UnwrapKdf", "WrongPassphrase"}
  <2>1. PICK a \in UnlockArgs : u \in Unwrapped(a.secret, a.blob)
    BY <1>2
  <2> QED  BY <2>1 DEF Unwrapped
<1>5. CASE u.error # "none" /\ Become(c, Answered(op, u.error))
  BY <1>1, <1>3, <1>4, <1>5, ErrorExcuses, EndIsAtomic DEF Errors
<1>6. CASE \E ask \in asks : Become(c, [Idle EXCEPT !.pc = "open", !.ask = ask, !.key = u.key])
  <2>1. PICK ask \in asks : Become(c, [Idle EXCEPT !.pc = "open", !.ask = ask, !.key = u.key])
    BY <1>6
  <2>2. PICK s : s = [Idle EXCEPT !.pc = "open", !.ask = ask, !.key = u.key]
    OBVIOUS
  <2>3. task' = [task EXCEPT ![c] = s]
    BY <2>1, <2>2 DEF Become
  <2>4. s.pc = "open" /\ s.ask = ask
    BY <2>2 DEF Idle
  <2>5. Abstracted(s) = Atomic!Running(ask)
    <3>1. s.pc \in Steps \ {"wrap"}
      BY <2>4 DEF Steps
    <3> QED  BY <2>4, <3>1, AbstractRunning
  <2>6. Atomic!Begin(Abstracted(task[c]), Abstracted(s))
    <3>1. Abstracted(task[c]).at = "idle"
      BY <1>3 DEF Abstracted
    <3>2. Abstracted(s).ask = ask /\ ask.op \in Atomic!Ops
      BY <1>1, <2>5 DEF Atomic!Running, Ops, Atomic!Ops, Writes, Atomic!Writes,
                        Statements, Atomic!Statements
    <3> QED  BY <1>3, <2>5, <3>1, <3>2 DEF Atomic!Begin
  <2> QED  BY <2>3, <2>6, AtomicStep DEF Atomic!Step
<1> QED  BY <1>2, <1>5, <1>6

LEMMA CallIsAtomic ==
    ASSUME IInv, NEW c \in Calls,
           \/ CallInsertBorrower(c) \/ CallUpdateBorrower(c) \/ CallDeleteBorrower(c)
           \/ CallInsertLoan(c) \/ CallUpdateLoan(c) \/ CallDeleteLoan(c)
           \/ CallUnlockAndRead(c)
    PROVE  Atomic!Next
<1>1. \A op, id, row : Asks(op, id, row).op = op
  BY DEF Asks
<1>2. Writes \subseteq Ops
  BY DEF Ops
<1>3. CASE CallInsertBorrower(c)
  BY <1>1, <1>2, <1>3, RefuseIsAtomic, EnterIsAtomic DEF CallInsertBorrower, Writes, Statements
<1>4. CASE CallUpdateBorrower(c)
  BY <1>1, <1>2, <1>4, RefuseIsAtomic, EnterIsAtomic DEF CallUpdateBorrower, Writes, Statements
<1>5. CASE CallDeleteBorrower(c)
  BY <1>1, <1>2, <1>5, RefuseIsAtomic, EnterIsAtomic DEF CallDeleteBorrower, Writes, Statements
<1>6. CASE CallInsertLoan(c)
  BY <1>1, <1>2, <1>6, RefuseIsAtomic, EnterIsAtomic DEF CallInsertLoan, Writes, Statements
<1>7. CASE CallUpdateLoan(c)
  BY <1>1, <1>2, <1>7, RefuseIsAtomic, EnterIsAtomic DEF CallUpdateLoan, Writes, Statements
<1>8. CASE CallDeleteLoan(c)
  BY <1>1, <1>2, <1>8, RefuseIsAtomic, EnterIsAtomic DEF CallDeleteLoan, Writes, Statements
<1>9. CASE CallUnlockAndRead(c)
  BY <1>1, <1>9, EnterIsAtomic DEF CallUnlockAndRead, Plain
<1> QED  BY <1>3, <1>4, <1>5, <1>6, <1>7, <1>8, <1>9

LEMMA ExchangeIsAtomic ==
    ASSUME IInv, NEW c \in Calls, At(c, "idle"), NEW op \in {"rewrap_blob", "wrap_for_biometric"},
           NEW secret, NEW new, NEW blob,
           NEW s \in Exchange(op, secret, blob, new), Become(c, s),
           UNCHANGED <<file, db, lock, blobs>>
    PROVE  Atomic!Next
<1>1. PICK u \in Unwrapped(secret, blob) :
          s \in IF u.error # "none" THEN {Answered(op, u.error)}
                ELSE {[Answered(op, w.error) EXCEPT !.blob = w.blob] : w \in Wrapped(new, u.key)}
  BY DEF Exchange
<1>2. op \in Ops /\ task[c].pc = "idle"
  BY DEF Ops, At
<1>3. CASE u.error # "none"
  <2>1. s = Answered(op, u.error) /\ u.error \in {"InvalidFormat", "UnwrapKdf", "WrongPassphrase"}
    BY <1>1, <1>3 DEF Unwrapped
  <2> QED  BY <1>2, <2>1, ErrorExcuses, EndIsAtomic DEF Errors
<1>4. CASE u.error = "none"
  <2>1. PICK w \in Wrapped(new, u.key) : s = [Answered(op, w.error) EXCEPT !.blob = w.blob]
    BY <1>1, <1>4
  <2>2. w.error \in {"none", "WrapKdf", "Encrypt"} /\ w.error \in Errors
    BY DEF Wrapped, Errors
  <2> DEFINE a == Answered(op, w.error)
  <2>3. a \in Task /\ a.pc = "answer" /\ a.ask = NONE /\ a.reply = Mapped(op, w.error)
    BY <1>2, <2>2, AnsweredIsFormed
  <2>4. s = [a EXCEPT !.blob = w.blob]
    BY <2>1
  <2> HIDE DEF a
  <2>5. s.pc = "answer" /\ s.ask = NONE /\ s.reply = Mapped(op, w.error)
    BY <2>3, <2>4 DEF Task
  <2>6. Mapped(op, w.error) \in Excuses \cup {"rows", "blob"}
    <3>1. Mapped(op, "none") = "blob"
      BY DEF Mapped, Success, Writes, Statements
    <3> QED  BY <1>2, <2>2, <3>1, ErrorExcuses
  <2>7. task' = [task EXCEPT ![c] = s]
    BY DEF Become
  <2> QED  BY <1>2, <2>5, <2>6, <2>7, AnswerIsAtomic
<1> QED  BY <1>3, <1>4

LEMMA CallExchangeIsAtomic ==
    ASSUME IInv, NEW c \in Calls, CallRewrap(c) \/ CallWrapForBiometric(c)
    PROVE  Atomic!Next
<1>1. CASE CallRewrap(c)
  <2>1. PICK a \in RewrapArgs :
            \E s \in Exchange("rewrap_blob", a.secret, a.blob, a.new) : Become(c, s)
    BY <1>1 DEF CallRewrap
  <2> QED  BY <1>1, <2>1, ExchangeIsAtomic DEF CallRewrap
<1>2. CASE CallWrapForBiometric(c)
  <2>1. PICK new \in Secrets, a \in BiometricArgs :
            \E s \in Exchange("wrap_for_biometric", a.secret, a.blob, new) : Become(c, s)
    BY <1>2 DEF CallWrapForBiometric
  <2> QED  BY <1>2, <2>1, ExchangeIsAtomic DEF CallWrapForBiometric
<1> QED  BY <1>1, <1>2

LEMMA CallCreateIsAtomic ==
    ASSUME IInv, NEW c \in Calls, CallCreate(c)
    PROVE  Atomic!Next
<1>1. PICK a \in CreateArgs, key \in NewKeys :
          Become(c, [Idle EXCEPT !.pc = "exists", !.ask = Plain("create_vault"),
                                 !.secret = a.secret, !.key = key])
  BY DEF CallCreate
<1>2. PICK s : s = [Idle EXCEPT !.pc = "exists", !.ask = Plain("create_vault"),
                                !.secret = a.secret, !.key = key]
  OBVIOUS
<1>3. task' = [task EXCEPT ![c] = s] /\ task[c].pc = "idle" /\ UNCHANGED <<file, db, blobs>>
  BY <1>1, <1>2 DEF CallCreate, Become, At
<1>4. s.pc = "exists" /\ s.ask = Plain("create_vault")
  BY <1>2 DEF Idle
<1>5. Abstracted(s) = Atomic!Running(s.ask)
  <2>1. s.pc \in Steps \ {"wrap"}
    BY <1>4 DEF Steps
  <2> QED  BY <2>1, AbstractRunning
<1>6. Abstracted(s).ask = s.ask /\ s.ask.op \in Atomic!Ops
  BY <1>4, <1>5 DEF Atomic!Running, Atomic!Ops, Plain, Asks
<1>7. Atomic!Begin(Abstracted(task[c]), Abstracted(s))
  <2>1. Abstracted(task[c]).at = "idle"
    BY <1>3 DEF Abstracted
  <2> QED  BY <1>3, <1>5, <1>6, <2>1 DEF Atomic!Begin
<1> QED  BY <1>3, <1>7, AtomicStep DEF Atomic!Step

-----------------------------------------------------------------------------
(* Reads.                                                                  *)

\* A step that goes on, of a call that runs.
LEMMA GoingOnStutters ==
    ASSUME IInv, NEW c \in Calls, task[c].pc \in Steps \ {"wrap"},
           NEW s, task' = [task EXCEPT ![c] = s], s.pc \in Steps \ {"wrap"}, s.ask = task[c].ask,
           (file.tables = Tables)' = (file.tables = Tables), UNCHANGED <<db, blobs>>
    PROVE  UNCHANGED Atomic!vars
<1>1. Abstracted(s) = Abstracted(task[c])
  BY AbstractRunning
<1> QED  BY <1>1, AtomicStutter

\* A call that runs and ends because of the file.
LEMMA FileErrorIsAtomic ==
    ASSUME IInv, NEW c \in Calls, task[c].pc \in Steps \ {"wrap"},
           NEW error \in {"Open", "Key", "Read"}, Become(c, Answered(Op(c), error)),
           UNCHANGED <<file, db, blobs>>
    PROVE  Atomic!Next
<1>1. Op(c) \in Ops
  BY DEF IInv, Placed, Formed, FitAsk, Ask, Op
<1> QED  BY <1>1, ErrorExcuses, EndIsAtomic DEF Errors

LEMMA OpenAndKeyIsAtomic ==
    ASSUME IInv, NEW c \in Calls, OpenAndKey(c)
    PROVE  Atomic!Next \/ UNCHANGED Atomic!vars
<1>1. task[c].pc = "open" /\ task[c].pc \in Steps \ {"wrap"} /\ UNCHANGED <<file, db, blobs>>
      /\ task[c] \in Task
  BY DEF OpenAndKey, At, Steps, IInv
<1>2. CASE Opens(task[c].key)
  <2>1. PICK s : s = [task[c] EXCEPT !.pc = FirstStep(Op(c))]
    OBVIOUS
  <2>2. task' = [task EXCEPT ![c] = s]
    BY <1>2, <2>1 DEF OpenAndKey, Goto, Become
  <2>3. s.pc \in Steps \ {"wrap"} /\ s.ask = task[c].ask
    <3>1. FirstStep(Op(c)) \in Steps \ {"wrap"}
      BY DEF FirstStep, Steps
    <3> QED  BY <1>1, <2>1, <3>1 DEF Task
  <2> QED  BY <1>1, <2>2, <2>3, GoingOnStutters
<1>3. CASE ~ Opens(task[c].key)
  BY <1>1, <1>3, FileErrorIsAtomic DEF OpenAndKey, End
<1> QED  BY <1>2, <1>3

LEMMA ReadBorrowersIsAtomic ==
    ASSUME IInv, NEW c \in Calls, ReadBorrowers(c)
    PROVE  Atomic!Next \/ UNCHANGED Atomic!vars
<1>1. /\ task[c].pc = "borrowers" /\ task[c].pc \in Steps \ {"wrap"} /\ UNCHANGED <<file, db, blobs>>
      /\ task[c] \in Task
  BY DEF ReadBorrowers, At, Steps, IInv
<1>2. CASE "borrowers" \in file.tables
  <2>1. PICK rows : rows = [EmptyRows EXCEPT !.borrowers = db.borrowers]
    OBVIOUS
  <2>2. PICK s : s = [task[c] EXCEPT !.pc = "loans", !.rows = rows]
    OBVIOUS
  <2>3. task' = [task EXCEPT ![c] = s]
    BY <1>2, <2>1, <2>2 DEF ReadBorrowers, Become
  <2>4. s.pc \in Steps \ {"wrap"} /\ s.ask = task[c].ask
    BY <1>1, <2>2 DEF Task, Steps
  <2> QED  BY <1>1, <2>3, <2>4, GoingOnStutters
<1>3. CASE "borrowers" \notin file.tables
  BY <1>1, <1>3, FileErrorIsAtomic DEF ReadBorrowers, End
<1> QED  BY <1>2, <1>3

LEMMA ReadLoansIsAtomic ==
    ASSUME IInv, NEW c \in Calls, ReadLoans(c)
    PROVE  Atomic!Next
<1>1. /\ task[c].pc = "loans" /\ task[c].pc \in Steps \ {"wrap"} /\ UNCHANGED <<file, db, blobs>>
      /\ Formed(task[c])
  BY DEF ReadLoans, At, Steps, IInv, Placed
<1>2. Op(c) = "unlock_and_read_vault" /\ Op(c) \in Ops
  BY <1>1 DEF Formed, StepFits, Op, Ops
<1>3. CASE "loans" \in file.tables
  <2>1. PICK rows : rows = [task[c].rows EXCEPT !.loans = db.loans]
    OBVIOUS
  <2>2. PICK a : a = Answered(Op(c), "none")
    OBVIOUS
  <2>3. PICK s : s = [a EXCEPT !.rows = rows]
    OBVIOUS
  <2>4. task' = [task EXCEPT ![c] = s]
    BY <1>3, <2>1, <2>2, <2>3 DEF ReadLoans, Become
  <2>5. a \in Task /\ a.pc = "answer" /\ a.ask = NONE /\ a.reply = Mapped(Op(c), "none")
    BY <1>2, <2>2, AnsweredIsFormed DEF Errors
  <2>6. s.pc = "answer" /\ s.ask = NONE /\ s.reply = Mapped(Op(c), "none")
    BY <2>3, <2>5 DEF Task
  <2>7. Mapped(Op(c), "none") = "rows"
    BY <1>2 DEF Mapped, Success, Writes, Statements
  <2> QED  BY <1>1, <2>4, <2>6, <2>7, AnswerIsAtomic
<1>4. CASE "loans" \notin file.tables
  BY <1>1, <1>4, FileErrorIsAtomic DEF ReadLoans, End
<1> QED  BY <1>3, <1>4

-----------------------------------------------------------------------------
(* Writes.                                                                 *)

\* A step that writes what the atomic call writes, or refuses for the same reason.
LEMMA WriteIsAtomic ==
    ASSUME IInv, NEW c \in Calls, task[c].pc \in Steps \ {"wrap"}, file.tables = Tables,
           task[c].ask.op \in Writes, NEW done, Atomic!Effect(task[c].ask) = done,
           db' = done.rows, done.error \in Errors,
           Become(c, Answered(Op(c), done.error)),
           UNCHANGED <<file, blobs>>
    PROVE  Atomic!Next
<1> DEFINE s == Answered(Op(c), done.error)
<1>1. Op(c) \in Ops /\ Op(c) = task[c].ask.op
  BY DEF Op, Ops
<1>2. s.pc = "answer" /\ s.ask = NONE /\ s.reply = Mapped(Op(c), done.error)
  BY <1>1, AnsweredIsFormed
<1>3. task' = [task EXCEPT ![c] = s]
  BY DEF Become
<1> HIDE DEF s
<1>4. Abstracted(s) = Atomic!Answered(Atomic!Mapped(task[c].ask.op, done.error))
  BY <1>1, <1>2, AbstractAnswer, SameAnswer
<1>5. Abstracted(task[c]).at = "running" /\ Abstracted(task[c]).ask = task[c].ask
  BY AbstractRunning DEF Atomic!Running
<1>6. task[c].ask.op \in Atomic!Writes
  BY DEF Writes, Atomic!Writes, Statements, Atomic!Statements
<1>7. Atomic!Write(Abstracted(task[c]), Abstracted(s))
  <2>1. UNCHANGED <<file.tables = Tables, blobs # {}>>
    OBVIOUS
  <2> QED  BY <1>4, <1>5, <1>6, <2>1 DEF Atomic!Write
<1> QED  BY <1>3, <1>7, AtomicStep DEF Atomic!Step

LEMMA StatementIsAtomic ==
    ASSUME IInv, NEW c \in Calls, Statement(c)
    PROVE  Atomic!Next
<1>1. task[c].pc = "statement" /\ task[c].pc \in Steps \ {"wrap"} /\ UNCHANGED <<file, blobs>>
  BY DEF Statement, At, Steps
<1>2. FitAsk(task[c].ask) /\ task[c].ask.op \in Statements
  BY <1>1 DEF IInv, Placed, Formed, StepFits
<1>3. CASE file.tables = Tables
  <2> DEFINE done == Execute(db, task[c].ask)
  <2>1. db' = done.rows /\ Become(c, Answered(Op(c), done.error))
    BY <1>3 DEF Statement, End
  <2>2. done.error \in Errors
    BY <1>2, StatementIsSound DEF IInv, Sound, RowErrors, Errors
  <2>3. Atomic!Effect(task[c].ask) = done
    <3>1. task[c].ask.op # "delete_borrower"
      BY <1>2 DEF Statements
    <3> QED  BY <1>2, <3>1, SameStatement DEF Atomic!Effect
  <2>4. task[c].ask.op \in Writes
    BY <1>2 DEF Writes
  <2> HIDE DEF done
  <2> QED  BY <1>1, <1>3, <2>1, <2>2, <2>3, <2>4, WriteIsAtomic
<1>4. CASE file.tables # Tables
  <2>1. db' = db /\ Become(c, Answered(Op(c), "Read"))
    BY <1>4 DEF Statement, Failed, End
  <2> QED  BY <1>1, <2>1, FileErrorIsAtomic
<1> QED  BY <1>3, <1>4

\* What the atomic delete does at the step that a delete is at.
LEMMA DeleteEffect ==
    ASSUME IInv, NEW c \in Calls, task[c].pc \in Locked, "borrowers" \in file.tables
    PROVE  /\ task[c].pc \in Steps \ {"wrap"} /\ file.tables = Tables
           /\ Op(c) = "delete_borrower" /\ Op(c) \in Writes /\ Copies(task[c])
           /\ task[c].ask.id \in Ids /\ db \in Rows
           /\ Atomic!Effect(task[c].ask)
                  = LET id == task[c].ask.id
                    IN  IF db.borrowers[id] = NONE THEN Failed("NotFound", db)
                        ELSE IF ActiveOf(db, id) # {} THEN Failed("Constraint", db)
                        ELSE Deleted(id)
<1>1. /\ task[c].pc \in Steps \ Creating /\ task[c].pc \in Working /\ Op(c) = "delete_borrower"
      /\ task[c].ask.id \in Ids /\ Copies(task[c])
  BY DeletingFacts
<1>2. file.tables = Tables
  BY <1>1, TableIsWhole
<1>3. task[c].pc # "wrap" /\ Op(c) \in Writes
  BY <1>1 DEF Writes, Creating
<1> QED  BY <1>1, <1>2, <1>3, SameDelete DEF Atomic!Effect, Op, IInv

LEMMA LookupIsAtomic ==
    ASSUME IInv, NEW c \in Calls, Lookup(c)
    PROVE  Atomic!Next \/ UNCHANGED Atomic!vars
<1> DEFINE t == task[c]
<1>1. /\ t.pc = "lookup" /\ t.pc \in Locked /\ t.pc \in Steps \ {"wrap"}
      /\ t \in Task /\ UNCHANGED <<file, db, blobs>>
  BY DEF Lookup, At, Locked, Steps, IInv
<1>2. CASE "borrowers" \notin file.tables
  BY <1>1, <1>2, FileErrorIsAtomic DEF Lookup, End
<1>3. CASE "borrowers" \in file.tables /\ t.rows.borrowers[t.ask.id] = NONE
  <2>1. t.rows = db /\ Op(c) = t.ask.op
    BY <1>1, <1>3, DeleteEffect DEF Copies, Op
  <2> DEFINE done == Failed("NotFound", db)
  <2>2. Atomic!Effect(t.ask) = done
    BY <1>1, <1>3, <2>1, DeleteEffect
  <2>3. Become(c, Answered(Op(c), done.error)) /\ db' = done.rows /\ done.error \in Errors
    BY <1>1, <1>3 DEF Lookup, End, Failed, Errors
  <2> HIDE DEF done
  <2> QED  BY <1>1, <1>3, <2>1, <2>2, <2>3, DeleteEffect, WriteIsAtomic
<1>4. CASE "borrowers" \in file.tables /\ t.rows.borrowers[t.ask.id] # NONE
  <2>1. PICK s : s = [t EXCEPT !.pc = "active"]
    OBVIOUS
  <2>2. task' = [task EXCEPT ![c] = s]
    BY <1>4, <2>1 DEF Lookup, Goto, Become
  <2>3. s.pc \in Steps \ {"wrap"} /\ s.ask = t.ask
    BY <1>1, <2>1 DEF Task, Steps, Locked
  <2> QED  BY <1>1, <2>2, <2>3, GoingOnStutters
<1> QED  BY <1>2, <1>3, <1>4

LEMMA CheckActiveIsAtomic ==
    ASSUME IInv, NEW c \in Calls, CheckActive(c)
    PROVE  Atomic!Next \/ UNCHANGED Atomic!vars
<1> DEFINE t == task[c]
<1>1. /\ t.pc = "active" /\ t.pc \in Locked /\ t.pc \in Steps \ {"wrap"}
      /\ t \in Task /\ UNCHANGED <<file, db, blobs>>
  BY DEF CheckActive, At, Locked, Steps, IInv
<1>2. CASE "loans" \notin file.tables
  BY <1>1, <1>2, FileErrorIsAtomic DEF CheckActive, End
<1>3. CASE "loans" \in file.tables /\ ActiveOf(t.rows, t.ask.id) # {}
  <2>1. Copies(t)
    BY <1>1, DeletingFacts
  <2>2. t.rows = db /\ Op(c) = t.ask.op /\ "borrowers" \in file.tables
        /\ db.borrowers[t.ask.id] # NONE
    BY <1>1, <2>1 DEF Copies, Op
  <2> DEFINE done == Failed("Constraint", db)
  <2>3. Atomic!Effect(t.ask) = done
    BY <1>1, <1>3, <2>2, DeleteEffect
  <2>4. Become(c, Answered(Op(c), done.error)) /\ db' = done.rows /\ done.error \in Errors
    BY <1>1, <1>3 DEF CheckActive, End, Failed, Errors
  <2> HIDE DEF done
  <2> QED  BY <1>1, <2>2, <2>3, <2>4, DeleteEffect, WriteIsAtomic
<1>4. CASE "loans" \in file.tables /\ ActiveOf(t.rows, t.ask.id) = {}
  <2>1. PICK s : s = [t EXCEPT !.pc = "history"]
    OBVIOUS
  <2>2. task' = [task EXCEPT ![c] = s]
    BY <1>4, <2>1 DEF CheckActive, Goto, Become
  <2>3. s.pc \in Steps \ {"wrap"} /\ s.ask = t.ask
    BY <1>1, <2>1 DEF Task, Steps, Locked
  <2> QED  BY <1>1, <2>2, <2>3, GoingOnStutters
<1> QED  BY <1>2, <1>3, <1>4

\* The steps of a delete that only its working copy sees.
LEMMA DeleteStutters ==
    ASSUME IInv, NEW c \in Calls, Begin(c) \/ DeleteHistory(c) \/ DeleteRow(c)
    PROVE  UNCHANGED Atomic!vars
<1> DEFINE t == task[c]
<1>1. /\ t.pc \in {"begin", "history", "row"} /\ t.pc \in Steps \ {"wrap"}
      /\ t.pc \in Locked \cup {"begin"} /\ t \in Task /\ UNCHANGED <<file, db, blobs>>
  BY DEF Begin, DeleteHistory, DeleteRow, At, Locked, Steps, IInv
<1>2. \E pc \in {"lookup", "row", "commit"} : \E rows :
          task' = [task EXCEPT ![c] = [t EXCEPT !.pc = pc, !.rows = rows]]
  <2>1. CASE Begin(c)
    BY <2>1 DEF Begin, Become
  <2>2. CASE DeleteHistory(c)
    <3>1. WithoutLoansOf(t.rows, t.ask.id) = WithoutLoansOf(t.rows, t.ask.id)
      OBVIOUS
    <3>2. task' = [task EXCEPT ![c] = [t EXCEPT !.pc = "row",
                                               !.rows = WithoutLoansOf(t.rows, t.ask.id)]]
      BY <1>1, <2>2 DEF DeleteHistory, Become, Task
    <3> QED  BY <3>2
  <2>3. CASE DeleteRow(c)
    <3>1. t.pc = "row" /\ t.pc \in Locked
      BY <2>3 DEF DeleteRow, At, Locked
    <3>2. Copies(t) /\ t.ask.id \in Ids
      BY <3>1, DeletingFacts
    <3>3. WithoutBorrower(t.rows, t.ask.id).error = "none"
      BY <3>1, <3>2, DeletedIsSound DEF Copies, IInv
    <3> QED  BY <2>3, <3>3 DEF DeleteRow, Become
  <2> QED  BY <2>1, <2>2, <2>3
<1>3. PICK pc \in {"lookup", "row", "commit"} : \E rows :
          task' = [task EXCEPT ![c] = [t EXCEPT !.pc = pc, !.rows = rows]]
  BY <1>2
<1>4. PICK s : /\ \E rows : s = [t EXCEPT !.pc = pc, !.rows = rows]
              /\ task' = [task EXCEPT ![c] = s]
  BY <1>3
<1>5. s.pc \in Steps \ {"wrap"} /\ s.ask = t.ask /\ task' = [task EXCEPT ![c] = s]
  BY <1>1, <1>3, <1>4 DEF Task, Steps, Locked
<1> QED  BY <1>1, <1>5, GoingOnStutters

LEMMA CommitIsAtomic ==
    ASSUME IInv, NEW c \in Calls, Commit(c)
    PROVE  Atomic!Next
<1> DEFINE t == task[c]
           done == Deleted(t.ask.id)
<1>1. /\ t.pc = "commit" /\ t.pc \in Locked /\ db' = t.rows
      /\ Become(c, Answered(Op(c), "none")) /\ UNCHANGED <<file, blobs>>
  BY DEF Commit, At, Locked, End
<1>2. Copies(t) /\ t.ask.id \in Ids
  BY <1>1, DeletingFacts
<1>3. /\ "borrowers" \in file.tables /\ db.borrowers[t.ask.id] # NONE
      /\ ActiveOf(db, t.ask.id) = {} /\ t.rows = done.rows
  BY <1>1, <1>2 DEF Copies, Deleted
<1>4. done.error = "none"
  BY <1>2, DeletedIsSound DEF Deleted, IInv
<1>5. Atomic!Effect(t.ask) = done
  BY <1>1, <1>3, DeleteEffect
<1> HIDE DEF done
<1>6. done.error \in Errors /\ Op(c) = t.ask.op
  BY <1>4 DEF Errors, Op
<1> QED  BY <1>1, <1>3, <1>4, <1>5, <1>6, DeleteEffect, WriteIsAtomic

-----------------------------------------------------------------------------
(* create_vault.                                                           *)

LEMMA CheckExistsIsAtomic ==
    ASSUME IInv, NEW c \in Calls, CheckExists(c)
    PROVE  Atomic!Next \/ UNCHANGED Atomic!vars
<1>1. /\ task[c].pc = "exists" /\ task[c].pc \in Steps \ {"wrap"} /\ task[c] \in Task
      /\ UNCHANGED <<file, db, blobs>>
  BY DEF CheckExists, At, Steps, IInv
<1>2. CASE file.exists
  BY <1>1, <1>2, FileErrorIsAtomic DEF CheckExists, End
<1>3. CASE ~ file.exists
  <2>1. PICK s : s = [task[c] EXCEPT !.pc = "connect"]
    OBVIOUS
  <2>2. task' = [task EXCEPT ![c] = s]
    BY <1>3, <2>1 DEF CheckExists, Goto, Become
  <2>3. s.pc \in Steps \ {"wrap"} /\ s.ask = task[c].ask
    BY <1>1, <2>1 DEF Task, Steps, Making
  <2> QED  BY <1>1, <2>2, <2>3, GoingOnStutters
<1> QED  BY <1>2, <1>3

\* While a create is at work there is no vault.
LEMMA MakingStutters ==
    ASSUME IInv, NEW c \in Calls, task[c].pc \in Making, NEW pc \in Steps \ {"wrap"}, NEW reply,
           NEW s, s = [task[c] EXCEPT !.pc = pc, !.reply = reply],
           task' = [task EXCEPT ![c] = s], "loans" \notin file'.tables, UNCHANGED <<db, blobs>>
    PROVE  UNCHANGED Atomic!vars
<1>1. task[c].pc \in Steps \ {"wrap"} /\ task[c] \in Task
  BY DEF Making, Steps, IInv
<1>2. file.tables # Tables /\ file'.tables # Tables
  BY MakingFile DEF Tables
<1>3. s.pc \in Steps \ {"wrap"} /\ s.ask = task[c].ask
  BY <1>1 DEF Task
<1> QED  BY <1>1, <1>2, <1>3, GoingOnStutters

LEMMA ConnectIsAtomic ==
    ASSUME IInv, NEW c \in Calls, Connect(c)
    PROVE  UNCHANGED Atomic!vars
<1>0. PICK pc : pc = "schema"
  OBVIOUS
<1>1. /\ task[c].pc \in Making /\ task[c] \in Task /\ UNCHANGED <<db, blobs>>
      /\ file' = Touched /\ task' = [task EXCEPT ![c] = [task[c] EXCEPT !.pc = pc]]
  BY <1>0 DEF Connect, At, Making, Goto, Become, IInv
<1>2. PICK s : s = [task[c] EXCEPT !.pc = pc, !.reply = task[c].reply]
  OBVIOUS
<1>3. task' = [task EXCEPT ![c] = s]
  <2>1. s = [task[c] EXCEPT !.pc = pc]
    BY <1>1, <1>2 DEF Task
  <2> QED  BY <1>1, <2>1
<1>4. pc \in Steps \ {"wrap"}
  BY <1>0 DEF Steps, Making
<1>5. "loans" \notin file'.tables
  BY <1>1, MakingFile
<1>6. task[c].pc \in Making /\ UNCHANGED <<db, blobs>>
  BY <1>1
<1> QED  BY ONLY IInv, c \in Calls, <1>2, <1>3, <1>4, <1>5, <1>6, MakingStutters

LEMMA MakingFaultIsAtomic ==
    ASSUME IInv, NEW c \in Calls, MakingFault(c)
    PROVE  UNCHANGED Atomic!vars
<1>1. /\ task[c].pc \in Making /\ file' \in {file, Touched} /\ UNCHANGED <<db, blobs>>
  BY DEF MakingFault, Making
<1>2. PICK error \in {"Open", "Key"} : CleansUp(c, error)
  BY DEF MakingFault
<1>3. PICK s : s = [task[c] EXCEPT !.pc = "clean", !.reply = Mapped("create_vault", error)]
  OBVIOUS
<1>4. task' = [task EXCEPT ![c] = s]
  BY <1>2, <1>3 DEF CleansUp, Become
<1>5. "clean" \in Steps \ {"wrap"}
  BY DEF Steps, Making
<1>6. "loans" \notin file'.tables
  BY <1>1, MakingFile
<1> QED  BY <1>1, <1>3, <1>4, <1>5, <1>6, MakingStutters

\* The vault is there with its second table.
LEMMA CreateTableIsAtomic ==
    ASSUME IInv, NEW c \in Calls, CreateTable(c)
    PROVE  Atomic!Next \/ UNCHANGED Atomic!vars
<1> DEFINE new == IF "borrowers" \in file.tables THEN "loans" ELSE "borrowers"
           pc == IF new = "loans" THEN "wrap" ELSE "schema"
<1>1. task[c].pc = "schema" /\ task[c].pc \in Making /\ UNCHANGED <<db, lock, blobs>>
  BY DEF CreateTable, At, Making
<1>2. /\ task[c] \in Task /\ file \in File /\ file.key \in {NONE, task[c].key}
      /\ "loans" \notin file.tables /\ task[c].ask.op = "create_vault"
  BY <1>1, MakingFile
<1>3. /\ file' = [file EXCEPT !.key = task[c].key, !.tables = @ \cup {new}]
      /\ task' = [task EXCEPT ![c] = [task[c] EXCEPT !.pc = pc]]
  BY <1>2 DEF CreateTable, Goto, Become
<1>4. file'.tables = file.tables \cup {new} /\ file.tables \subseteq Tables
  BY <1>2, <1>3 DEF File
<1>5. PICK s : s = [task[c] EXCEPT !.pc = pc, !.reply = task[c].reply]
  OBVIOUS
<1>6. task' = [task EXCEPT ![c] = s]
  <2>1. s = [task[c] EXCEPT !.pc = pc]
    BY <1>2, <1>5 DEF Task
  <2> QED  BY <1>3, <2>1
<1>7. s.pc = pc /\ s.ask = task[c].ask
  BY <1>2, <1>5 DEF Task
<1>8. CASE new = "borrowers"
  <2>1. pc \in Steps \ {"wrap"}
    BY <1>8 DEF Steps, Making
  <2>2. "loans" \notin file'.tables
    BY <1>2, <1>4, <1>8
  <2> QED  BY <1>1, <1>5, <1>6, <2>1, <2>2, MakingStutters
<1>9. CASE new = "loans"
  <2>1. file.tables # Tables /\ file'.tables = Tables
    BY <1>2, <1>4, <1>9 DEF Tables
  <2>2. s.pc = "wrap"
    BY <1>7, <1>9
  <2>3. Abstracted(s) = Atomic!Made(task[c].ask)
    BY <1>7, <2>2 DEF Abstracted, Atomic!Made
  <2>4. Abstracted(task[c]).at = "running" /\ Abstracted(task[c]).ask = task[c].ask
    BY <1>1, AbstractRunning DEF Making, Steps, Atomic!Running
  <2>5. Atomic!Make(Abstracted(task[c]), Abstracted(s))
    BY <1>1, <1>2, <2>1, <2>3, <2>4 DEF Atomic!Make
  <2> QED  BY <1>6, <2>5, AtomicStep DEF Atomic!Step
<1> QED  BY <1>8, <1>9

LEMMA CleanUpIsAtomic ==
    ASSUME IInv, NEW c \in Calls, CleanUp(c)
    PROVE  Atomic!Next
<1>1. /\ task[c].pc = "clean" /\ task[c].pc \in Making /\ task[c].pc \in Creating
      /\ task[c].pc \in Steps \ {"wrap"} /\ UNCHANGED <<lock, blobs>>
      /\ (file' = Absent /\ db' = EmptyRows) \/ UNCHANGED <<file, db>>
  BY DEF CleanUp, At, Making, Creating, Steps
<1>2. PICK s : s = [Idle EXCEPT !.pc = "answer", !.reply = task[c].reply]
  OBVIOUS
<1>3. task' = [task EXCEPT ![c] = s]
  BY <1>2 DEF CleanUp, Become
<1>4. task[c].reply \in Excuses
  BY <1>1, CreatingFacts DEF Formed, Excuses
<1>5. s.pc = "answer" /\ s.ask = NONE /\ s.reply = task[c].reply
  BY <1>2 DEF Idle
<1>6. db = EmptyRows /\ file.tables # Tables
  BY <1>1, MakingFile DEF Tables
<1>7. (file.tables = Tables)' = (file.tables = Tables) /\ db' = db
  BY <1>1, <1>6 DEF Absent, Tables
<1> QED  BY <1>1, <1>3, <1>4, <1>5, <1>7, AnswerIsAtomic

LEMMA WrapIsAtomic ==
    ASSUME IInv, NEW c \in Calls, Wrap(c)
    PROVE  Atomic!Next
<1>1. /\ task[c].pc = "wrap" /\ task[c].pc \in Creating /\ UNCHANGED <<file, db, lock, blobs>>
  BY DEF Wrap, At, Creating
<1>2. Op(c) = "create_vault" /\ Op(c) \in Ops
  BY <1>1, CreatingFacts DEF Ops
<1>3. PICK w \in Wrapped(task[c].secret, task[c].key) :
          Become(c, [Answered(Op(c), w.error) EXCEPT !.blob = w.blob])
  BY DEF Wrap
<1>4. w.error \in {"none", "WrapKdf", "Encrypt"} /\ w.error \in Errors
  BY <1>3 DEF Wrapped, Errors
<1>5. PICK a : a = Answered(Op(c), w.error)
  OBVIOUS
<1>6. PICK s : s = [a EXCEPT !.blob = w.blob]
  OBVIOUS
<1>7. a \in Task /\ a.pc = "answer" /\ a.ask = NONE /\ a.reply = Mapped(Op(c), w.error)
  BY <1>2, <1>4, <1>5, AnsweredIsFormed
<1>8. /\ task' = [task EXCEPT ![c] = s]
      /\ s.pc = "answer" /\ s.ask = NONE /\ s.reply = Mapped(Op(c), w.error)
  BY <1>3, <1>5, <1>6, <1>7 DEF Become, Task
<1>9. Mapped(Op(c), w.error) \in {"vault", "Wrap"}
  BY <1>2, <1>4 DEF Mapped, Success, Writes, Statements
<1>10. Abstracted(s) \in {Atomic!Answered("vault"), Atomic!Answered("Wrap")}
  BY <1>8, <1>9, AbstractAnswer
<1>11. Abstracted(task[c]).at = "made"
  BY <1>1 DEF Abstracted
<1>12. Atomic!Hand(Abstracted(task[c]), Abstracted(s))
  BY <1>1, <1>10, <1>11 DEF Atomic!Hand
<1> QED  BY <1>8, <1>12, AtomicStep DEF Atomic!Step

-----------------------------------------------------------------------------
(* Failures, answers, and the specification.                               *)

LEMMA FaultIsAtomic ==
    ASSUME IInv, NEW c \in Calls, Fault(c)
    PROVE  Atomic!Next
<1>1. PICK error \in ErrorsAt(task[c].pc) : Become(c, Answered(Op(c), error))
  BY DEF Fault
<1>2. error \in {"Open", "Key", "Read"}
  BY DEF ErrorsAt
<1>3. task[c].pc \in Steps \ {"wrap"} /\ UNCHANGED <<file, db, blobs>>
  BY DEF Fault, Steps, Locked
<1> QED  BY <1>1, <1>2, <1>3, FileErrorIsAtomic

LEMMA ReturnIsAtomic ==
    ASSUME IInv, NEW c \in Calls, Return(c)
    PROVE  Atomic!Next
<1>1. /\ task[c].pc = "answer" /\ task' = [task EXCEPT ![c] = Idle]
      /\ UNCHANGED <<file, db, lock>>
      /\ \/ blobs' = blobs
         \/ blobs' = blobs \cup {b \in {task[c].blob} : b # NONE /\ b.key # Foreign}
  BY DEF Return, At, Become
<1>2. BlobOpens(task[c]) /\ Formed(task[c])
  BY DEF IInv, Placed
<1>3. /\ Abstracted(task[c]).at = "answered" /\ Abstracted(task[c]).reply = task[c].reply
      /\ Abstracted(Idle) = Atomic!Idle
  BY <1>1, AbstractIdle, IdleIsFormed DEF Abstracted
<1>4. CASE (blobs # {})' = (blobs # {})
  BY <1>1, <1>3, <1>4, AtomicStep DEF Atomic!Return, Atomic!Step
<1>5. CASE blobs = {} /\ blobs' # {}
  <2>1. task[c].reply = "vault"
    BY <1>1, <1>2, <1>5 DEF BlobOpens
  <2>2. (blobs # {})' = (blobs # {} \/ Abstracted(task[c]).reply = "vault")
    BY <1>3, <1>5, <2>1
  <2> QED  BY <1>1, <1>3, <2>2, AtomicStep DEF Atomic!Return, Atomic!Step
<1>6. blobs # {} => blobs' # {}
  BY <1>1
<1> QED  BY <1>4, <1>5, <1>6

LEMMA CrashIsAtomic == ASSUME Crash  PROVE Atomic!Next
<1>1. task' = [c \in Calls |-> Idle] /\ UNCHANGED <<file, db, blobs>>
  BY DEF Crash
<1>2. Abstracted(Idle) = Atomic!Idle
  BY AbstractIdle, IdleIsFormed
<1>3. [c \in Calls |-> Abstracted(task'[c])] = [c \in Calls |-> Atomic!Idle]
  BY <1>1, <1>2
<1>4. Atomic!Crash
  BY <1>1, <1>3 DEF Atomic!Crash
<1> QED  BY <1>4 DEF Atomic!Next

LEMMA DiscardIsAtomic == ASSUME DiscardOrphan  PROVE Atomic!Next
<1>1. /\ \A c \in Calls : task[c].pc = "idle"
      /\ file' = Absent /\ db' = EmptyRows /\ blobs = {} /\ UNCHANGED <<lock, task, blobs>>
  BY DEF DiscardOrphan, At
<1>2. \A c \in Calls : Abstracted(task[c]).at = "idle"
  BY <1>1 DEF Abstracted
<1>3. file'.tables # Tables
  BY <1>1 DEF Absent, Tables
<1>4. db' = Atomic!EmptyRows
  BY <1>1 DEF EmptyRows, Atomic!EmptyRows, Ids, Atomic!Ids
<1>5. Atomic!Forget
  BY <1>1, <1>2, <1>3, <1>4 DEF Atomic!Forget
<1> QED  BY <1>5 DEF Atomic!Next

LEMMA AtomicInit == ASSUME Init  PROVE Atomic!Init
<1>1. Abstracted(Idle) = Atomic!Idle
  BY AbstractIdle, IdleIsFormed
<1>2. file.tables # Tables /\ blobs = {}
  BY DEF Init, Absent, Tables
<1>3. [c \in Calls |-> Abstracted(task[c])] = [c \in Calls |-> Atomic!Idle]
  BY <1>1 DEF Init
<1>4. db = Atomic!EmptyRows
  BY DEF Init, EmptyRows, Atomic!EmptyRows, Ids, Atomic!Ids
<1> QED  BY <1>2, <1>3, <1>4 DEF Atomic!Init

LEMMA NextIsAtomic ==
    ASSUME IInv, [Next]_vars
    PROVE  [Atomic!Next]_Atomic!vars
<1>1. ASSUME NEW c \in Calls, Called(c)
      PROVE  Atomic!Next
  BY <1>1, CallIsAtomic, CallExchangeIsAtomic, CallCreateIsAtomic DEF Called
<1>2. ASSUME NEW c \in Calls, Deletes(c)
      PROVE  Atomic!Next \/ UNCHANGED Atomic!vars
  BY <1>2, DeleteStutters, LookupIsAtomic, CheckActiveIsAtomic, CommitIsAtomic DEF Deletes
<1>3. ASSUME NEW c \in Calls, Makes(c)
      PROVE  Atomic!Next \/ UNCHANGED Atomic!vars
  BY <1>3, CheckExistsIsAtomic, ConnectIsAtomic, CreateTableIsAtomic, CleanUpIsAtomic,
     WrapIsAtomic, MakingFaultIsAtomic DEF Makes
<1>4. ASSUME NEW c \in Calls,
             \/ OpenAndKey(c) \/ ReadBorrowers(c) \/ ReadLoans(c) \/ Statement(c)
             \/ Fault(c) \/ Return(c)
      PROVE  Atomic!Next \/ UNCHANGED Atomic!vars
  BY <1>4, OpenAndKeyIsAtomic, ReadBorrowersIsAtomic, ReadLoansIsAtomic, StatementIsAtomic,
     FaultIsAtomic, ReturnIsAtomic
<1>5. CASE UNCHANGED vars
  BY <1>5 DEF vars, Atomic!vars
<1> QED  BY <1>1, <1>2, <1>3, <1>4, <1>5, CrashIsAtomic, DiscardIsAtomic DEF Next

\* A call of the core, with all its steps, faults and crashes, is one step of a vault that
\* is made, read and written at once, or changes nothing.
THEOREM CoreIsAtomic == Spec => CallsAreAtomic
<1>1. Spec => [][Atomic!Next]_Atomic!vars
  BY NextIsAtomic, Inductive, PTL DEF Spec
<1> QED  BY <1>1, AtomicInit, PTL DEF Spec, CallsAreAtomic, Atomic!Spec

=============================================================================
