------------------------------- MODULE Lending -------------------------------
(***************************************************************************)
(* Lending over an open vault session: LendBookUseCase with its two gates, *)
(* returning a loan, deleting a borrower, and the hard delete of a book    *)
(* with the purge of its loans.                                            *)
(*                                                                         *)
(* The session is the one of VaultSession, reduced to what lending reads:  *)
(* the rows it shows, the generation a lock ends, and the queue in which   *)
(* each call works on its own. A row is named by the flow that created it  *)
(* (AUTOINCREMENT never reuses an id); 0 is what the device starts with.   *)
(***************************************************************************)
EXTENDS Naturals, Sequences, FiniteSets

CONSTANTS
    Items,          \* books of the catalogue
    Copies,         \* copy counts a book may be given
    Limits,         \* active-loan limits a user may save
    Faults,         \* "native": a core call may fail; "io": a database or file
    MaxFlows,       \* bound: things the user starts
    MaxEdits,       \* bound: edits of a book or of the lending rules
    MaxGen,         \* bound: lock() stops at this generation
    NONE

ASSUME LendingAssumption ==
    /\ Copies \subseteq Nat /\ Limits \subseteq Nat \ {0}
    /\ MaxFlows \in Nat /\ MaxEdits \in Nat /\ MaxGen \in Nat
    /\ NONE \notin Nat /\ NONE \notin Items

VARIABLES
    books,      \* the catalogue: a book, or NONE once it is hard-deleted
    rule,       \* BorrowerLimitPolicy: its limit, and whether it refuses
    db,         \* the rows of borrowers.db
    view,       \* the rows of the published state; NONE while locked
    gen,        \* the session generation
    flows,      \* what the user started: its place and captured values
    queue,      \* the vault calls not finished, the head running
    pc,         \* where the head is
    run,        \* the head's locals
    edits       \* edits made

vars == <<books, rule, db, view, gen, flows, queue, pc, run, edits>>

Flows == 1 .. MaxFlows
Ids == 0 .. MaxFlows
Loans == [id: Ids, item: Items, by: Ids, out: BOOLEAN]
Rows == [borrowers: SUBSET Ids, loans: SUBSET Loans]
Books == [copies: Copies, removed: BOOLEAN]
Rules == [max: Limits \cup {NONE}, refuse: BOOLEAN]

ASSUME NoneIsNoRows == NONE \notin Rows

NoRun == [copies |-> 0, removed |-> FALSE, max |-> NONE, ids |-> {}]
NoFlow == [at |-> "idle", item |-> NONE, by |-> NONE, snap |-> {}, ack |-> FALSE]
Over == [NoFlow EXCEPT !.at = "done"]

May(fault) == fault \in Faults
Op == Head(queue)
Fresh == Op.gen = gen
At(label) == queue # <<>> /\ pc = label
Runs(op) == At("wait") /\ Fresh /\ Op.op = op

-----------------------------------------------------------------------------
(* The rules of lending.                                                    *)

OutOf(loans, item) == {l \in loans : l.item = item /\ l.out}
HeldBy(loans, by) == {l \in loans : l.by = by /\ l.out}

\* LendDecision.forItem: a book of no copies counts as one.
LendAllowed(copies, removed, loans, item) ==
    /\ ~removed
    /\ Cardinality(OutOf(loans, item)) < IF copies < 1 THEN 1 ELSE copies

\* BorrowerLimitPolicy.check
Check(r, loans, by, ack) ==
    IF r.max = NONE \/ Cardinality(HeldBy(loans, by)) < r.max THEN "allowed"
    ELSE IF r.refuse THEN "refused"
    ELSE IF ack THEN "allowed" ELSE "needsConfirmation"

-----------------------------------------------------------------------------
(* The user's flows, up to the vault queue.                                 *)

EnqueueUntracked(f, op, flow) ==
    IF view = NONE
    THEN flows' = [flows EXCEPT ![f] = Over] /\ UNCHANGED queue
    ELSE /\ UNCHANGED flows
         /\ queue' = Append(queue, [flow |-> f, op |-> op, gen |-> gen])

\* _mutate is refused at once while locked.
Enqueue(f, op, flow) ==
    IF view = NONE
    THEN flows' = [flows EXCEPT ![f] = Over] /\ UNCHANGED queue
    ELSE /\ flows' = [flows EXCEPT ![f] = flow]
         /\ queue' = Append(queue, [flow |-> f, op |-> op, gen |-> gen])

NextFlow(f) == flows[f].at = "idle" /\ \A g \in 1 .. f - 1 : flows[g].at # "idle"

Idle == UNCHANGED <<books, rule, db, view, gen, pc, run, edits>>

\* The loans are captured before the book is read.
StartLend(f) ==
    /\ NextFlow(f) /\ view # NONE
    /\ \E item \in Items, by \in view.borrowers \cup {NONE}, ack \in BOOLEAN :
         flows' = [flows EXCEPT ![f] =
           [at |-> "book", item |-> item, by |-> by, snap |-> view.loans, ack |-> ack]]
    /\ UNCHANGED queue /\ Idle

Calling(at, flow) == [NoFlow EXCEPT !.at = at, !.item = flow.item, !.by = flow.by]

LendStops(f) == flows' = [flows EXCEPT ![f] = Over] /\ UNCHANGED queue

LendDecides(f) ==
    /\ flows[f].at = "book"
    /\ LET flow == flows[f] book == books[flow.item] IN
         \/ /\ \/ May("io") \/ book = NONE
               \/ book # NONE /\ ~LendAllowed(book.copies, book.removed, flow.snap, flow.item)
               \/ flow.by # NONE /\ Check(rule, flow.snap, flow.by, flow.ack) # "allowed"
            /\ LendStops(f)
         \/ /\ book # NONE
            /\ LendAllowed(book.copies, book.removed, flow.snap, flow.item)
            /\ \/ flow.by = NONE /\ Enqueue(f, "addBorrower", Calling("borrower", flow))
               \/ /\ flow.by # NONE /\ Check(rule, flow.snap, flow.by, flow.ack) = "allowed"
                  /\ Enqueue(f, "addLoan", Calling("loan", flow))
    /\ Idle

\* The new borrower's id came back; the loan is another call.
LendContinues(f) ==
    /\ flows[f].at = "added"
    /\ Enqueue(f, "addLoan", [flows[f] EXCEPT !.at = "loan", !.by = f])
    /\ Idle

\* Returning a loan, deleting a borrower, unlocking again.
StartCall(f) ==
    /\ NextFlow(f)
    /\ \/ /\ view # NONE
          /\ \/ \E l \in view.loans : l.out /\
                  Enqueue(f, "return", [NoFlow EXCEPT !.at = "call", !.by = l.id])
             \/ \E b \in view.borrowers :
                  Enqueue(f, "deleteBorrower", [NoFlow EXCEPT !.at = "call", !.by = b])
       \/ /\ flows' = [flows EXCEPT ![f] = [NoFlow EXCEPT !.at = "call"]]
          /\ queue' = Append(queue, [flow |-> f, op |-> "unlock", gen |-> gen])
    /\ Idle

\* A locked vault must be unlocked first; loans shown are purged first.
StartDelete(f) ==
    /\ NextFlow(f) /\ view # NONE
    /\ \E item \in Items :
         LET flow == [NoFlow EXCEPT !.item = item] IN
         /\ books[item] # NONE
         /\ IF \E l \in view.loans : l.item = item
            THEN Enqueue(f, "purge", [flow EXCEPT !.at = "purge"])
            ELSE /\ flows' = [flows EXCEPT ![f] = [flow EXCEPT !.at = "row"]]
                 /\ UNCHANGED queue
    /\ Idle

DeleteRow(f) ==
    /\ flows[f].at = "row"
    /\ flows' = [flows EXCEPT ![f] = Over]
    /\ \/ books' = [books EXCEPT ![flows[f].item] = NONE]
       \/ May("io") /\ UNCHANGED books
    /\ UNCHANGED <<rule, db, view, gen, queue, pc, run, edits>>

-----------------------------------------------------------------------------
(* The head of the queue.                                                   *)

Answered(flow, ok) ==
    CASE ok /\ flow.at = "borrower" -> [flow EXCEPT !.at = "added"]
      [] ok /\ flow.at = "purge" -> [flow EXCEPT !.at = "row"]
      [] OTHER -> Over

Answer(ok) ==
    /\ queue' = Tail(queue) /\ pc' = "wait" /\ run' = NoRun
    /\ flows' = [flows EXCEPT ![Op.flow] = Answered(@, ok)]

Goto(label) == pc' = label /\ UNCHANGED <<queue, flows>>
Library == UNCHANGED <<books, rule, edits>>

\* Locked before its turn, or refused without a write.
Fails ==
    /\ Answer(FALSE)
    /\ UNCHANGED <<db, view, gen>> /\ Library

Cancelled == At("wait") /\ ~Fresh /\ Fails

CoreFails ==
    /\ May("native")
    /\ Runs("addBorrower") \/ Runs("return") \/ Runs("deleteBorrower")
         \/ At("write") \/ At("purge")
    /\ Fails

Wrote(rows) ==
    /\ db' = rows
    /\ Goto("reread") /\ run' = run
    /\ UNCHANGED <<view, gen>> /\ Library

AddBorrower ==
    /\ Runs("addBorrower")
    /\ Wrote([db EXCEPT !.borrowers = @ \cup {Op.flow}])

\* insertLoanWithPolicy: the book is read again ...
ReadBook ==
    /\ Runs("addLoan")
    /\ LET book == books[flows[Op.flow].item] IN
         \/ (book = NONE \/ May("io")) /\ Fails
         \/ /\ book # NONE
            /\ Goto("gate")
            /\ run' = [NoRun EXCEPT !.copies = book.copies, !.removed = book.removed]
            /\ UNCHANGED <<db, view, gen>> /\ Library

UngatedGate ==
    /\ At("gate")
    /\ \/ ~Fresh /\ Fails
       \/ /\ Fresh
          /\ Goto("write")
          /\ run' = [run EXCEPT !.max = IF rule.refuse THEN rule.max ELSE NONE]
          /\ UNCHANGED <<db, view, gen>> /\ Library

\* ... and both rules decide again, on the rows the session shows now.
Gate ==
    /\ At("gate")
    /\ LET flow == flows[Op.flow] IN
         \/ (~Fresh \/ May("io")) /\ Fails
         \/ /\ Fresh
            /\ IF /\ LendAllowed(run.copies, run.removed, view.loans, flow.item)
                  /\ ~(rule.refuse /\ Check(rule, view.loans, flow.by, FALSE) = "refused")
               THEN /\ Goto("write")
                    /\ run' = [run EXCEPT !.max = IF rule.refuse THEN rule.max ELSE NONE]
                    /\ UNCHANGED <<db, view, gen>> /\ Library
               ELSE Fails

InsertUnchecked ==
    /\ At("write")
    /\ LET flow == flows[Op.flow] IN
         Wrote([db EXCEPT !.loans = @ \cup
           {[id |-> Op.flow, item |-> flow.item, by |-> flow.by, out |-> TRUE]}])

\* The core refuses a loan of a borrower that is gone (foreign key).
InsertLoan ==
    /\ At("write")
    /\ LET flow == flows[Op.flow] IN
         IF flow.by \in db.borrowers
         THEN Wrote([db EXCEPT !.loans = @ \cup
                {[id |-> Op.flow, item |-> flow.item, by |-> flow.by, out |-> TRUE]}])
         ELSE Fails

ReturnLoan ==
    /\ Runs("return")
    /\ IF \E l \in db.loans : l.id = flows[Op.flow].by
       THEN Wrote([db EXCEPT !.loans =
              {IF l.id = flows[Op.flow].by THEN [l EXCEPT !.out = FALSE] ELSE l : l \in @}])
       ELSE Fails

\* delete_borrower: refused over an active loan, the history goes with it.
CoreDeletes(b) ==
    IF b \in db.borrowers /\ HeldBy(db.loans, b) = {}
    THEN Wrote([borrowers |-> db.borrowers \ {b},
                loans |-> {l \in db.loans : l.by # b}])
    ELSE Fails

DeletesAsPlanned ==
    /\ Runs("deleteBorrower")
    /\ LET b == flows[Op.flow].by IN
         Wrote([borrowers |-> db.borrowers \ {b},
                loans |-> {l \in db.loans : l.by # b}])

\* The rule is checked on the rows shown, then by the core itself.
DeleteBorrower ==
    /\ Runs("deleteBorrower")
    /\ LET b == flows[Op.flow].by IN
         IF HeldBy(view.loans, b) # {} THEN Fails ELSE CoreDeletes(b)

\* The ids to purge are those the session shows.
StartPurge ==
    /\ Runs("purge")
    /\ run' = [NoRun EXCEPT !.ids =
         {l.id : l \in {m \in view.loans : m.item = flows[Op.flow].item}}]
    /\ Goto("purge")
    /\ UNCHANGED <<db, view, gen>> /\ Library

\* One core call per loan: one that is gone, or a lock, ends the purge there.
PurgeOne ==
    /\ At("purge")
    /\ \/ ~Fresh /\ Fails
       \/ /\ Fresh
          /\ \E id \in run.ids :
               IF \E l \in db.loans : l.id = id
               THEN /\ db' = [db EXCEPT !.loans = {l \in @ : l.id # id}]
                    /\ run' = [run EXCEPT !.ids = @ \ {id}]
                    /\ UNCHANGED <<queue, flows, pc, view, gen>> /\ Library
               ELSE Fails

Purged ==
    /\ At("purge") /\ run.ids = {} /\ Fresh
    /\ Goto("reread") /\ run' = run
    /\ UNCHANGED <<db, view, gen>> /\ Library

StartUnlock ==
    /\ Runs("unlock")
    /\ Goto("reread") /\ run' = run
    /\ UNCHANGED <<db, view, gen>> /\ Library

NotReread ==
    /\ At("reread")
    /\ Answer(TRUE)
    /\ UNCHANGED <<db, view, gen>> /\ Library

\* The end of _mutate and of unlock: the rows are read before they are shown.
Reread ==
    /\ At("reread")
    /\ \/ ~Fresh /\ Answer(FALSE) /\ UNCHANGED <<view, gen>>
       \/ Fresh /\ Answer(TRUE) /\ view' = db /\ UNCHANGED gen
       \/ /\ Fresh /\ May("native")
          /\ Answer(FALSE) /\ view' = NONE /\ gen' = gen + 1
    /\ UNCHANGED db /\ Library

-----------------------------------------------------------------------------
(* Lock, and the catalogue and the rules as their pages edit them.          *)

Lock ==
    /\ gen < MaxGen
    /\ gen' = gen + 1 /\ view' = NONE
    /\ UNCHANGED <<books, rule, db, flows, queue, pc, run, edits>>

Edit ==
    /\ edits < MaxEdits /\ edits' = edits + 1
    /\ \/ \E i \in Items : books[i] # NONE /\ \E b \in Books : books' = [books EXCEPT ![i] = b]
                           /\ UNCHANGED rule
       \/ rule' \in Rules /\ UNCHANGED books
    /\ UNCHANGED <<db, view, gen, flows, queue, pc, run>>

Flow(f) == StartLend(f) \/ LendDecides(f) \/ LendContinues(f) \/ StartCall(f)
             \/ StartDelete(f) \/ DeleteRow(f)

Vault == Cancelled \/ CoreFails \/ AddBorrower \/ ReadBook \/ Gate \/ InsertLoan
           \/ ReturnLoan \/ DeleteBorrower \/ StartPurge \/ PurgeOne \/ Purged
           \/ StartUnlock \/ Reread

Next == (\E f \in Flows : Flow(f)) \/ Vault \/ Lock \/ Edit

\* An unlocked session over the rows of the device, one loan among them or none.
Init ==
    /\ books \in [Items -> {b \in Books : ~b.removed}]
    /\ rule \in Rules
    /\ \E loans \in {{}} \cup {{l} : l \in [id: {0}, item: Items, by: {0}, out: BOOLEAN]} :
         db = [borrowers |-> {0}, loans |-> loans]
    /\ view = db /\ gen = 0
    /\ flows = [f \in Flows |-> NoFlow]
    /\ queue = <<>> /\ pc = "wait" /\ run = NoRun /\ edits = 0

Spec == Init /\ [][Next]_vars
FairSpec == Spec /\ WF_vars(Vault \/ \E f \in Flows : LendDecides(f)
                              \/ LendContinues(f) \/ DeleteRow(f))

-----------------------------------------------------------------------------
(* Properties                                                               *)

Places == {"idle", "book", "borrower", "added", "loan", "call", "purge", "row", "done"}
Waiting == {"borrower", "loan", "call", "purge"}
Ops == {"addBorrower", "addLoan", "return", "deleteBorrower", "purge", "unlock"}
Labels == {"wait", "gate", "write", "purge", "reread"}

\* Every variable keeps its type, and each call in the queue is one that a
\* flow waits for.
TypeOK ==
    /\ books \in [Items -> Books \cup {NONE}] /\ rule \in Rules
    /\ db \in Rows /\ view \in Rows \cup {NONE} /\ gen \in Nat
    /\ flows \in [Flows -> [at: Places, item: Items \cup {NONE}, by: Ids \cup {NONE},
                            snap: SUBSET Loans, ack: BOOLEAN]]
    /\ queue \in Seq([flow: Flows, op: Ops, gen: Nat])
    /\ \A i \in 1 .. Len(queue) : flows[queue[i].flow].at \in Waiting
    /\ pc \in Labels
    /\ run \in [copies: Nat, removed: BOOLEAN, max: Limits \cup {NONE}, ids: SUBSET Ids]
    /\ edits \in 0 .. MaxEdits

\* What a call decides on is what the database holds: the rows shown have every
\* borrower and every loan there is, except while a write waits for its re-read.
RowsAreShown ==
    view # NONE /\ pc # "reread" =>
        db.borrowers = view.borrowers /\ db.loans \subseteq view.loans

Inserted == {l \in db'.loans \ db.loans : l.out}

\* No lend, however stale the page it came from, puts out a copy more than the
\* book had when the vault queue read it, nor lends a removed book.
CopiesKept ==
    [][ \A l \in Inserted :
          ~run.removed /\ Cardinality(OutOf(db.loans, l.item))
                            < IF run.copies < 1 THEN 1 ELSE run.copies ]_vars

\* In Refuse mode no borrower is handed a book at or over the limit, however
\* many lends were started before the first was recorded.
LimitKept ==
    [][ \A l \in Inserted :
          run.max # NONE => Cardinality(HeldBy(db.loans, l.by)) < run.max ]_vars

\* A book that is out stays out to somebody: an active loan leaves the vault
\* only with its book; deleting a borrower takes returned loans alone.
ActiveLoansStay ==
    [][ \A l \in db.loans :
          l.out => (\E m \in db'.loans : m.id = l.id) \/ Op.op = "purge" ]_vars

\* Every loan is somebody's: a lend decided before its borrower was deleted is
\* refused by the core.
LoansHaveBorrowers == \A l \in db.loans : l.by \in db.borrowers

\* "A permanent delete must also purge the book's loan rows in the encrypted
\* vault": no loan of a book outlives its row.
DeletedHasNoLoans == \A l \in db.loans : books[l.item] # NONE
=============================================================================
