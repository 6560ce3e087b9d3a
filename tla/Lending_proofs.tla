---------------------------- MODULE Lending_proofs ----------------------------
(***************************************************************************)
(* Type correctness and the safety of lending for every catalogue, copy    *)
(* count, limit and number of flows.                                       *)
(*                                                                         *)
(* The invariant ties three things together.  A flow that waits has one    *)
(* call in the queue, and a queued lend names a book.  A call of the       *)
(* running generation finds the rows shown, and they hold every loan of    *)
(* the database unless a write waits to be read back.  A lend past the     *)
(* gate is still within the copies and the limit the gate read, because    *)
(* nothing else writes while it is at the head of the queue.               *)
(***************************************************************************)
EXTENDS Lending, FiniteSetTheorems, TLAPS

FlowRecords == [at: Places, item: Items \cup {NONE}, by: Ids \cup {NONE},
                snap: SUBSET Loans, ack: BOOLEAN]
Calls == [flow: Flows, op: Ops, gen: Nat]
Runnings == [copies: Nat, removed: BOOLEAN, max: Limits \cup {NONE}, ids: SUBSET Ids]

FlowsTyped == flows \in [Flows -> FlowRecords] /\ queue \in Seq(Calls) /\ gen \in Nat

\* A flow waits for each call, and for no other call.
OneCallEach ==
    /\ \A i \in 1 .. Len(queue) : flows[queue[i].flow].at \in Waiting
    /\ \A i, j \in 1 .. Len(queue) : queue[i].flow = queue[j].flow => i = j

\* Only an unlock is queued, in the running generation, with nothing shown.
ShownToCalls ==
    \A i \in 1 .. Len(queue) :
        /\ queue[i].gen <= gen
        /\ queue[i].op # "unlock" /\ queue[i].gen = gen => view # NONE

\* A lend on its way to the queue, and a queued one, names a book.
LendsNameBooks ==
    /\ \A f \in Flows :
         flows[f].at \in {"book", "borrower", "added"} => flows[f].item \in Items
    /\ \A i \in 1 .. Len(queue) :
         queue[i].op = "addLoan" => flows[queue[i].flow].item \in Items

QueueInv == FlowsTyped /\ OneCallEach /\ ShownToCalls /\ LendsNameBooks

\* Past its start the head is a call of the running generation, or a lock hid
\* the rows.
HeadInv ==
    /\ pc # "wait" => queue # <<>> /\ (Fresh \/ view = NONE)
    /\ pc \in {"gate", "write"} => Op.op = "addLoan"
    /\ pc = "purge" => Op.op = "purge"

FiniteRows == IsFiniteSet(db.loans) /\ (view # NONE => IsFiniteSet(view.loans))

WithinCopies(l) ==
    ~run.removed /\ Cardinality(OutOf(db.loans, l.item))
                      < IF run.copies < 1 THEN 1 ELSE run.copies
WithinLimit(l) == run.max # NONE => Cardinality(HeldBy(db.loans, l.by)) < run.max

PastGate == pc = "write" => WithinCopies(flows[Op.flow]) /\ WithinLimit(flows[Op.flow])

RestTyped ==
    /\ books \in [Items -> Books \cup {NONE}] /\ rule \in Rules
    /\ db \in Rows /\ view \in Rows \cup {NONE}
    /\ pc \in Labels /\ run \in Runnings /\ edits \in 0 .. MaxEdits

RowsInv == RestTyped /\ HeadInv /\ FiniteRows /\ PastGate /\ RowsAreShown /\ LoansHaveBorrowers

IInv == QueueInv /\ RowsInv

-----------------------------------------------------------------------------
(* The queue                                                                *)

\* While the generation runs, rows that are shown stay shown.
Moves == (gen' = gen /\ (view # NONE => view' # NONE)) \/ gen' = gen + 1

\* The call at the head, and the flow that waits for it, are left alone.
HeadKept ==
    queue # <<>> => /\ queue' # <<>> /\ Head(queue') = Head(queue)
                    /\ flows'[Op.flow] = flows[Op.flow]

\* What a queued call is.
LEMMA QueuedCall ==
    ASSUME QueueInv, NEW i \in 1 .. Len(queue)
    PROVE  queue[i] \in Calls /\ queue[i].flow \in Flows
           /\ queue[i].gen \in Nat /\ flows[queue[i].flow].at \in Waiting
<1>1. queue[i] \in Calls
  BY DEF QueueInv, FlowsTyped
<1> QED BY <1>1 DEF Calls, QueueInv, OneCallEach

\* What the head is.
LEMMA HeadCall ==
    ASSUME QueueInv, queue # <<>>
    PROVE  /\ Op \in Calls /\ Op = queue[1] /\ 1 \in 1 .. Len(queue)
           /\ flows[Op.flow] \in FlowRecords /\ flows[Op.flow].at \in Waiting
           /\ Op.op = "addLoan" => flows[Op.flow].item \in Items
           /\ Fresh /\ Op.op # "unlock" => view # NONE
<1>1. Op \in Calls /\ Op = queue[1] /\ Len(queue) \in Nat /\ Len(queue) >= 1
  BY DEF QueueInv, FlowsTyped, Op
<1>2. 1 \in 1 .. Len(queue) /\ Op.flow \in Flows
  BY <1>1 DEF Calls
<1> QED
  BY <1>1, <1>2 DEF QueueInv, FlowsTyped, OneCallEach, ShownToCalls, LendsNameBooks, Fresh

\* A call that answers leaves the queue, and its flow goes on.
LEMMA AnswerKeepsQueue ==
    ASSUME QueueInv, queue # <<>>, NEW ok \in BOOLEAN, Answer(ok), Moves
    PROVE  QueueInv'
<1> DEFINE h == Op.flow
           new == Answered(flows[h], ok)
<1>1. /\ Op = queue[1] /\ h \in Flows /\ 1 \in 1 .. Len(queue)
      /\ flows[h] \in FlowRecords /\ flows[h].at \in Waiting
  BY HeadCall DEF Calls
<1>2. flows' = [flows EXCEPT ![h] = new] /\ queue' = Tail(queue)
  BY DEF Answer
<1>3. /\ new \in FlowRecords
      /\ new.at \in {"book", "borrower", "added"} =>
           flows[h].at = "borrower" /\ new.item = flows[h].item
  <2>1. CASE ok /\ flows[h].at = "borrower"
    BY <1>1, <2>1 DEF Answered, FlowRecords, Places
  <2>2. CASE ok /\ flows[h].at = "purge"
    BY <1>1, <2>2 DEF Answered, FlowRecords, Places
  <2>3. CASE ~(ok /\ flows[h].at = "borrower") /\ ~(ok /\ flows[h].at = "purge")
    <3>1. new = Over
      BY <2>3 DEF Answered
    <3> QED BY <3>1 DEF Over, NoFlow, FlowRecords, Places
  <2> QED BY <2>1, <2>2, <2>3
<1>4. /\ queue \in Seq(Calls) /\ queue' \in Seq(Calls) /\ Len(queue') = Len(queue) - 1
      /\ Len(queue) \in Nat
      /\ \A i \in 1 .. Len(queue') :
           i + 1 \in 1 .. Len(queue) /\ queue'[i] = queue[i + 1] /\ queue[i + 1] \in Calls
  BY <1>2 DEF QueueInv, FlowsTyped
<1>5. \A i \in 1 .. Len(queue') : queue'[i].flow # h /\ queue'[i].flow \in Flows
  <2> SUFFICES ASSUME NEW i \in 1 .. Len(queue')
               PROVE  queue'[i].flow # h /\ queue'[i].flow \in Flows
    OBVIOUS
  <2>1. /\ i \in Nat /\ i + 1 \in 1 .. Len(queue) /\ i + 1 # 1
        /\ queue'[i] = queue[i + 1]
    BY <1>4
  <2>2. queue[i + 1].flow # queue[1].flow
    BY <1>1, <2>1 DEF QueueInv, OneCallEach
  <2> QED BY <1>1, <2>1, <2>2, QueuedCall
<1>6. /\ \A i \in 1 .. Len(queue') : flows'[queue'[i].flow] = flows[queue[i + 1].flow]
      /\ \A f \in Flows : flows'[f] = IF f = h THEN new ELSE flows[f]
      /\ flows' \in [Flows -> FlowRecords]
  BY <1>1, <1>2, <1>3, <1>4, <1>5 DEF QueueInv, FlowsTyped
<1>7. FlowsTyped'
  BY <1>4, <1>6 DEF QueueInv, FlowsTyped, Moves
<1>8. OneCallEach'
  <2>1. \A i \in 1 .. Len(queue') : flows'[queue'[i].flow].at \in Waiting
    BY <1>4, <1>6 DEF QueueInv, OneCallEach
  <2>2. ASSUME NEW i \in 1 .. Len(queue'), NEW j \in 1 .. Len(queue'),
               queue'[i].flow = queue'[j].flow
        PROVE  i = j
    <3>1. i + 1 = j + 1
      BY <2>2, <1>4 DEF QueueInv, OneCallEach
    <3> QED BY <3>1, <1>4
  <2> QED BY <2>1, <2>2 DEF OneCallEach
<1>9. ShownToCalls'
  <2> SUFFICES ASSUME NEW i \in 1 .. Len(queue')
               PROVE  /\ queue'[i].gen <= gen'
                      /\ queue'[i].op # "unlock" /\ queue'[i].gen = gen' => view' # NONE
    BY DEF ShownToCalls
  <2>1. /\ queue'[i].gen \in Nat /\ gen \in Nat /\ queue'[i].gen <= gen
        /\ queue'[i].op # "unlock" /\ queue'[i].gen = gen => view # NONE
    BY <1>4 DEF QueueInv, ShownToCalls, FlowsTyped, Calls
  <2> QED BY <2>1 DEF Moves
<1>10. LendsNameBooks'
  <2>1. \A f \in Flows :
          flows'[f].at \in {"book", "borrower", "added"} => flows'[f].item \in Items
    BY <1>1, <1>3, <1>6 DEF QueueInv, LendsNameBooks
  <2>2. \A i \in 1 .. Len(queue') :
          queue'[i].op = "addLoan" => flows'[queue'[i].flow].item \in Items
    BY <1>4, <1>6 DEF QueueInv, LendsNameBooks
  <2> QED BY <2>1, <2>2 DEF LendsNameBooks
<1> QED BY <1>7, <1>8, <1>9, <1>10 DEF QueueInv

\* A step that leaves the queue alone keeps it, whatever it does to the session.
LEMMA SessionKeepsQueue ==
    ASSUME QueueInv, UNCHANGED <<flows, queue>>, Moves
    PROVE  QueueInv'
<1>1. FlowsTyped' /\ OneCallEach' /\ LendsNameBooks'
  BY DEF QueueInv, FlowsTyped, OneCallEach, LendsNameBooks, Moves
<1>2. ShownToCalls'
  <2> SUFFICES ASSUME NEW i \in 1 .. Len(queue)
               PROVE  /\ queue[i].gen <= gen'
                      /\ queue[i].op # "unlock" /\ queue[i].gen = gen' => view' # NONE
    BY DEF ShownToCalls
  <2>1. queue[i] \in Calls /\ gen \in Nat
    BY DEF QueueInv, FlowsTyped
  <2> QED BY <2>1 DEF QueueInv, ShownToCalls, Calls, Moves
<1> QED BY <1>1, <1>2 DEF QueueInv

\* A flow that waits for no call may go anywhere it waits for none.
LEMMA FlowMovesKeepQueue ==
    ASSUME QueueInv, NEW f \in Flows, flows[f].at \notin Waiting, NEW flow \in FlowRecords,
           flow.at \in {"book", "borrower", "added"} => flow.item \in Items,
           flows' = [flows EXCEPT ![f] = flow], UNCHANGED <<queue, gen, view>>
    PROVE  QueueInv' /\ HeadKept
<1>1. \A i \in 1 .. Len(queue) : queue[i] \in Calls /\ queue[i].flow \in Flows
                                 /\ queue[i].flow # f
  BY QueuedCall
<1>2. \A g \in Flows : flows'[g] = IF g = f THEN flow ELSE flows[g]
  BY DEF QueueInv, FlowsTyped
<1>3. \A i \in 1 .. Len(queue) : flows'[queue[i].flow] = flows[queue[i].flow]
  BY <1>1, <1>2
<1>4. FlowsTyped' /\ ShownToCalls'
  BY DEF QueueInv, FlowsTyped, ShownToCalls
<1>5. OneCallEach' /\ LendsNameBooks'
  BY <1>2, <1>3 DEF QueueInv, OneCallEach, LendsNameBooks
<1>6. HeadKept
  BY <1>3, HeadCall DEF HeadKept
<1> QED BY <1>4, <1>5, <1>6 DEF QueueInv

\* A flow that waits for no call queues one and waits for it.
LEMMA AppendKeepsQueue ==
    ASSUME QueueInv, NEW f \in Flows, flows[f].at \notin Waiting,
           NEW op \in Ops, NEW flow \in FlowRecords, flow.at \in Waiting,
           flow.at = "borrower" \/ op = "addLoan" => flow.item \in Items,
           op # "unlock" => view # NONE,
           flows' = [flows EXCEPT ![f] = flow],
           queue' = Append(queue, [flow |-> f, op |-> op, gen |-> gen]),
           UNCHANGED <<gen, view>>
    PROVE  QueueInv' /\ HeadKept
<1> DEFINE call == [flow |-> f, op |-> op, gen |-> gen]
           n == Len(queue)
<1>1. /\ call \in Calls /\ queue \in Seq(Calls) /\ n \in Nat /\ gen \in Nat
      /\ queue' \in Seq(Calls) /\ Len(queue') = n + 1 /\ queue'[n + 1] = call
      /\ \A i \in 1 .. n : queue'[i] = queue[i] /\ queue[i] \in Calls
  <2>1. call \in Calls /\ queue \in Seq(Calls) /\ gen \in Nat
    BY DEF QueueInv, FlowsTyped, Calls
  <2> HIDE DEF call
  <2>2. queue' = Append(queue, call)
    BY DEF call
  <2> QED BY <2>1, <2>2
<1>2. \A i \in 1 .. n : queue[i].flow \in Flows /\ queue[i].flow # f
  BY QueuedCall
<1>3. \A g \in Flows : flows'[g] = IF g = f THEN flow ELSE flows[g]
  BY DEF QueueInv, FlowsTyped
<1>4. \A i \in 1 .. n : flows'[queue'[i].flow] = flows[queue[i].flow]
  BY <1>1, <1>2, <1>3
<1>5. \A i \in 1 .. Len(queue') : i \in 1 .. n \/ i = n + 1
  BY <1>1
<1>6. FlowsTyped'
  BY <1>1 DEF QueueInv, FlowsTyped
<1>7. OneCallEach'
  <2>1. \A i \in 1 .. Len(queue') : flows'[queue'[i].flow].at \in Waiting
    BY <1>1, <1>3, <1>4, <1>5 DEF QueueInv, OneCallEach
  <2>2. \A i, j \in 1 .. Len(queue') : queue'[i].flow = queue'[j].flow => i = j
    BY <1>1, <1>2, <1>5 DEF QueueInv, OneCallEach
  <2> QED BY <2>1, <2>2 DEF OneCallEach
<1>8. ShownToCalls'
  BY <1>1, <1>5 DEF QueueInv, ShownToCalls
<1>9. LendsNameBooks'
  <2>1. \A g \in Flows :
          flows'[g].at \in {"book", "borrower", "added"} => flows'[g].item \in Items
    BY <1>3 DEF QueueInv, LendsNameBooks, Waiting
  <2>2. \A i \in 1 .. Len(queue') :
          queue'[i].op = "addLoan" => flows'[queue'[i].flow].item \in Items
    BY <1>1, <1>3, <1>4, <1>5 DEF QueueInv, LendsNameBooks
  <2> QED BY <2>1, <2>2 DEF LendsNameBooks
<1>10. HeadKept
  <2> SUFFICES ASSUME queue # <<>>
               PROVE  /\ queue' # <<>> /\ Head(queue') = Head(queue)
                      /\ flows'[Op.flow] = flows[Op.flow]
    BY DEF HeadKept
  <2>1. Op = queue[1] /\ 1 \in 1 .. n
    BY HeadCall
  <2>2. queue' # <<>> /\ Head(queue') = queue'[1]
    BY <1>1
  <2> QED BY <1>1, <1>4, <2>1, <2>2 DEF Op
<1> QED BY <1>6, <1>7, <1>8, <1>9, <1>10 DEF QueueInv

\* _mutate: over at once while locked, queued otherwise.
LEMMA EnqueueKeepsQueue ==
    ASSUME QueueInv, NEW f \in Flows, flows[f].at \notin Waiting,
           NEW op \in Ops, NEW flow \in FlowRecords, flow.at \in Waiting,
           flow.at = "borrower" \/ op = "addLoan" => flow.item \in Items,
           Enqueue(f, op, flow), UNCHANGED <<gen, view>>
    PROVE  QueueInv' /\ HeadKept
<1>1. CASE view = NONE
  <2>1. Over \in FlowRecords /\ Over.at = "done"
    BY DEF Over, NoFlow, FlowRecords, Places
  <2>2. flows' = [flows EXCEPT ![f] = Over] /\ UNCHANGED queue
    BY <1>1 DEF Enqueue
  <2> QED BY <2>1, <2>2, FlowMovesKeepQueue
<1>2. CASE view # NONE
  BY <1>2, AppendKeepsQueue DEF Enqueue
<1> QED BY <1>1, <1>2

-----------------------------------------------------------------------------
(* The user's flows                                                         *)

\* A step of a flow moves the flow, or queues a call for it; only the row of a
\* book may go with it.
LEMMA FlowSteps ==
    ASSUME QueueInv, RestTyped, NEW f \in Flows, Flow(f)
    PROVE  /\ QueueInv' /\ HeadKept
           /\ UNCHANGED <<rule, db, view, gen, pc, run, edits>>
           /\ books' \in [Items -> Books \cup {NONE}]
<1> DEFINE flow == flows[f]
<1>0. /\ flow \in FlowRecords /\ f \in Ids /\ flow.item \in Items \cup {NONE}
      /\ flow.by \in Ids \cup {NONE}
      /\ flow.at \in {"book", "borrower", "added"} => flow.item \in Items
      /\ Over \in FlowRecords /\ Over.at = "done"
      /\ view # NONE => view \in Rows
  <2>1. flow \in FlowRecords
    BY DEF QueueInv, FlowsTyped
  <2>2. f \in Ids
    BY LendingAssumption DEF Flows, Ids
  <2>3. Over \in FlowRecords /\ Over.at = "done"
    BY DEF Over, NoFlow, FlowRecords, Places
  <2> QED BY <2>1, <2>2, <2>3 DEF FlowRecords, QueueInv, LendsNameBooks, RestTyped
<1>1. CASE StartLend(f)
  <2>1. PICK item \in Items, by \in view.borrowers \cup {NONE}, ack \in BOOLEAN :
          flows' = [flows EXCEPT ![f] =
            [at |-> "book", item |-> item, by |-> by, snap |-> view.loans, ack |-> ack]]
    BY <1>1 DEF StartLend
  <2> DEFINE new == [at |-> "book", item |-> item, by |-> by, snap |-> view.loans,
                     ack |-> ack]
  <2>2. new \in FlowRecords /\ new.item \in Items
    BY <1>0, <1>1 DEF StartLend, Rows, FlowRecords, Places
  <2>3. flow.at \notin Waiting /\ UNCHANGED <<queue, gen, view>>
    BY <1>1 DEF StartLend, NextFlow, Waiting, Idle
  <2>4. QueueInv' /\ HeadKept
    <3> HIDE DEF new
    <3> QED BY <2>1, <2>2, <2>3, FlowMovesKeepQueue DEF new
  <2> QED BY <1>1, <2>4 DEF StartLend, Idle, RestTyped
<1>2. CASE LendDecides(f)
  <2>1. flow.at = "book" /\ flow.at \notin Waiting /\ flow.item \in Items
    BY <1>0, <1>2 DEF LendDecides, Waiting
  <2>2. ASSUME NEW at \in {"borrower", "loan"}
        PROVE  Calling(at, flow) \in FlowRecords /\ Calling(at, flow).at = at
               /\ Calling(at, flow).item = flow.item
    BY <1>0 DEF Calling, NoFlow, FlowRecords, Places
  <2>3. Idle
    BY <1>2 DEF LendDecides
  <2>4. CASE LendStops(f)
    BY <1>0, <2>1, <2>3, <2>4, FlowMovesKeepQueue DEF LendStops, Idle, RestTyped
  <2>5. CASE Enqueue(f, "addBorrower", Calling("borrower", flow))
    <3>1. QueueInv' /\ HeadKept
      BY <2>1, <2>2, <2>3, <2>5, EnqueueKeepsQueue DEF Ops, Waiting, Idle
    <3> QED BY <3>1, <2>3 DEF Idle, RestTyped
  <2>6. CASE Enqueue(f, "addLoan", Calling("loan", flow))
    <3>1. QueueInv' /\ HeadKept
      BY <2>1, <2>2, <2>3, <2>6, EnqueueKeepsQueue DEF Ops, Waiting, Idle
    <3> QED BY <3>1, <2>3 DEF Idle, RestTyped
  <2> QED BY <1>2, <2>4, <2>5, <2>6 DEF LendDecides
<1>3. CASE LendContinues(f)
  <2> DEFINE new == [flow EXCEPT !.at = "loan", !.by = f]
  <2>1. flow.at = "added" /\ flow.at \notin Waiting /\ Idle
        /\ Enqueue(f, "addLoan", new)
    BY <1>3 DEF LendContinues, Waiting
  <2>2. new \in FlowRecords /\ new.at = "loan" /\ new.item \in Items
    BY <1>0, <2>1 DEF FlowRecords, Places
  <2>3. QueueInv' /\ HeadKept
    <3> HIDE DEF new
    <3> QED BY <2>1, <2>2, EnqueueKeepsQueue DEF Ops, Waiting, Idle
  <2> QED BY <2>1, <2>3 DEF Idle, RestTyped
<1>4. CASE StartCall(f)
  <2>1. flow.at \notin Waiting /\ Idle
    BY <1>4 DEF StartCall, NextFlow, Waiting
  <2>2. ASSUME NEW by \in Ids
        PROVE  /\ [NoFlow EXCEPT !.at = "call", !.by = by] \in FlowRecords
               /\ [NoFlow EXCEPT !.at = "call", !.by = by].at = "call"
    BY DEF NoFlow, FlowRecords, Places
  <2>3. CASE view # NONE /\ \E l \in view.loans : l.out /\
               Enqueue(f, "return", [NoFlow EXCEPT !.at = "call", !.by = l.id])
    <3>1. PICK l \in view.loans :
            Enqueue(f, "return", [NoFlow EXCEPT !.at = "call", !.by = l.id])
      BY <2>3
    <3>2. l.id \in Ids
      BY <1>0, <2>3 DEF Rows, Loans
    <3>3. QueueInv' /\ HeadKept
      BY <2>1, <2>2, <3>1, <3>2, EnqueueKeepsQueue DEF Ops, Waiting, Idle
    <3> QED BY <2>1, <3>3 DEF Idle, RestTyped
  <2>4. CASE view # NONE /\ \E b \in view.borrowers :
               Enqueue(f, "deleteBorrower", [NoFlow EXCEPT !.at = "call", !.by = b])
    <3>1. PICK b \in view.borrowers :
            Enqueue(f, "deleteBorrower", [NoFlow EXCEPT !.at = "call", !.by = b])
      BY <2>4
    <3>2. b \in Ids
      BY <1>0, <2>4 DEF Rows
    <3>3. QueueInv' /\ HeadKept
      BY <2>1, <2>2, <3>1, <3>2, EnqueueKeepsQueue DEF Ops, Waiting, Idle
    <3> QED BY <2>1, <3>3 DEF Idle, RestTyped
  <2>5. CASE /\ flows' = [flows EXCEPT ![f] = [NoFlow EXCEPT !.at = "call"]]
             /\ queue' = Append(queue, [flow |-> f, op |-> "unlock", gen |-> gen])
    <3>1. /\ [NoFlow EXCEPT !.at = "call"] \in FlowRecords
          /\ [NoFlow EXCEPT !.at = "call"].at = "call"
      BY DEF NoFlow, FlowRecords, Places
    <3>2. QueueInv' /\ HeadKept
      BY <2>1, <2>5, <3>1, AppendKeepsQueue DEF Ops, Waiting, Idle
    <3> QED BY <2>1, <3>2 DEF Idle, RestTyped
  <2> QED BY <1>4, <2>3, <2>4, <2>5 DEF StartCall
<1>5. CASE StartDelete(f)
  <2>1. flow.at \notin Waiting /\ Idle
    BY <1>5 DEF StartDelete, NextFlow, Waiting
  <2>2. PICK item \in Items :
          \/ Enqueue(f, "purge", [[NoFlow EXCEPT !.item = item] EXCEPT !.at = "purge"])
          \/ /\ flows' = [flows EXCEPT ![f] =
                  [[NoFlow EXCEPT !.item = item] EXCEPT !.at = "row"]]
             /\ UNCHANGED queue
    BY <1>5 DEF StartDelete
  <2>3. ASSUME NEW at \in {"purge", "row"}
        PROVE  /\ [[NoFlow EXCEPT !.item = item] EXCEPT !.at = at] \in FlowRecords
               /\ [[NoFlow EXCEPT !.item = item] EXCEPT !.at = at].at = at
    BY DEF NoFlow, FlowRecords, Places
  <2>4. QueueInv' /\ HeadKept
    <3>1. CASE Enqueue(f, "purge", [[NoFlow EXCEPT !.item = item] EXCEPT !.at = "purge"])
      BY <2>1, <2>3, <3>1, EnqueueKeepsQueue DEF Ops, Waiting, Idle
    <3>2. CASE /\ flows' = [flows EXCEPT ![f] =
                   [[NoFlow EXCEPT !.item = item] EXCEPT !.at = "row"]]
               /\ UNCHANGED queue
      BY <2>1, <2>3, <3>2, FlowMovesKeepQueue DEF Idle
    <3> QED BY <2>2, <3>1, <3>2
  <2> QED BY <2>1, <2>4 DEF Idle, RestTyped
<1>6. CASE DeleteRow(f)
  <2>1. flow.at \notin Waiting
    BY <1>6 DEF DeleteRow, Waiting
  <2>2. /\ flows' = [flows EXCEPT ![f] = Over]
        /\ UNCHANGED <<rule, db, view, gen, queue, pc, run, edits>>
    BY <1>6 DEF DeleteRow
  <2>3. books' \in [Items -> Books \cup {NONE}]
    BY <1>6 DEF DeleteRow, RestTyped
  <2>4. QueueInv' /\ HeadKept
    BY <1>0, <2>1, <2>2, FlowMovesKeepQueue
  <2> QED BY <2>2, <2>3, <2>4
<1> QED BY <1>1, <1>2, <1>3, <1>4, <1>5, <1>6 DEF Flow

\* What the user starts disturbs no call at work and no row.
LEMMA FlowKeeps ==
    ASSUME IInv, NEW f \in Flows, Flow(f)
    PROVE  IInv'
<1>1. /\ QueueInv' /\ HeadKept
      /\ UNCHANGED <<rule, db, view, gen, pc, run, edits>>
      /\ books' \in [Items -> Books \cup {NONE}]
  BY FlowSteps DEF IInv, RowsInv
<1>2. RestTyped' /\ FiniteRows' /\ RowsAreShown' /\ LoansHaveBorrowers'
  BY <1>1 DEF IInv, RowsInv, RestTyped, FiniteRows, RowsAreShown, LoansHaveBorrowers
<1>3. HeadInv'
  BY <1>1 DEF IInv, RowsInv, RestTyped, Labels, HeadInv, HeadKept, Op, Fresh
<1>4. PastGate'
  <2>1. CASE pc = "write"
    <3>1. queue # <<>> /\ Op' = Op /\ flows'[Op'.flow] = flows[Op.flow]
      BY <1>1, <2>1 DEF IInv, RowsInv, HeadInv, HeadKept, Op
    <3> QED BY <1>1, <2>1, <3>1
            DEF IInv, RowsInv, PastGate, WithinCopies, WithinLimit
  <2>2. CASE pc # "write"
    BY <1>1, <2>2 DEF PastGate
  <2> QED BY <2>1, <2>2
<1> QED BY <1>1, <1>2, <1>3, <1>4 DEF IInv, RowsInv

-----------------------------------------------------------------------------
(* The head of the queue                                                    *)

\* A call about to start belongs to the running generation and sees the rows,
\* every one the database holds.
LEMMA HeadStarts ==
    ASSUME IInv, NEW op, Runs(op)
    PROVE  /\ queue # <<>> /\ pc = "wait" /\ Fresh /\ Op.op = op
           /\ Op.flow \in Flows /\ Op.flow \in Ids /\ flows[Op.flow] \in FlowRecords
           /\ op # "unlock" => view \in Rows
<1>1. queue # <<>> /\ pc = "wait" /\ Fresh /\ Op.op = op
  BY DEF Runs, At
<1> QED
  BY <1>1, HeadCall, LendingAssumption DEF IInv, RowsInv, RestTyped, Calls, Flows, Ids

\* A call at work is at the head; as long as no lock came it sees the rows.
LEMMA HeadWorks ==
    ASSUME IInv, NEW label, label # "wait", At(label)
    PROVE  /\ queue # <<>> /\ pc = label /\ Op.flow \in Flows /\ Op.flow \in Ids
           /\ flows[Op.flow] \in FlowRecords
           /\ Fresh \/ view = NONE
           /\ Fresh /\ Op.op # "unlock" => view \in Rows
           /\ label \in {"gate", "write"} =>
                Op.op = "addLoan" /\ flows[Op.flow].item \in Items
           /\ label = "purge" => Op.op = "purge"
<1>1. queue # <<>> /\ pc = label
  BY DEF At
<1>2. (Fresh \/ view = NONE) /\ (label \in {"gate", "write"} => Op.op = "addLoan")
      /\ (label = "purge" => Op.op = "purge")
  BY <1>1 DEF IInv, RowsInv, HeadInv
<1> QED
  BY <1>1, <1>2, HeadCall, LendingAssumption
  DEF IInv, RowsInv, RestTyped, Calls, Flows, Ids

\* A call that ends without a write, anywhere before its re-read.
LEMMA FailsKeeps ==
    ASSUME IInv, queue # <<>>, pc # "reread", Fails
    PROVE  IInv'
<1>1. QueueInv'
  BY AnswerKeepsQueue DEF Fails, Moves, IInv
<1>2. NoRun \in Runnings /\ "wait" \in Labels
  BY DEF NoRun, Runnings, Labels
<1>3. RestTyped'
  BY <1>2 DEF Fails, Answer, Library, IInv, RowsInv, RestTyped
<1>4. HeadInv' /\ PastGate'
  BY DEF Fails, Answer, HeadInv, PastGate
<1>5. FiniteRows' /\ RowsAreShown' /\ LoansHaveBorrowers'
  BY DEF Fails, IInv, RowsInv, FiniteRows, RowsAreShown, LoansHaveBorrowers
<1> QED BY <1>1, <1>3, <1>4, <1>5 DEF IInv, RowsInv

\* A write of the core, which the re-read will show.
LEMMA WroteKeeps ==
    ASSUME IInv, queue # <<>>, Fresh \/ view = NONE,
           NEW rows \in Rows, IsFiniteSet(rows.loans),
           \A l \in rows.loans : l.by \in rows.borrowers,
           Wrote(rows)
    PROVE  IInv'
<1>1. QueueInv'
  BY SessionKeepsQueue DEF Wrote, Goto, Moves, IInv
<1>2. RestTyped'
  BY DEF Wrote, Goto, Library, IInv, RowsInv, RestTyped, Labels
<1>3. HeadInv' /\ PastGate'
  BY DEF Wrote, Goto, HeadInv, PastGate, Op, Fresh
<1>4. FiniteRows' /\ RowsAreShown' /\ LoansHaveBorrowers'
  BY DEF Wrote, Goto, IInv, RowsInv, FiniteRows, RowsAreShown, LoansHaveBorrowers
<1> QED BY <1>1, <1>2, <1>3, <1>4 DEF IInv, RowsInv

\* A call that goes on without a write.
LEMMA GotoKeeps ==
    ASSUME IInv, queue # <<>>, Fresh \/ view = NONE, pc # "reread",
           NEW label \in Labels, Goto(label), run' \in Runnings,
           UNCHANGED <<db, view, gen>>, Library,
           label \in {"gate", "write"} => Op.op = "addLoan",
           label = "purge" => Op.op = "purge",
           PastGate'
    PROVE  IInv'
<1>1. QueueInv'
  BY SessionKeepsQueue DEF Goto, Moves, IInv
<1>2. RestTyped'
  BY DEF Goto, Library, IInv, RowsInv, RestTyped
<1>3. HeadInv'
  BY DEF Goto, HeadInv, Op, Fresh
<1>4. FiniteRows' /\ RowsAreShown' /\ LoansHaveBorrowers'
  BY DEF Goto, IInv, RowsInv, FiniteRows, RowsAreShown, LoansHaveBorrowers
<1> QED BY <1>1, <1>2, <1>3, <1>4 DEF IInv, RowsInv

\* Fewer loans are no more out, and no more held.
LEMMA FewerLoans ==
    ASSUME NEW T, IsFiniteSet(T), NEW S \in SUBSET T, NEW item, NEW by
    PROVE  /\ Cardinality(OutOf(S, item)) \in Nat
           /\ Cardinality(OutOf(T, item)) \in Nat
           /\ Cardinality(OutOf(S, item)) <= Cardinality(OutOf(T, item))
           /\ Cardinality(HeldBy(S, by)) \in Nat
           /\ Cardinality(HeldBy(T, by)) \in Nat
           /\ Cardinality(HeldBy(S, by)) <= Cardinality(HeldBy(T, by))
<1>1. OutOf(T, item) \in SUBSET T /\ HeldBy(T, by) \in SUBSET T
  BY DEF OutOf, HeldBy
<1>2. /\ OutOf(S, item) \in SUBSET OutOf(T, item)
      /\ HeldBy(S, by) \in SUBSET HeldBy(T, by)
  BY DEF OutOf, HeldBy
<1>3. IsFiniteSet(OutOf(T, item)) /\ IsFiniteSet(HeldBy(T, by))
  BY <1>1, FS_Subset
<1>4. IsFiniteSet(OutOf(S, item)) /\ IsFiniteSet(HeldBy(S, by))
  BY <1>2, <1>3, FS_Subset
<1> QED BY <1>2, <1>3, <1>4, FS_Subset, FS_CardinalityType

LEMMA CancelledKeeps == ASSUME IInv, Cancelled PROVE IInv'
BY FailsKeeps DEF Cancelled, At

LEMMA CoreFailsKeeps == ASSUME IInv, CoreFails PROVE IInv'
BY FailsKeeps DEF CoreFails, Runs, At

LEMMA AddBorrowerKeeps == ASSUME IInv, AddBorrower PROVE IInv'
<1> DEFINE rows == [db EXCEPT !.borrowers = @ \cup {Op.flow}]
<1>1. queue # <<>> /\ Fresh /\ Op.flow \in Ids /\ db \in Rows /\ IsFiniteSet(db.loans)
  BY HeadStarts DEF AddBorrower, IInv, RowsInv, RestTyped, FiniteRows
<1>2. /\ rows \in Rows /\ rows.loans = db.loans
      /\ rows.borrowers = db.borrowers \cup {Op.flow}
  BY <1>1 DEF Rows
<1>3. \A l \in rows.loans : l.by \in rows.borrowers
  BY <1>2 DEF IInv, RowsInv, LoansHaveBorrowers
<1>4. Wrote(rows)
  BY DEF AddBorrower
<1> HIDE DEF rows
<1> QED BY <1>1, <1>2, <1>3, <1>4, WroteKeeps

LEMMA ReadBookKeeps == ASSUME IInv, ReadBook PROVE IInv'
<1> DEFINE book == books[flows[Op.flow].item]
           new == [NoRun EXCEPT !.copies = book.copies, !.removed = book.removed]
<1>1. /\ queue # <<>> /\ pc = "wait" /\ Fresh /\ Op.op = "addLoan"
      /\ flows[Op.flow].item \in Items
  BY HeadStarts, HeadCall DEF ReadBook, IInv
<1>2. CASE Fails
  BY <1>1, <1>2, FailsKeeps
<1>3. CASE /\ book # NONE /\ Goto("gate") /\ run' = new
           /\ UNCHANGED <<db, view, gen>> /\ Library
  <2>1. book \in Books
    BY <1>1, <1>3 DEF IInv, RowsInv, RestTyped
  <2>2. new \in Runnings
    BY <2>1, LendingAssumption DEF NoRun, Runnings, Books
  <2>3. run' \in Runnings /\ PastGate'
    BY <1>3, <2>2 DEF Goto, PastGate
  <2> QED BY <1>1, <1>3, <2>3, GotoKeeps DEF Labels
<1> QED BY <1>2, <1>3 DEF ReadBook

\* What the gate decided on the rows shown holds of the rows of the database.
LEMMA GateKeeps == ASSUME IInv, Gate PROVE IInv'
<1> DEFINE flow == flows[Op.flow]
           new == [run EXCEPT !.max = IF rule.refuse THEN rule.max ELSE NONE]
<1>1. /\ queue # <<>> /\ pc = "gate" /\ Op.op = "addLoan"
      /\ Fresh => view \in Rows
  BY HeadWorks DEF Gate
<1>2. CASE Fails
  BY <1>1, <1>2, FailsKeeps
<1>3. CASE /\ Fresh
           /\ LendAllowed(run.copies, run.removed, view.loans, flow.item)
           /\ ~(rule.refuse /\ Check(rule, view.loans, flow.by, FALSE) = "refused")
           /\ Goto("write") /\ run' = new
           /\ UNCHANGED <<db, view, gen>> /\ Library
  <2>1. run \in Runnings /\ rule \in Rules
    BY DEF IInv, RowsInv, RestTyped
  <2>2. /\ run' \in Runnings /\ run'.copies = run.copies /\ run'.removed = run.removed
        /\ run'.max = IF rule.refuse THEN rule.max ELSE NONE
    BY <1>3, <2>1 DEF Runnings, Rules
  <2>3. view # NONE /\ IsFiniteSet(view.loans) /\ db.loans \in SUBSET view.loans
    <3>1. view # NONE
      BY <1>1, <1>3, HeadCall DEF IInv
    <3> QED BY <1>1, <3>1 DEF IInv, RowsInv, FiniteRows, RowsAreShown
  <2>4. Cardinality(OutOf(db.loans, flow.item)) < IF run.copies < 1 THEN 1 ELSE run.copies
    <3>1. /\ Cardinality(OutOf(db.loans, flow.item)) \in Nat
          /\ Cardinality(OutOf(view.loans, flow.item)) \in Nat
          /\ Cardinality(OutOf(db.loans, flow.item))
                <= Cardinality(OutOf(view.loans, flow.item))
      BY <2>3, FewerLoans
    <3>2. Cardinality(OutOf(view.loans, flow.item))
            < IF run.copies < 1 THEN 1 ELSE run.copies
      BY <1>3 DEF LendAllowed
    <3>3. run.copies \in Nat
      BY <2>1 DEF Runnings
    <3> QED BY <3>1, <3>2, <3>3
  <2>5. run'.max # NONE => Cardinality(HeldBy(db.loans, flow.by)) < run'.max
    <3> SUFFICES ASSUME run'.max # NONE
                 PROVE  Cardinality(HeldBy(db.loans, flow.by)) < run'.max
      OBVIOUS
    <3>1. rule.refuse /\ run'.max = rule.max /\ rule.max \in Nat /\ rule.max # NONE
      BY <2>1, <2>2, LendingAssumption DEF Rules
    <3>2. Cardinality(HeldBy(view.loans, flow.by)) < rule.max
      BY <1>3, <3>1 DEF Check
    <3>3. /\ Cardinality(HeldBy(db.loans, flow.by)) \in Nat
          /\ Cardinality(HeldBy(view.loans, flow.by)) \in Nat
          /\ Cardinality(HeldBy(db.loans, flow.by))
                <= Cardinality(HeldBy(view.loans, flow.by))
      BY <2>3, FewerLoans
    <3> QED BY <3>1, <3>2, <3>3
  <2>6. PastGate'
    <3>1. /\ flows'[Op'.flow] = flow /\ db' = db /\ ~run.removed
      BY <1>3 DEF Goto, Op, LendAllowed
    <3> QED BY <2>2, <2>4, <2>5, <3>1 DEF PastGate, WithinCopies, WithinLimit
  <2> QED BY <1>1, <1>3, <2>2, <2>6, GotoKeeps DEF Labels
<1> QED BY <1>2, <1>3 DEF Gate

LEMMA InsertLoanKeeps == ASSUME IInv, InsertLoan PROVE IInv'
<1> DEFINE flow == flows[Op.flow]
           loan == [id |-> Op.flow, item |-> flow.item, by |-> flow.by, out |-> TRUE]
           rows == [db EXCEPT !.loans = @ \cup {loan}]
<1>1. /\ queue # <<>> /\ pc = "write" /\ (Fresh \/ view = NONE)
      /\ Op.flow \in Ids /\ flow.item \in Items /\ db \in Rows
      /\ IsFiniteSet(db.loans)
  BY HeadWorks DEF InsertLoan, IInv, RowsInv, RestTyped, FiniteRows
<1>2. CASE Fails
  BY <1>1, <1>2, FailsKeeps
<1>3. CASE flow.by \in db.borrowers /\ Wrote(rows)
  <2>1. loan \in Loans /\ loan.by \in db.borrowers
    BY <1>1, <1>3 DEF Loans, Rows
  <2> HIDE DEF loan
  <2>2. rows \in Rows /\ rows.loans = db.loans \cup {loan} /\ rows.borrowers = db.borrowers
    BY <1>1, <2>1 DEF Rows
  <2>3. IsFiniteSet(rows.loans)
    BY <1>1, <2>2, FS_AddElement
  <2>4. \A l \in rows.loans : l.by \in rows.borrowers
    BY <2>1, <2>2 DEF IInv, RowsInv, LoansHaveBorrowers
  <2> HIDE DEF rows
  <2> QED BY <1>1, <1>3, <2>2, <2>3, <2>4, WroteKeeps
<1> QED BY <1>2, <1>3 DEF InsertLoan

LEMMA ReturnLoanKeeps == ASSUME IInv, ReturnLoan PROVE IInv'
<1> DEFINE given(l) ==
             IF l.id = flows[Op.flow].by THEN [l EXCEPT !.out = FALSE] ELSE l
           back == {given(l) : l \in db.loans}
           rows == [db EXCEPT !.loans = {given(l) : l \in @}]
<1>1. /\ queue # <<>> /\ pc = "wait" /\ Fresh /\ db \in Rows /\ IsFiniteSet(db.loans)
  BY HeadStarts DEF ReturnLoan, IInv, RowsInv, RestTyped, FiniteRows
<1>2. CASE Fails
  BY <1>1, <1>2, FailsKeeps
<1>3. CASE Wrote(rows)
  <2>1. \A l \in db.loans : given(l) \in Loans /\ given(l).by = l.by
    BY <1>1 DEF Rows, Loans
  <2>2. IsFiniteSet(back)
    <3>1. [l \in db.loans |-> given(l)] \in Surjection(db.loans, back)
      BY DEF Surjection
    <3> QED BY <1>1, <3>1, FS_Surjection
  <2>3. rows = [borrowers |-> db.borrowers, loans |-> back]
    <3>1. rows = [db EXCEPT !.loans = back]
      OBVIOUS
    <3> HIDE DEF rows, back
    <3> QED BY <1>1, <3>1 DEF Rows
  <2>4. back \subseteq Loans
    BY <2>1
  <2>5. rows \in Rows
    BY <1>1, <2>3, <2>4 DEF Rows
  <2>6. \A l \in back : l.by \in db.borrowers
    BY <2>1 DEF IInv, RowsInv, LoansHaveBorrowers
  <2> HIDE DEF rows, back
  <2> QED BY <1>1, <1>3, <2>2, <2>3, <2>5, <2>6, WroteKeeps
<1> QED BY <1>2, <1>3 DEF ReturnLoan

LEMMA DeleteBorrowerKeeps == ASSUME IInv, DeleteBorrower PROVE IInv'
<1> DEFINE b == flows[Op.flow].by
           rows == [borrowers |-> db.borrowers \ {b},
                    loans |-> {l \in db.loans : l.by # b}]
<1>1. /\ queue # <<>> /\ pc = "wait" /\ Fresh /\ db \in Rows /\ IsFiniteSet(db.loans)
  BY HeadStarts DEF DeleteBorrower, IInv, RowsInv, RestTyped, FiniteRows
<1>2. CASE Fails
  BY <1>1, <1>2, FailsKeeps
<1>3. CASE Wrote(rows)
  <2>1. rows \in Rows
    BY <1>1 DEF Rows
  <2>2. IsFiniteSet(rows.loans)
    <3>1. rows.loans \in SUBSET db.loans
      OBVIOUS
    <3> QED BY <1>1, <3>1, FS_Subset
  <2>3. \A l \in rows.loans : l.by \in rows.borrowers
    BY DEF IInv, RowsInv, LoansHaveBorrowers
  <2> HIDE DEF rows
  <2> QED BY <1>1, <1>3, <2>1, <2>2, <2>3, WroteKeeps
<1> QED BY <1>2, <1>3 DEF DeleteBorrower, CoreDeletes

LEMMA StartPurgeKeeps == ASSUME IInv, StartPurge PROVE IInv'
<1>1. /\ queue # <<>> /\ pc = "wait" /\ Fresh /\ Op.op = "purge" /\ view \in Rows
  BY HeadStarts DEF StartPurge
<1> DEFINE ids == {l.id : l \in {m \in view.loans : m.item = flows[Op.flow].item}}
<1>2. ids \subseteq Ids
  BY <1>1 DEF Rows, Loans
<1> HIDE DEF ids
<1>3. run' = [NoRun EXCEPT !.ids = ids]
  BY DEF StartPurge, ids
<1>4. run' \in Runnings
  BY <1>2, <1>3 DEF NoRun, Runnings
<1>5. PastGate'
  BY DEF StartPurge, Goto, PastGate
<1> QED BY <1>1, <1>4, <1>5, GotoKeeps DEF StartPurge, Labels

LEMMA PurgeOneKeeps == ASSUME IInv, PurgeOne PROVE IInv'
<1>1. /\ queue # <<>> /\ pc = "purge" /\ Op.op = "purge" /\ (Fresh \/ view = NONE)
      /\ db \in Rows /\ IsFiniteSet(db.loans) /\ run \in Runnings
  BY HeadWorks DEF PurgeOne, IInv, RowsInv, RestTyped, FiniteRows
<1>2. CASE Fails
  BY <1>1, <1>2, FailsKeeps
<1>3. CASE \E id \in run.ids :
             /\ db' = [db EXCEPT !.loans = {l \in @ : l.id # id}]
             /\ run' = [run EXCEPT !.ids = @ \ {id}]
             /\ UNCHANGED <<queue, flows, pc, view, gen>> /\ Library
  <2>1. PICK id \in run.ids :
             /\ db' = [db EXCEPT !.loans = {l \in @ : l.id # id}]
             /\ run' = [run EXCEPT !.ids = @ \ {id}]
             /\ UNCHANGED <<queue, flows, pc, view, gen>> /\ Library
    BY <1>3
  <2>2. /\ db' \in Rows /\ db'.borrowers = db.borrowers
        /\ db'.loans \in SUBSET db.loans
    BY <1>1, <2>1 DEF Rows
  <2>3. run' \in Runnings
    BY <1>1, <2>1 DEF Runnings
  <2>4. QueueInv'
    BY <2>1, SessionKeepsQueue DEF Moves, IInv
  <2>5. RestTyped'
    BY <2>1, <2>2, <2>3 DEF Library, IInv, RowsInv, RestTyped
  <2>6. HeadInv' /\ PastGate'
    BY <1>1, <2>1 DEF HeadInv, PastGate, Op, Fresh
  <2>7. FiniteRows'
    BY <1>1, <2>1, <2>2, FS_Subset DEF IInv, RowsInv, FiniteRows
  <2>8. RowsAreShown'
    BY <1>1, <2>1, <2>2 DEF IInv, RowsInv, RowsAreShown
  <2>9. LoansHaveBorrowers'
    BY <2>2 DEF IInv, RowsInv, LoansHaveBorrowers
  <2> QED BY <2>4, <2>5, <2>6, <2>7, <2>8, <2>9 DEF IInv, RowsInv
<1> QED BY <1>2, <1>3 DEF PurgeOne

LEMMA PurgedKeeps == ASSUME IInv, Purged PROVE IInv'
<1>1. queue # <<>> /\ pc = "purge" /\ Fresh /\ run' \in Runnings
  BY HeadWorks DEF Purged, IInv, RowsInv, RestTyped
<1>2. PastGate'
  BY DEF Purged, Goto, PastGate
<1> QED BY <1>1, <1>2, GotoKeeps DEF Purged, Labels

LEMMA StartUnlockKeeps == ASSUME IInv, StartUnlock PROVE IInv'
<1>1. queue # <<>> /\ pc = "wait" /\ Fresh /\ run' \in Runnings
  BY HeadStarts DEF StartUnlock, IInv, RowsInv, RestTyped
<1>2. PastGate'
  BY DEF StartUnlock, Goto, PastGate
<1> QED BY <1>1, <1>2, GotoKeeps DEF StartUnlock, Labels

\* The rows are shown as the database holds them, or not at all.
LEMMA RereadKeeps == ASSUME IInv, Reread PROVE IInv'
<1>1. /\ queue # <<>> /\ pc = "reread" /\ (Fresh \/ view = NONE)
      /\ db \in Rows /\ db # NONE
  BY HeadWorks, NoneIsNoRows DEF Reread, IInv, RowsInv, RestTyped
<1>2. PICK ok \in BOOLEAN : Answer(ok)
  BY DEF Reread
<1>3. Moves
  BY <1>1 DEF Reread, Moves
<1>4. QueueInv'
  BY <1>1, <1>2, <1>3, AnswerKeepsQueue DEF IInv
<1>5. UNCHANGED db /\ Library /\ pc' = "wait" /\ run' = NoRun
      /\ view' \in {view, db, NONE}
  BY <1>2 DEF Reread, Answer
<1>6. NoRun \in Runnings /\ "wait" \in Labels
  BY DEF NoRun, Runnings, Labels
<1>7. RestTyped'
  BY <1>1, <1>5, <1>6 DEF Library, IInv, RowsInv, RestTyped
<1>8. HeadInv' /\ PastGate'
  BY <1>5 DEF HeadInv, PastGate
<1>9. FiniteRows' /\ LoansHaveBorrowers'
  BY <1>5 DEF IInv, RowsInv, FiniteRows, LoansHaveBorrowers
<1>10. RowsAreShown'
  BY <1>1, <1>5 DEF Reread, RowsAreShown
<1> QED BY <1>4, <1>7, <1>8, <1>9, <1>10 DEF IInv, RowsInv

-----------------------------------------------------------------------------
(* The invariant                                                            *)

\* A lock hides the rows and ends the generation.
LEMMA LockKeeps == ASSUME IInv, Lock PROVE IInv'
<1>1. QueueInv'
  BY SessionKeepsQueue DEF Lock, Moves, IInv
<1>2. RestTyped' /\ FiniteRows' /\ RowsAreShown' /\ LoansHaveBorrowers'
  BY DEF Lock, IInv, RowsInv, RestTyped, FiniteRows, RowsAreShown, LoansHaveBorrowers
<1>3. HeadInv'
  BY DEF Lock, IInv, RowsInv, HeadInv, Op
<1>4. PastGate'
  BY DEF Lock, IInv, RowsInv, PastGate, WithinCopies, WithinLimit, Op
<1> QED BY <1>1, <1>2, <1>3, <1>4 DEF IInv, RowsInv

\* An edit of a book or of the rules touches no row of the vault.
LEMMA EditKeeps == ASSUME IInv, Edit PROVE IInv'
<1>1. QueueInv'
  BY SessionKeepsQueue DEF Edit, Moves, IInv
<1>2. RestTyped'
  BY LendingAssumption DEF Edit, IInv, RowsInv, RestTyped
<1>3. FiniteRows' /\ RowsAreShown' /\ LoansHaveBorrowers'
  BY DEF Edit, IInv, RowsInv, FiniteRows, RowsAreShown, LoansHaveBorrowers
<1>4. HeadInv'
  BY DEF Edit, IInv, RowsInv, HeadInv, Op, Fresh
<1>5. PastGate'
  BY DEF Edit, IInv, RowsInv, PastGate, WithinCopies, WithinLimit, Op
<1> QED BY <1>1, <1>2, <1>3, <1>4, <1>5 DEF IInv, RowsInv

LEMMA StutterKeeps == ASSUME IInv, UNCHANGED vars PROVE IInv'
<1>1. QueueInv'
  BY SessionKeepsQueue DEF vars, Moves, IInv
<1>2. RowsInv'
  BY DEF vars, IInv, RowsInv, RestTyped, FiniteRows, RowsAreShown, LoansHaveBorrowers,
         HeadInv, PastGate, WithinCopies, WithinLimit, Op, Fresh
<1> QED BY <1>1, <1>2 DEF IInv

LEMMA InvInit == Init => IInv
<1> SUFFICES ASSUME Init PROVE IInv
  OBVIOUS
<1>1. PICK loans \in {{}} \cup {{l} : l \in [id: {0}, item: Items, by: {0}, out: BOOLEAN]} :
        db = [borrowers |-> {0}, loans |-> loans]
  BY DEF Init
<1>2. 0 \in Ids /\ IsFiniteSet(loans) /\ loans \subseteq Loans
      /\ \A l \in loans : l.by = 0
  <2>1. 0 \in Ids
    BY LendingAssumption DEF Ids
  <2>2. CASE loans = {}
    BY <2>1, <2>2, FS_EmptySet
  <2>3. CASE \E l \in [id: {0}, item: Items, by: {0}, out: BOOLEAN] : loans = {l}
    BY <2>1, <2>3, FS_Singleton DEF Loans
  <2> QED BY <1>1, <2>2, <2>3
<1>3. db \in Rows /\ view = db /\ FiniteRows /\ RowsAreShown /\ LoansHaveBorrowers
  BY <1>1, <1>2 DEF Init, Rows, FiniteRows, RowsAreShown, LoansHaveBorrowers
<1>4. NoFlow \in FlowRecords /\ NoFlow.at = "idle"
  BY DEF NoFlow, FlowRecords, Places
<1>5. QueueInv
  BY <1>4 DEF Init, QueueInv, FlowsTyped, OneCallEach, ShownToCalls, LendsNameBooks
<1>6. NoRun \in Runnings /\ 0 \in 0 .. MaxEdits
  BY LendingAssumption DEF NoRun, Runnings
<1>7. RestTyped
  BY <1>3, <1>6 DEF Init, RestTyped, Labels
<1>8. HeadInv /\ PastGate
  BY DEF Init, HeadInv, PastGate
<1> QED BY <1>3, <1>5, <1>7, <1>8 DEF IInv, RowsInv

LEMMA InvNext == IInv /\ [Next]_vars => IInv'
<1> SUFFICES ASSUME IInv, [Next]_vars PROVE IInv'
  OBVIOUS
<1>1. CASE \E f \in Flows : Flow(f)
  BY <1>1, FlowKeeps
<1>2. CASE Vault
  BY <1>2, CancelledKeeps, CoreFailsKeeps, AddBorrowerKeeps, ReadBookKeeps, GateKeeps,
     InsertLoanKeeps, ReturnLoanKeeps, DeleteBorrowerKeeps, StartPurgeKeeps,
     PurgeOneKeeps, PurgedKeeps, StartUnlockKeeps, RereadKeeps DEF Vault
<1>3. CASE Lock
  BY <1>3, LockKeeps
<1>4. CASE Edit
  BY <1>4, EditKeeps
<1>5. CASE UNCHANGED vars
  BY <1>5, StutterKeeps
<1> QED BY <1>1, <1>2, <1>3, <1>4, <1>5 DEF Next

LEMMA InvAlways == Spec => []IInv
BY InvInit, InvNext, PTL DEF Spec

-----------------------------------------------------------------------------
(* The theorems                                                             *)

\* Every variable keeps its type, and each queued call is one a flow waits for.
THEOREM TypesHold == Spec => []TypeOK
<1>1. IInv => TypeOK
  BY DEF IInv, QueueInv, FlowsTyped, OneCallEach, RowsInv, RestTyped, FlowRecords, Calls,
         Runnings, TypeOK
<1> QED BY <1>1, InvAlways, PTL

\* What every call decides on: the rows shown are those of the database, unless
\* a write waits to be read back.
THEOREM ShownHolds == Spec => []RowsAreShown
<1>1. IInv => RowsAreShown
  BY DEF IInv, RowsInv
<1> QED BY <1>1, InvAlways, PTL

\* No loan is left without its borrower.
THEOREM BorrowersHold == Spec => []LoansHaveBorrowers
<1>1. IInv => LoansHaveBorrowers
  BY DEF IInv, RowsInv
<1> QED BY <1>1, InvAlways, PTL

\* Deleting a borrower takes loans that borrower has returned.
LEMMA ReturnedLoansGo ==
    ASSUME DeleteBorrower, db' # db
    PROVE  \E b : HeldBy(db.loans, b) = {} /\ db'.loans = {m \in db.loans : m.by # b}
<1> DEFINE b == flows[Op.flow].by
<1>1. CoreDeletes(b)
  BY DEF DeleteBorrower, Fails
<1>2. /\ HeldBy(db.loans, b) = {}
      /\ db' = [borrowers |-> db.borrowers \ {b}, loans |-> {m \in db.loans : m.by # b}]
  BY <1>1 DEF CoreDeletes, Wrote, Fails
<1> QED BY <1>2

\* Loans are put out by InsertLoan alone, one at a time.
LEMMA OnlyLendsInsert ==
    ASSUME IInv, [Next]_vars, NEW l \in Inserted
    PROVE  InsertLoan /\ pc = "write"
           /\ l.item = flows[Op.flow].item /\ l.by = flows[Op.flow].by
<1>1. l \in db'.loans /\ l \notin db.loans /\ l.out /\ db \in Rows
  BY DEF Inserted, IInv, RowsInv, RestTyped
<1>2. db' # db
  BY <1>1
<1>3. CASE AddBorrower
  BY <1>1, <1>3 DEF AddBorrower, Wrote, Rows
<1>4. CASE InsertLoan
  <2>1. pc = "write"
    BY <1>4 DEF InsertLoan, At
  <2>2. db' = [db EXCEPT !.loans = @ \cup
          {[id |-> Op.flow, item |-> flows[Op.flow].item,
            by |-> flows[Op.flow].by, out |-> TRUE]}]
    BY <1>2, <1>4 DEF InsertLoan, Wrote, Fails
  <2>3. l = [id |-> Op.flow, item |-> flows[Op.flow].item,
             by |-> flows[Op.flow].by, out |-> TRUE]
    BY <1>1, <2>2 DEF Rows
  <2> QED BY <1>4, <2>1, <2>3
<1>5. CASE ReturnLoan
  <2>1. db' = [db EXCEPT !.loans =
          {IF m.id = flows[Op.flow].by THEN [m EXCEPT !.out = FALSE] ELSE m : m \in @}]
    BY <1>2, <1>5 DEF ReturnLoan, Wrote, Fails
  <2>2. PICK m \in db.loans :
          l = IF m.id = flows[Op.flow].by THEN [m EXCEPT !.out = FALSE] ELSE m
    BY <1>1, <2>1 DEF Rows
  <2>3. m \in Loans
    BY <1>1 DEF Rows
  <2> QED BY <1>1, <2>2, <2>3 DEF Loans
<1>6. CASE DeleteBorrower
  <2>1. PICK b : db'.loans = {m \in db.loans : m.by # b}
    BY <1>2, <1>6, ReturnedLoansGo
  <2> QED BY <1>1, <2>1
<1>7. CASE PurgeOne
  BY <1>1, <1>2, <1>7 DEF PurgeOne, Fails, Rows
<1>8. CASE \E f \in Flows : Flow(f)
  BY <1>2, <1>8 DEF Flow, StartLend, LendDecides, LendContinues, StartCall, StartDelete,
                    DeleteRow, Idle
<1>9. CASE Cancelled \/ CoreFails \/ ReadBook \/ Gate \/ StartPurge \/ Purged
             \/ StartUnlock \/ Reread \/ Lock \/ Edit \/ UNCHANGED vars
  BY <1>2, <1>9 DEF Cancelled, CoreFails, ReadBook, Gate, StartPurge, Purged, StartUnlock,
                    Reread, Lock, Edit, vars, Fails
<1> QED BY <1>3, <1>4, <1>5, <1>6, <1>7, <1>8, <1>9 DEF Next, Vault

\* No lend takes a copy more than the book had, nor a removed book.
THEOREM CopiesHold == Spec => CopiesKept
<1>1. IInv /\ [Next]_vars =>
        [ \A l \in Inserted :
            ~run.removed /\ Cardinality(OutOf(db.loans, l.item))
                              < IF run.copies < 1 THEN 1 ELSE run.copies ]_vars
  <2> SUFFICES ASSUME IInv, [Next]_vars, NEW l \in Inserted
               PROVE  ~run.removed /\ Cardinality(OutOf(db.loans, l.item))
                                        < IF run.copies < 1 THEN 1 ELSE run.copies
    OBVIOUS
  <2> QED BY OnlyLendsInsert DEF IInv, RowsInv, PastGate, WithinCopies
<1> QED BY <1>1, InvAlways, PTL DEF CopiesKept, Spec

\* In Refuse mode no lend takes a borrower past the limit.
THEOREM LimitHolds == Spec => LimitKept
<1>1. IInv /\ [Next]_vars =>
        [ \A l \in Inserted :
            run.max # NONE => Cardinality(HeldBy(db.loans, l.by)) < run.max ]_vars
  <2> SUFFICES ASSUME IInv, [Next]_vars, NEW l \in Inserted
               PROVE  run.max # NONE => Cardinality(HeldBy(db.loans, l.by)) < run.max
    OBVIOUS
  <2> QED BY OnlyLendsInsert DEF IInv, RowsInv, PastGate, WithinLimit
<1> QED BY <1>1, InvAlways, PTL DEF LimitKept, Spec

\* An active loan leaves the vault only in a purge.
THEOREM ActiveLoansHold == Spec => ActiveLoansStay
<1>1. IInv /\ [Next]_vars =>
        [ \A l \in db.loans :
            l.out => (\E m \in db'.loans : m.id = l.id) \/ Op.op = "purge" ]_vars
  <2> SUFFICES ASSUME IInv, [Next]_vars, NEW l \in db.loans, l.out,
                      l \notin db'.loans, Op.op # "purge"
               PROVE  \E m \in db'.loans : m.id = l.id
    OBVIOUS
  <2>1. db' # db /\ db \in Rows /\ l \in Loans
    BY DEF IInv, RowsInv, RestTyped, Rows
  <2>2. CASE AddBorrower
    BY <2>1, <2>2 DEF AddBorrower, Wrote, Rows
  <2>3. CASE InsertLoan
    BY <2>1, <2>3 DEF InsertLoan, Wrote, Fails, Rows
  <2>4. CASE ReturnLoan
    <3> DEFINE given(m) ==
                 IF m.id = flows[Op.flow].by THEN [m EXCEPT !.out = FALSE] ELSE m
    <3>1. db' = [db EXCEPT !.loans = {given(m) : m \in @}]
      BY <2>1, <2>4 DEF ReturnLoan, Wrote, Fails
    <3>2. given(l) \in db'.loans
      BY <2>1, <3>1 DEF Rows
    <3>3. given(l).id = l.id
      BY <2>1 DEF Loans
    <3> HIDE DEF given
    <3> QED BY <3>2, <3>3
  <2>5. CASE DeleteBorrower
    BY <2>1, <2>5, ReturnedLoansGo DEF HeldBy
  <2>6. CASE PurgeOne
    BY <2>6, HeadWorks DEF PurgeOne
  <2>7. CASE \E f \in Flows : Flow(f)
    BY <2>1, <2>7 DEF Flow, StartLend, LendDecides, LendContinues, StartCall, StartDelete,
                      DeleteRow, Idle
  <2>8. CASE Cancelled \/ CoreFails \/ ReadBook \/ Gate \/ StartPurge \/ Purged
               \/ StartUnlock \/ Reread \/ Lock \/ Edit \/ UNCHANGED vars
    BY <2>1, <2>8 DEF Cancelled, CoreFails, ReadBook, Gate, StartPurge, Purged, StartUnlock,
                      Reread, Lock, Edit, vars, Fails
  <2> QED BY <2>2, <2>3, <2>4, <2>5, <2>6, <2>7, <2>8 DEF Next, Vault
<1> QED BY <1>1, InvAlways, PTL DEF ActiveLoansStay, Spec
=============================================================================
