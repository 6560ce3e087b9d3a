----------------------------- MODULE AtomicVault -----------------------------
(***************************************************************************)
(* What the Rust vault core promises its callers. A call takes effect in   *)
(* one step, or it changes nothing and its answer says why; a call that    *)
(* dies with the process did one of the two. A refusal that speaks of the  *)
(* rows (NotFound, Constraint) is true of them. A vault that somebody      *)
(* holds a blob of never goes away.                                        *)
(***************************************************************************)
EXTENDS VaultRows

CONSTANTS Calls     \* the calls that may be in flight

VARIABLES
    there,      \* there is a vault
    rows,       \* its rows
    owned,      \* a caller holds a blob that opens it
    call        \* what each call asks for and how it is answered

vars == <<there, rows, owned, call>>

Idle == [at |-> "idle", ask |-> NONE, reply |-> NONE]
Running(ask) == [at |-> "running", ask |-> ask, reply |-> NONE]
Made(ask) == [at |-> "made", ask |-> ask, reply |-> NONE]
Answered(reply) == [at |-> "answered", ask |-> NONE, reply |-> reply]

Init == /\ ~ there
        /\ rows = EmptyRows
        /\ owned = FALSE
        /\ call = [c \in Calls |-> Idle]

\* delete_borrower in one step: refused while a loan is out, else with all history.
DeleteBorrower(id) ==
    IF rows.borrowers[id] = NONE THEN Failed("NotFound", rows)
    ELSE IF ActiveOf(rows, id) # {} THEN Failed("Constraint", rows)
    ELSE WithoutBorrower(WithoutLoansOf(rows, id), id)

Effect(ask) == IF ask.op = "delete_borrower" THEN DeleteBorrower(ask.id)
               ELSE Execute(rows, ask)

-----------------------------------------------------------------------------
(* The steps of one call, from a state of it to the next.                  *)

Begin(now, next) == /\ now.at = "idle"
                    /\ next = Running(next.ask)
                    /\ next.ask.op \in Ops
                    /\ UNCHANGED <<there, rows, owned>>

\* The step in which a write happens, or is refused for what the rows are.
Write(now, next) ==
    /\ now.at = "running"
    /\ there
    /\ now.ask.op \in Writes
    /\ rows' = Effect(now.ask).rows
    /\ next = Answered(Mapped(now.ask.op, Effect(now.ask).error))
    /\ UNCHANGED <<there, owned>>

\* A read, a blob under another secret, or a refusal for another reason.
Answer(now, next) == /\ now.at \in {"idle", "running"}
                     /\ next = Answered(next.reply)
                     /\ next.reply \in Excuses \cup {"rows", "blob"}
                     /\ UNCHANGED <<there, rows, owned>>

\* A create makes the vault, and only then the blob, which may fail.
Make(now, next) == /\ now.at = "running"
                   /\ now.ask.op = "create_vault"
                   /\ ~ there
                   /\ there'
                   /\ next = Made(now.ask)
                   /\ UNCHANGED <<rows, owned>>

Hand(now, next) == /\ now.at = "made"
                   /\ next \in {Answered("vault"), Answered("Wrap")}
                   /\ UNCHANGED <<there, rows, owned>>

\* The answer arrives; the caller keeps what it was given, or fails to.
Return(now, next) == /\ now.at = "answered"
                     /\ next = Idle
                     /\ owned' \in {owned, owned \/ now.reply = "vault"}
                     /\ UNCHANGED <<there, rows>>

Step(now, next) == \/ Begin(now, next) \/ Write(now, next) \/ Answer(now, next)
                   \/ Make(now, next) \/ Hand(now, next) \/ Return(now, next)

-----------------------------------------------------------------------------
\* The process dies.
Crash == /\ call' = [c \in Calls |-> Idle]
         /\ UNCHANGED <<there, rows, owned>>

\* Nobody can open the vault, and the app throws it away.
Forget == /\ ~ owned
          /\ \A c \in Calls : call[c].at = "idle"
          /\ there' = FALSE
          /\ rows' = EmptyRows
          /\ UNCHANGED <<owned, call>>

\* Calls take their steps one at a time.
Next == \/ \E c \in Calls : /\ \A d \in Calls \ {c} : call'[d] = call[d]
                            /\ DOMAIN call' = Calls
                            /\ Step(call[c], call'[c])
        \/ Crash
        \/ Forget

Spec == Init /\ [][Next]_vars
=============================================================================
