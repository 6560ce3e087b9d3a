--------------------------- MODULE AvailabilityLane ---------------------------
(***************************************************************************)
(* The availability lane on a GitHub site: the notifier that reads its     *)
(* inputs, the lane that decides what to publish, its remembered sets, the *)
(* publish queue it shares with catalogue publishes and with the guard of  *)
(* a restore, and the site with this phone's record of it.                 *)
(*                                                                         *)
(* The library is one book. A library has an id, which a restore raises:   *)
(* the same book key then names another book. A set is "out" or not, with  *)
(* the library its book was read from; a key does not show that one, so    *)
(* the code compares "out" alone. The minute of a set is left out: a file  *)
(* with the same keys may or may not be the same file. Timers may fire at  *)
(* any time after they are armed.                                          *)
(***************************************************************************)
EXTENDS Naturals, Sequences, FiniteSets

CONSTANTS
    Moves,          \* what the user does
    Faults,         \* what may go wrong
    Overlaps,       \* what may happen in the middle of a restore
    MaxEvents,      \* bound: moves and faults in all, each fault at most once
    NONE

ASSUME LaneAssumption ==
    /\ Moves \subseteq {"lend", "item", "lock", "switch", "publish", "restore",
                        "resume", "now", "host"}
    /\ Faults \subseteq {"net", "lost", "save", "store", "damage", "read", "salt",
                         "other", "crash"}
    /\ Overlaps \subseteq {"publish", "crash"}
    /\ MaxEvents \in Nat
    /\ NONE \notin Nat

VARIABLES
    library,    \* the catalogue and the loans on disk
    shown,      \* the loans of the vault session; NONE while locked
    on,         \* the Settings switch
    host,       \* an active host is connected and no move is pending
    site,       \* books.json and availability.json
    record,     \* the publish record (PublishManifest)
    store,      \* the lane store
    mem,        \* AvailabilityLaneMemory
    input,      \* the notifier: its queue, the read in progress, its items
    lane,       \* the fields of AvailabilityLane
    steps,      \* the lane's step queue, the head running
    step,       \* where the head is, and what it computes from
    run,        \* the publish of the lane in progress
    pubq,       \* the publish queue, the head running
    turn,       \* where the head is, and what it has planned
    outlived,   \* history: a set of old ids outlived the word of a restore
    moves,      \* the moves so far
    faults      \* the faults that have happened, each at most once

phone == <<library, shown, on, host, outlived, moves>>
memory == <<mem, store, faults>>
world == <<site, record>>
notifier == <<input, steps, step>>
queue == <<pubq, turn>>
machine == <<memory, world, steps, step, queue, lane, run>>
vars == <<phone, memory, world, notifier, queue, lane, run>>

Ids == 0 .. MaxEvents + 1        \* 0: another writer's library
Libraries == [id: Ids, lent: BOOLEAN, copies: 1 .. 2]
Counts == [id: Ids, lent: BOOLEAN]
Items == [id: Ids, copies: 1 .. 2]
Sets == [lib: Ids, out: BOOLEAN]
Memories == [pending: Sets \cup {NONE}, published: Sets \cup {NONE}, known: BOOLEAN]

ASSUME NoneIsNothing == NONE \notin Counts \cup Items \cup Sets

CountsOf(l) == [id |-> l.id, lent |-> l.lent]
ItemsOf(l) == [id |-> l.id, copies |-> l.copies]

\* notAvailableItemIds and AvailabilitySnapshot.fromIds
Snapshot(counts, items) ==
    [lib |-> items.id, out |-> counts.lent /\ items.copies = 1]

SameKeys(s, t) == s.out = t.out
SameFile(s, t) == s # NONE /\ SameKeys(s, t)

Nothing == [pending |-> NONE, published |-> NONE, known |-> TRUE]
NoInput == [queue |-> <<"start">>, at |-> "idle", counts |-> NONE, items |-> NONE,
            stale |-> TRUE, dirty |-> FALSE, late |-> NONE]
NoLane == [enabled |-> FALSE, counts |-> NONE, items |-> NONE, timer |-> FALSE,
           running |-> FALSE, rerun |-> FALSE, waiting |-> FALSE, status |-> "off"]
NoStep == [at |-> "idle", now |-> FALSE, counts |-> NONE, items |-> NONE]
NoRun == [at |-> "idle", update |-> NONE, gate |-> FALSE, result |-> "none"]
NoTurn == [at |-> "idle", seen |-> NONE, site |-> NONE, record |-> NONE]

Step(op) == [op |-> op, enabled |-> on, counts |-> NONE, items |-> NONE]
More == moves + Cardinality(faults) < MaxEvents
Fails(fault) == fault \in Faults \ faults /\ More /\ faults' = faults \cup {fault}

-----------------------------------------------------------------------------
(* AvailabilityLaneMemory and its store                                     *)

Kept(m, s) == [m EXCEPT !.pending = s]
RecordedDropsNewer(m, s) == [m EXCEPT !.published = s, !.pending = NONE]
Recorded(m, s) ==
    [m EXCEPT !.published = s, !.pending = IF SameFile(@, s) THEN NONE ELSE @]
Cleared(m) == [m EXCEPT !.pending = NONE, !.published = NONE]
Unpublished(m) == [m EXCEPT !.published = NONE]

RemovalDue(m) == m.pending # NONE \/ m.published # NONE \/ ~m.known

\* The change in memory, and the same change saved, if saving works.
Remember(inMemory, inStore) ==
    \/ /\ mem' = [inMemory EXCEPT !.known = TRUE]
       /\ store' = [inStore EXCEPT !.known = TRUE]
       /\ UNCHANGED faults
    \/ Fails("store") /\ mem' = inMemory /\ UNCHANGED store

-----------------------------------------------------------------------------
(* The notifier                                                             *)

Forward(what) == [input EXCEPT !.queue = Append(@, what)]

\* Loan counts first; the catalogue only when it is stale and counts are known.
ReadInputs ==
    /\ input.queue # <<>> /\ input.at = "idle"
    /\ IF shown # NONE /\ input.stale
       THEN /\ input' = [input EXCEPT !.at = "reading", !.counts = shown, !.stale = FALSE]
            /\ UNCHANGED steps
       ELSE /\ input' = [input EXCEPT !.at = "applying"]
            /\ steps' = Append(steps, [Step(Head(input.queue)) EXCEPT
                                         !.counts = shown, !.items = input.items])
    /\ UNCHANGED <<phone, memory, world, step, queue, lane, run>>

\* The database answers, and the answer is applied. A read that was on its way
\* when a restore switched may still bring the items of before, or fail, and its
\* answer takes the restore's mark away; it arrives after the session has ended.
InputsRead ==
    /\ input.at = "reading" /\ (input.late # NONE => shown = NONE)
    /\ \E items \in {ItemsOf(library), input.late, NONE} :
         /\ IF items = NONE /\ input.late = NONE THEN Fails("read") ELSE UNCHANGED faults
         /\ input' = [input EXCEPT !.at = "applying", !.items = items, !.counts = NONE,
                                   !.stale = items = NONE, !.late = NONE]
         /\ steps' = Append(steps, [Step(Head(input.queue)) EXCEPT
                                      !.counts = input.counts, !.items = items])
    /\ UNCHANGED <<phone, mem, store, world, step, queue, lane, run>>

NotifiedKeepsItems ==
    /\ input.dirty /\ input' = [Forward("update") EXCEPT !.dirty = FALSE]
    /\ UNCHANGED <<phone, machine>>

\* The library controller publishes a change of the catalogue; of a restored one
\* only after the new database was opened and read, when the old one has
\* answered.
LibraryNotified ==
    /\ input.dirty /\ input.late = NONE
    /\ input' = [Forward("update") EXCEPT !.dirty = FALSE, !.stale = TRUE]
    /\ UNCHANGED <<phone, machine>>

-----------------------------------------------------------------------------
(* The lane's steps                                                         *)

Begins(op) == steps # <<>> /\ step.at = "idle" /\ Head(steps).op = op

Finish ==
    /\ steps' = Tail(steps) /\ step' = NoStep
    /\ input' = IF Head(steps).op \in {"start", "update", "replaced"}
                THEN [input EXCEPT !.at = "idle", !.queue = Tail(@)] ELSE input

WithInputs(l) ==
    [l EXCEPT !.enabled = Head(steps).enabled, !.counts = Head(steps).counts,
              !.items = Head(steps).items]

Scheduled(l) ==
    IF l.running THEN [l EXCEPT !.rerun = TRUE]
    ELSE [l EXCEPT !.timer = host, !.status = IF host THEN "busy" ELSE "notReady"]

Settled(l, m) ==
    [l EXCEPT !.status = IF m.published # NONE THEN "upToDate"
                         ELSE IF l.counts = NONE \/ l.items = NONE THEN "notReady"
                         ELSE @]

WorkIfPending(l, m) == m.pending # NONE
Work(l, m) == IF l.enabled THEN m.pending # NONE ELSE RemovalDue(m)

\* The lane's fields after _reevaluate, where it computes no set.
Reevaluated(l, m) ==
    IF Work(l, m) THEN Scheduled(l)
    ELSE IF l.enabled THEN Settled(l, m)
    ELSE [l EXCEPT !.timer = FALSE, !.status = "off"]

\* A set is computed from the counts and items of now, with keys that are made
\* inside the publish queue.
AskKeys(l, now) ==
    /\ lane' = l
    /\ step' = [at |-> "keys", now |-> now, counts |-> l.counts, items |-> l.items]
    /\ pubq' = Append(pubq, "keys")
    /\ UNCHANGED <<steps, input, turn>>

Reevaluate(l, m) ==
    IF l.enabled /\ l.counts # NONE /\ l.items # NONE THEN AskKeys(l, FALSE)
    ELSE lane' = Reevaluated(l, m) /\ Finish /\ UNCHANGED queue

StepStart ==
    /\ Begins("start")
    /\ \/ mem' = store /\ UNCHANGED <<store, faults>>
       \/ /\ Fails("damage")
          /\ store' = [Nothing EXCEPT !.known = FALSE] /\ mem' = store'
    /\ Reevaluate(WithInputs(lane), mem')
    /\ UNCHANGED <<phone, world, run>>

StepUpdate ==
    /\ Begins("update") /\ Reevaluate(WithInputs(lane), mem)
    /\ UNCHANGED <<phone, memory, world, run>>

\* History: the lane is told of a restore while it is off, or cannot write its
\* store, and a set of the old ids outlives the restore.
SetsOutlive(l) ==
    outlived' = \/ outlived
                \/ /\ l.enabled => faults' # faults
                   /\ mem'.pending # NONE \/ store'.pending # NONE

ReplacedKeepsSets ==
    /\ Begins("replaced")
    /\ LET l == WithInputs([lane EXCEPT !.timer = FALSE]) IN
         UNCHANGED memory /\ Reevaluate(l, mem) /\ SetsOutlive(l)
    /\ UNCHANGED <<library, shown, on, host, moves, world, run>>

\* libraryReplaced: the sets of the old ids are forgotten while the lane is on.
StepReplaced ==
    /\ Begins("replaced")
    /\ LET l == WithInputs([lane EXCEPT !.timer = FALSE]) IN
         /\ IF l.enabled THEN Remember(Cleared(mem), Cleared(store))
            ELSE UNCHANGED memory
         /\ Reevaluate(l, mem') /\ SetsOutlive(l)
    /\ UNCHANGED <<library, shown, on, host, moves, world, run>>

StepResumed ==
    /\ Begins("resumed")
    /\ IF lane.waiting THEN Finish /\ UNCHANGED <<lane, queue>>
       ELSE Reevaluate(lane, mem)
    /\ UNCHANGED <<phone, memory, world, run>>

StepSitePublished ==
    /\ Begins("sitePublished") /\ Reevaluate([lane EXCEPT !.waiting = FALSE], mem)
    /\ UNCHANGED <<phone, memory, world, run>>

\* Update availability now
StepNow ==
    /\ Begins("now")
    /\ LET l == [lane EXCEPT !.waiting = FALSE] IN
         IF l.enabled /\ l.counts # NONE /\ l.items # NONE THEN AskKeys(l, TRUE)
         ELSE /\ lane' = IF Work(l, mem) THEN Scheduled(l)
                         ELSE IF l.enabled THEN Settled(l, mem) ELSE l
              /\ Finish /\ UNCHANGED queue
    /\ UNCHANGED <<phone, memory, world, run>>

\* The keys' turn in the publish queue, and the rest of the step behind it. The
\* salt is read from the system: a publish of the lane that ended in the turn
\* before has told the lane by then.
Keys ==
    /\ pubq # <<>> /\ Head(pubq) = "keys" /\ run.at # "done"
    /\ pubq' = Tail(pubq) /\ Finish
    /\ UNCHANGED <<phone, world, run, turn>>

\* No keys, no set: publishNow goes on with the one it has.
NoKeys ==
    /\ Keys /\ Fails("salt")
    /\ LET l == [lane EXCEPT !.status = "notReady"] IN
         lane' = IF ~step.now THEN l
                 ELSE IF mem.pending # NONE THEN Scheduled(l) ELSE Settled(l, mem)
    /\ UNCHANGED <<mem, store>>

Recomputed(s) ==
    IF mem.pending # NONE /\ SameKeys(mem.pending, s) /\ ~step.now
    THEN lane' = Scheduled(lane) /\ UNCHANGED memory
    ELSE IF mem.pending = NONE /\ mem.published # NONE /\ SameKeys(mem.published, s)
              /\ ~step.now
    THEN lane' = [lane EXCEPT !.status = IF host THEN "upToDate" ELSE "notReady"]
         /\ UNCHANGED memory
    ELSE /\ lane' = Scheduled([lane EXCEPT !.waiting = FALSE])
         /\ Remember(Kept(mem, s), Kept(store, s))

KeysMade == Keys /\ Recomputed(Snapshot(step.counts, step.items))

-----------------------------------------------------------------------------
(* One publish of the lane                                                  *)

FollowUp == steps' = Append(steps, Step("followUp"))

\* _run: what to send is decided here, before the turn in the publish queue.
TimerFires ==
    /\ lane.timer
    /\ IF lane.enabled /\ mem.pending = NONE
       THEN /\ lane' = Settled([lane EXCEPT !.timer = FALSE], mem)
            /\ FollowUp /\ UNCHANGED <<run, pubq>>
       ELSE /\ lane' = [lane EXCEPT !.timer = FALSE, !.running = TRUE, !.status = "busy"]
            /\ run' = [NoRun EXCEPT !.at = "sent",
                         !.update = IF lane.enabled THEN mem.pending ELSE NONE]
            /\ pubq' = Append(pubq, "lane") /\ UNCHANGED steps
    /\ UNCHANGED <<phone, memory, world, input, step, turn>>

\* AvailabilityLaneOutcomes
Done(results) == run.at = "done" /\ run.result \in results

OutcomeStillRuns(l) ==
    /\ lane' = l /\ run' = NoRun /\ FollowUp
    /\ UNCHANGED <<phone, world, input, step, queue>>

Outcome(l) ==
    /\ lane' = [l EXCEPT !.running = FALSE] /\ run' = NoRun /\ FollowUp
    /\ UNCHANGED <<phone, world, input, step, queue>>

Written ==
    /\ Done({"sent", "already"}) /\ ~run.gate /\ run.update # NONE
    /\ Remember(Recorded(mem, run.update), Recorded(store, run.update))
    /\ Outcome([lane EXCEPT !.status = "upToDate"])

Removed ==
    /\ Done({"sent", "already"}) /\ ~run.gate /\ run.update = NONE
    /\ IF lane.enabled THEN Remember(Unpublished(mem), Unpublished(store))
       ELSE Remember(Cleared(mem), Cleared(store))
    /\ Outcome([lane EXCEPT !.status = IF lane.enabled THEN @ ELSE "off"])

\* Gate 7b refused the write and its stale file is gone.
StaleRemoved ==
    /\ Done({"sent", "already"}) /\ run.gate
    /\ Remember(Unpublished(mem), Unpublished(store))
    /\ Outcome([lane EXCEPT !.waiting = TRUE, !.status = "notReady"])

Refused ==
    /\ Done({"notReady", "blocked"})
    /\ Outcome([lane EXCEPT !.waiting = @ \/ run.result = "notReady", !.status = "notReady"])
    /\ UNCHANGED memory

Postponed ==
    /\ Done({"pending"})
    /\ Outcome([lane EXCEPT !.waiting = @ /\ ~run.gate, !.status = "busy"])
    /\ UNCHANGED memory

FollowUpRepeats ==
    /\ Begins("followUp")
    /\ LET l == [lane EXCEPT !.rerun = FALSE] IN
         lane' = IF Work(l, mem) THEN Scheduled(l) ELSE l
    /\ Finish /\ UNCHANGED <<phone, memory, world, queue, run>>

StepFollowUp ==
    /\ Begins("followUp")
    /\ LET l == [lane EXCEPT !.rerun = FALSE] IN
         lane' = IF Work(l, mem) /\ (lane.rerun \/ lane.status # "notReady") THEN Scheduled(l) ELSE l
    /\ Finish /\ UNCHANGED <<phone, memory, world, queue, run>>

-----------------------------------------------------------------------------
(* The publish queue and the site                                           *)

Turn(op, at) == pubq # <<>> /\ Head(pubq) = op /\ turn.at = at

\* The end of a turn, and what it answers to the lane or to the publish page.
Answers(result) ==
    /\ pubq' = Tail(pubq) /\ turn' = NoTurn
    /\ IF Head(pubq) = "lane"
       THEN run' = [run EXCEPT !.at = "done", !.result = result] /\ UNCHANGED steps
       ELSE /\ steps' = IF result = "sent" THEN Append(steps, Step("sitePublished"))
                        ELSE steps
            /\ UNCHANGED run

\* PublishManifest.reconciledFrom: claimed paths that are still there.
Reconciled ==
    [books |-> site.books,
     file |-> IF record.file = NONE THEN NONE ELSE site.file,
     keyed |-> record.keyed /\ record.books = site.books]

Plan(newSite, newRecord) ==
    /\ turn' = [at |-> "planned", seen |-> site, site |-> newSite, record |-> newRecord]
    /\ UNCHANGED pubq

PlanFile(file) ==
    Plan([site EXCEPT !.file = file], [Reconciled EXCEPT !.file = file])

\* The runner and PublishAvailabilityUseCase up to the commit.
LaneBegins ==
    /\ Turn("lane", "idle")
    /\ IF ~host THEN Answers("blocked")
       ELSE IF run.update = NONE
       THEN IF Reconciled.file = NONE THEN Answers("already")
            ELSE PlanFile(NONE) /\ UNCHANGED <<run, steps>>
       ELSE IF ~Reconciled.keyed
       THEN IF Reconciled.file = NONE THEN Answers("notReady")
            ELSE PlanFile(NONE) /\ run' = [run EXCEPT !.gate = TRUE] /\ UNCHANGED steps
       ELSE \/ SameFile(Reconciled.file, run.update) /\ Answers("already")
            \/ PlanFile(run.update) /\ UNCHANGED <<run, steps>>
    /\ UNCHANGED <<phone, memory, world, input, step, lane>>

\* PublishSnapshotBuilder._availabilitySection
FileOfCatalogue ==
    IF on /\ shown # NONE THEN "fresh"
    ELSE IF Reconciled.file # NONE /\ ~(on /\ Reconciled.keyed) THEN "removed"
    ELSE "kept"

\* PublishLibraryUseCase up to the commit.
CatalogueBegins ==
    /\ Turn("catalogue", "idle")
    /\ IF ~host THEN Answers("failed") /\ UNCHANGED run
       ELSE LET books == [id |-> library.id, n |-> site.books.n + 1]
                fresh == Snapshot(shown, ItemsOf(library))
                file(old) == CASE FileOfCatalogue = "fresh" -> fresh
                               [] FileOfCatalogue = "removed" -> NONE
                               [] OTHER -> old
            IN /\ Plan([books |-> books, file |-> file(site.file)],
                       [books |-> books, file |-> file(Reconciled.file), keyed |-> TRUE])
               /\ UNCHANGED <<run, steps>>
    /\ UNCHANGED <<phone, memory, world, input, step, lane>>

\* The commit moves the branch only from the head that was read.
Lands ==
    /\ turn.at = "planned" /\ site = turn.seen
    /\ site' = turn.site /\ turn' = [turn EXCEPT !.at = "landed"]
    /\ UNCHANGED <<phone, memory, record, notifier, pubq, lane, run>>

NotSent ==
    /\ turn.at \in {"idle", "planned"} /\ pubq # <<>>
    /\ Head(pubq) \in {"lane", "catalogue"}
    /\ \/ Fails("net")
       \/ turn.at = "planned" /\ site # turn.seen /\ UNCHANGED faults
    /\ Answers("pending")
    /\ UNCHANGED <<phone, mem, store, world, input, step, lane>>

Accepted ==
    /\ turn.at = "landed" /\ Answers("sent")
    /\ \/ record' = turn.record /\ UNCHANGED faults
       \/ Fails("save") /\ UNCHANGED record
    /\ UNCHANGED <<phone, mem, store, site, input, step, lane>>

AnswerLost ==
    /\ turn.at = "landed" /\ Fails("lost") /\ Answers("pending")
    /\ UNCHANGED <<phone, mem, store, world, input, step, lane>>

\* CatalogueKeysReset.beforeIdsChange: the reset, ...
ResetKeys ==
    /\ Turn("restore", "idle")
    /\ record' = [record EXCEPT !.keyed = FALSE]
    /\ \/ /\ store' = [Cleared(store) EXCEPT !.known = TRUE]
          /\ turn' = [NoTurn EXCEPT !.at = "reset"] /\ UNCHANGED <<pubq, faults>>
       \/ Fails("store") /\ pubq' = Tail(pubq) /\ UNCHANGED <<store, turn>>
    /\ UNCHANGED <<phone, mem, site, notifier, lane, run>>

\* ... then the switch of the generation, and the word to the lane. A session
\* that is open keeps showing the old loans until it has ended.
SwitchLibrary ==
    /\ Turn("restore", "reset")
    /\ \E lent \in BOOLEAN :
         library' = [id |-> library.id + 1, lent |-> lent, copies |-> 1]
    /\ input' = [Forward("replaced") EXCEPT !.stale = TRUE, !.dirty = TRUE,
                    !.late = IF input.at = "reading" /\ @ = NONE THEN ItemsOf(library) ELSE @]
    /\ pubq' = Tail(pubq) /\ turn' = NoTurn
    /\ UNCHANGED <<shown, on, host, outlived, moves, memory, world, steps, step, lane, run>>

SessionEnds ==
    /\ shown # NONE /\ shown.id # library.id
    /\ shown' = NONE /\ input' = Forward("update")
    /\ UNCHANGED <<library, on, host, outlived, moves, machine>>

-----------------------------------------------------------------------------
(* Environment                                                              *)

InQueue(what, q) == \E i \in 1 .. Len(q) : q[i] = what

\* A restore has its turn to come, or the lane has not applied its notice yet.
Restoring ==
    \/ InQueue("restore", pubq) \/ InQueue("replaced", input.queue)

Move(kind) == kind \in Moves /\ More /\ moves' = moves + 1

\* Lending, unlocking and restoring are vault calls, one after another.
VaultFree == ~InQueue("restore", pubq) /\ (shown # NONE => shown.id = library.id)

Lend ==
    /\ Move("lend") /\ VaultFree /\ shown # NONE
    /\ library' = [library EXCEPT !.lent = ~@] /\ shown' = CountsOf(library')
    /\ input' = Forward("update")
    /\ UNCHANGED <<on, host, outlived, machine>>

\* Deriving the key takes long: the list of a restored library has been read
\* again by then, and items that are still those of before are marked.
OldItems ==
    \/ input.late # NONE
    \/ input.items # NONE /\ input.items.id # library.id /\ ~input.stale

Unlock ==
    /\ Move("lock") /\ VaultFree /\ shown = NONE /\ ~OldItems
    /\ shown' = CountsOf(library) /\ input' = Forward("update")
    /\ UNCHANGED <<library, on, host, outlived, machine>>

Lock ==
    /\ Move("lock") /\ shown # NONE
    /\ shown' = NONE /\ input' = Forward("update")
    /\ UNCHANGED <<library, on, host, outlived, machine>>

EditItem ==
    /\ Move("item")
    /\ library' = [library EXCEPT !.copies = 3 - @]
    /\ input' = [input EXCEPT !.dirty = TRUE]
    /\ UNCHANGED <<shown, on, host, outlived, machine>>

Switch ==
    /\ Move("switch") /\ on' = ~on /\ input' = Forward("update")
    /\ UNCHANGED <<library, shown, host, outlived, machine>>

ChangeHost ==
    /\ Move("host") /\ host' = ~host
    /\ UNCHANGED <<library, shown, on, outlived, memory, world, notifier, queue, lane, run>>

Press ==
    /\ \/ Move("resume") /\ steps' = Append(steps, Step("resumed"))
       \/ Move("now") /\ steps' = Append(steps, Step("now"))
    /\ UNCHANGED <<library, shown, on, host, outlived, memory, world, input, step, queue, lane, run>>

Publish ==
    /\ Move("publish") /\ ~InQueue("catalogue", pubq)
    /\ "publish" \in Overlaps \/ ~Restoring
    /\ pubq' = Append(pubq, "catalogue")
    /\ UNCHANGED <<library, shown, on, host, outlived, memory, world, notifier, turn, lane, run>>

Restore ==
    /\ Move("restore") /\ VaultFree
    /\ pubq' = Append(pubq, "restore")
    /\ UNCHANGED <<library, shown, on, host, outlived, memory, world, notifier, turn, lane, run>>

OtherWriter ==
    /\ Fails("other") /\ site' = [site EXCEPT !.books = [id |-> 0, n |-> @.n + 1]]
    /\ UNCHANGED <<phone, mem, store, record, notifier, queue, lane, run>>

\* The process dies and starts again.
Crash ==
    /\ Fails("crash") /\ ("crash" \in Overlaps \/ ~Restoring)
    /\ shown' = NONE /\ mem' = Nothing /\ input' = NoInput /\ lane' = NoLane
    /\ steps' = <<>> /\ step' = NoStep /\ run' = NoRun
    /\ pubq' = <<>> /\ turn' = NoTurn
    /\ UNCHANGED <<library, on, host, outlived, moves, store, world>>

-----------------------------------------------------------------------------
Notifier == ReadInputs \/ InputsRead \/ LibraryNotified
Lane == StepStart \/ StepUpdate \/ StepReplaced \/ StepResumed \/ StepSitePublished
          \/ StepNow \/ StepFollowUp \/ KeysMade \/ NoKeys
Outcomes == Written \/ Removed \/ StaleRemoved \/ Refused \/ Postponed
Queue == LaneBegins \/ CatalogueBegins \/ Lands \/ NotSent \/ Accepted \/ AnswerLost
           \/ ResetKeys \/ SwitchLibrary
User == Lend \/ Unlock \/ Lock \/ EditItem \/ Switch \/ ChangeHost \/ Press
          \/ Publish \/ Restore

Next == Notifier \/ Lane \/ TimerFires \/ Outcomes \/ Queue \/ SessionEnds
          \/ User \/ OtherWriter \/ Crash

\* The app starts over a site that this phone published, with the set of its
\* loans or before any set.
Init ==
    /\ library = [id |-> 1, lent |-> FALSE, copies |-> 1]
    /\ shown = NONE /\ on \in BOOLEAN /\ host = TRUE
    /\ outlived = FALSE /\ moves = 0 /\ faults = {}
    /\ \E file \in {NONE} \cup IF on THEN {Snapshot(CountsOf(library), ItemsOf(library))}
                               ELSE {} :
         /\ site = [books |-> [id |-> 1, n |-> 0], file |-> file]
         /\ record = [books |-> site.books, file |-> file, keyed |-> TRUE]
         /\ store = [Nothing EXCEPT !.published = file]
    /\ mem = Nothing /\ input = NoInput /\ lane = NoLane
    /\ steps = <<>> /\ step = NoStep /\ run = NoRun
    /\ pubq = <<>> /\ turn = NoTurn

Spec == Init /\ [][Next]_vars
FairSpec == Spec /\ WF_vars(Notifier) /\ WF_vars(Lane) /\ WF_vars(TimerFires)
              /\ WF_vars(Outcomes) /\ WF_vars(Queue) /\ WF_vars(SessionEnds)

-----------------------------------------------------------------------------
(* Properties                                                               *)

Quiet ==
    /\ input.queue = <<>> /\ ~input.dirty /\ steps = <<>> /\ pubq = <<>>
    /\ ~lane.timer /\ run.at = "idle"
    /\ shown # NONE => shown.id = library.id

\* Types, and what the queues say of the step and the publish in progress.
TypeOK ==
    /\ library \in Libraries /\ shown \in Counts \cup {NONE}
    /\ on \in BOOLEAN /\ host \in BOOLEAN /\ outlived \in BOOLEAN
    /\ mem \in Memories /\ store \in Memories
    /\ \A f \in {site.file, record.file, run.update} : f \in Sets \cup {NONE}
    /\ lane \in [enabled: BOOLEAN, counts: Counts \cup {NONE}, items: Items \cup {NONE},
                 timer: BOOLEAN, running: BOOLEAN, rerun: BOOLEAN, waiting: BOOLEAN,
                 status: {"off", "notReady", "busy", "upToDate"}]
    /\ InQueue("keys", pubq) <=> step.at = "keys"
    /\ InQueue("lane", pubq) <=> run.at = "sent"
    /\ run.at # "idle" <=> lane.running
    /\ input.at = "applying" <=> \E i \in 1 .. Len(steps) :
                                   steps[i].op \in {"start", "update", "replaced"}

\* availability_lane.dart libraryReplaced and gate 7b: the availability.json of
\* this phone's record names the books of books.json, so no set outlives the
\* ids that its keys were made from; unless the lane was told of a restore
\* while it was off or could not write its store, and kept a set of the old ids.
TagsOfThisLibrary ==
    Reconciled.file # NONE /\ site.books.id # 0 /\ ~outlived =>
        site.file.lib = site.books.id

\* AvailabilityLaneUpToDate: "The site shows the set changed at [asOf]".
UpToDateIsShown == Quiet /\ on /\ lane.status = "upToDate" => site.file # NONE

\* AvailabilityLane: when nothing is left to do, with the lane on, an open vault
\* and a catalogue that was read, the set that the lane remembers as published
\* shows the loans of now, unless the lane says that it waits for something.
\* Keys that could not be made leave no such word behind a running publish.
QuietIsNewest ==
    Quiet /\ on /\ shown # NONE /\ ~input.stale /\ mem.published # NONE
      /\ lane.status # "notReady" /\ "salt" \notin faults =>
        SameKeys(mem.published, Snapshot(shown, ItemsOf(library)))

\* AvailabilityLaneMemory.removalDue: when nothing is left to do and the lane is
\* off, a file still on the site is not one the lane remembers, unless the lane
\* says what it waits for; and as long as nothing failed, the record shows the
\* file and the next catalogue publish removes it.
QuietIsOff ==
    Quiet /\ ~on /\ site.file # NONE =>
        /\ RemovalDue(mem) => lane.status = "notReady"
        /\ faults = {} => FileOfCatalogue = "removed"

\* AvailabilityAutoPublisher: once every notification is applied, the lane works
\* with the loans shown now and with the catalogue of now, if it was read.
InputsAreNewest ==
    input.queue = <<>> /\ ~input.dirty /\ shown # NONE =>
        lane.counts = shown /\ lane.items \in {ItemsOf(library), NONE}

\* When the user and the faults stop, the lane and the publish queue come to
\* rest: no retry, rerun or follow-up goes on for ever.
Settles == <>[]Quiet
=============================================================================
