--------------------------- MODULE DataGenerations ---------------------------
(***************************************************************************)
(* The versioned data generations under <docs>/data: adoption of the flat  *)
(* layout, startup recovery, the builder of a restore, and the switch of   *)
(* the CURRENT pointer.                                                    *)
(*                                                                         *)
(* A step is one file operation; the process may die between any two. A    *)
(* file's content is the data set it was written for.                      *)
(***************************************************************************)
EXTENDS Naturals

CONSTANTS
    Leaves,         \* the files of a data set, with their SQLite companions
    Unflushed,      \* those a restore copies into its builder without a flush
    Faults,         \* "crash", "power", "io", "unreadable"
    MaxRestores,    \* bound: restores begun
    MaxGenerations, \* bound: generation numbers
    NONE, TORN

Numbers == 1 .. MaxGenerations
Contents == (0 .. MaxRestores) \cup {NONE, TORN}
DataSets == [Leaves -> Contents]
\* files: what was written; gone: what a delete has removed of it so far.
Dirs == [files: DataSets, complete: BOOLEAN, soft: SUBSET Leaves, gone: SUBSET Leaves]

ASSUME GenerationsAssumption ==
    /\ Unflushed \subseteq Leaves
    /\ MaxRestores \in Nat /\ MaxGenerations \in Nat \ {0}
    /\ NONE \notin Nat /\ TORN \notin Nat /\ NONE # TORN
    /\ NONE \notin DataSets /\ NONE \notin Dirs

VARIABLES
    flat,       \* the files still in the docs dir itself
    gens,       \* the directories gen-*, by number
    current,    \* what CURRENT names
    tmp,        \* CURRENT.tmp
    pc,         \* where DataGenerations or the restore is
    target,     \* the generation open or activate is making live
    doomed,     \* the directories _deleteAllExcept has not come to yet
    active,     \* the generation ActiveDataGeneration publishes
    builder,    \* the directory a restore is building
    plan,       \* the data set that restore was asked for
    restores,   \* restores begun
    refused     \* history: deletes the system refused since the last start

vars == <<flat, gens, current, tmp, pc, target, doomed, active, builder, plan,
          restores, refused>>
files == <<flat, gens, current, tmp>>
memory == <<target, doomed, active, builder, plan>>

NoPlan == [l \in Leaves |-> NONE]

EmptyDir == [files |-> NoPlan, complete |-> FALSE,
             soft |-> {}, gone |-> {}]

May(fault) == fault \in Faults
Exists(n) == gens[n] # NONE
IsComplete(n) == Exists(n) /\ gens[n].complete
Visible(dir) == [l \in Leaves |-> IF l \in dir.gone THEN NONE ELSE dir.files[l]]

\* _firstFreeNumber: leftovers are skipped, never reused.
FirstFree(n, atLeast) ==
    /\ n >= atLeast /\ ~Exists(n)
    /\ \A m \in Numbers : m >= atLeast /\ m < n => Exists(m)

NewestComplete(n) ==
    /\ IsComplete(n)
    /\ \A m \in Numbers : m > n => ~IsComplete(m)

NoneComplete == \A n \in Numbers : ~IsComplete(n)

\* _readPointerRaw: null when the file is absent or cannot be read.
PointerReads == IF May("unreadable") THEN {current, NONE} ELSE {current}

OthersOlder(n) == {m \in Numbers : Exists(m) /\ m < n}
\* _deleteAllExcept: everything but the generation kept.
Others(n) == {m \in Numbers : Exists(m) /\ m # n}

-----------------------------------------------------------------------------
(* open: adoption of the flat layout, then the choice of the generation.    *)

Start ==
    /\ pc = "down"
    /\ pc' = IF current = NONE THEN "adopt" ELSE "choose"
    /\ refused' = {}
    /\ UNCHANGED <<files, memory, restores>>

AnythingToAdopt == Exists(1) \/ \E l \in Leaves : flat[l] # NONE

Adopt ==
    /\ pc = "adopt"
    /\ IF AnythingToAdopt
       THEN /\ pc' = "move"
            /\ gens' = IF Exists(1) THEN gens ELSE [gens EXCEPT ![1] = EmptyDir]
       ELSE pc' = "choose" /\ UNCHANGED gens
    /\ UNCHANGED <<flat, current, tmp, memory, restores, refused>>

\* Never over a file the generation already has.
ToMove(l) == flat[l] # NONE /\ gens[1].files[l] = NONE

Move ==
    /\ pc = "move"
    /\ \E l \in Leaves :
         /\ ToMove(l)
         /\ gens' = [gens EXCEPT ![1].files[l] = flat[l]]
         /\ flat' = [flat EXCEPT ![l] = NONE]
    /\ UNCHANGED <<current, tmp, pc, memory, restores, refused>>

Adopted ==
    /\ pc = "move"
    /\ \A l \in Leaves : ~ToMove(l)
    /\ gens' = [gens EXCEPT ![1].complete = TRUE]
    /\ pc' = "choose"
    /\ UNCHANGED <<flat, current, tmp, memory, restores, refused>>

\* The pointer if it names a complete generation, else the newest complete one.
Choose ==
    /\ pc = "choose"
    /\ \E raw \in PointerReads, n \in Numbers :
         /\ IF raw # NONE /\ IsComplete(raw) THEN n = raw ELSE NewestComplete(n)
         /\ target' = n
    /\ pc' = "point"
    /\ UNCHANGED <<files, doomed, active, builder, plan, restores, refused>>

ChooseFresh ==
    /\ pc = "choose" /\ NoneComplete
    /\ \E n \in Numbers :
         /\ FirstFree(n, 1)
         /\ gens' = [gens EXCEPT ![n] = EmptyDir]
         /\ target' = n
    /\ pc' = "finish"
    /\ UNCHANGED <<flat, current, tmp, doomed, active, builder, plan, restores,
                   refused>>

CompleteFresh ==
    /\ pc = "finish"
    /\ gens' = [gens EXCEPT ![target].complete = TRUE]
    /\ pc' = "point"
    /\ UNCHANGED <<flat, current, tmp, memory, restores, refused>>

\* A rename of the adoption fails: open throws, and the app cannot run.
AdoptFails ==
    /\ pc = "move" /\ May("io")
    /\ pc' = "failed"
    /\ UNCHANGED <<files, memory, restores, refused>>

Restart ==
    /\ pc = "failed"
    /\ pc' = "down"
    /\ UNCHANGED <<files, memory, restores, refused>>

-----------------------------------------------------------------------------
(* _writePointer and _deleteAllExcept, for open and for activate.           *)

WriteTmp ==
    /\ pc = "point"
    /\ \E raw \in PointerReads : raw # target
    /\ tmp' = target /\ pc' = "rename"
    /\ UNCHANGED <<flat, gens, current, memory, restores, refused>>

AlreadyPointed ==
    /\ pc = "point" /\ builder = NONE /\ current = target
    /\ doomed' = Others(target) /\ pc' = "sweep"
    /\ UNCHANGED <<files, target, active, builder, plan, restores, refused>>

Rename ==
    /\ pc = "rename"
    /\ current' = tmp /\ tmp' = NONE
    /\ doomed' = Others(target) /\ pc' = "sweep"
    /\ UNCHANGED <<flat, gens, target, active, builder, plan, restores, refused>>

\* The temporary file is removed; a restore then discards what it built.
PointerFails ==
    /\ May("io")
    /\ pc = "rename" \/ (pc = "point" /\ (builder # NONE \/ current # target))
    /\ tmp' \in {tmp, NONE}
    /\ pc' = IF builder = NONE THEN "failed" ELSE "discard"
    /\ UNCHANGED <<flat, gens, current, memory, restores, refused>>

\* One step of a recursive delete: the marker is a file like the others, and
\* the directory goes when nothing is left in it.
DeleteStep(n) ==
    \/ \E l \in Leaves :
         /\ Visible(gens[n])[l] # NONE
         /\ gens' = [gens EXCEPT ![n].gone = @ \cup {l}]
    \/ gens[n].complete /\ gens' = [gens EXCEPT ![n].complete = FALSE]

Empty(n) == Visible(gens[n]) = NoPlan /\ ~gens[n].complete

SweepStep ==
    /\ pc = "sweep"
    /\ \E n \in doomed : DeleteStep(n)
    /\ UNCHANGED <<flat, current, tmp, pc, memory, restores, refused>>

SweptOrThrows ==
    /\ pc = "sweep"
    /\ \E n \in doomed :
         \/ /\ Empty(n) /\ doomed' = doomed \ {n}
            /\ gens' = [gens EXCEPT ![n] = NONE]
            /\ UNCHANGED <<pc, builder, refused>>
         \/ /\ May("io") /\ refused' = refused \cup doomed /\ doomed' = {}
            /\ pc' = (IF builder = NONE THEN "failed" ELSE "ready")
            /\ builder' = NONE
            /\ UNCHANGED gens
    /\ UNCHANGED <<flat, current, tmp, target, active, plan, restores>>

\* A directory is gone, or the system refuses and it is left for the next open.
Swept ==
    /\ pc = "sweep"
    /\ \E n \in doomed :
         /\ doomed' = doomed \ {n}
         /\ \/ Empty(n) /\ gens' = [gens EXCEPT ![n] = NONE] /\ UNCHANGED refused
            \/ May("io") /\ refused' = refused \cup {n} /\ UNCHANGED gens
    /\ UNCHANGED <<flat, current, tmp, pc, target, active, builder, plan, restores>>

PublishKeepsBuilder ==
    /\ pc = "sweep" /\ doomed = {}
    /\ active' = target /\ pc' = "ready"
    /\ target' = NONE /\ plan' = NoPlan
    /\ UNCHANGED <<files, doomed, builder, restores, refused>>

\* open and activate return; the generation is published.
Publish ==
    /\ pc = "sweep" /\ doomed = {}
    /\ active' = target /\ pc' = "ready"
    /\ target' = NONE /\ builder' = NONE /\ plan' = NoPlan
    /\ UNCHANGED <<files, doomed, restores, refused>>

-----------------------------------------------------------------------------
(* A restore: beginNext, the builder's files, complete, activate or discard. *)

\* Each file comes from the archive or is carried over from the active set.
Plans == {p \in DataSets : \A l \in Leaves :
            p[l] \in {restores + 1, Visible(gens[active])[l]}}

BeginNext ==
    /\ pc = "ready" /\ restores < MaxRestores
    /\ \E n \in Numbers :
         /\ FirstFree(n, active + 1)
         /\ gens' = [gens EXCEPT ![n] = EmptyDir]
         /\ builder' = n
    /\ plan' \in Plans
    /\ restores' = restores + 1
    /\ pc' = "fill"
    /\ UNCHANGED <<flat, current, tmp, target, doomed, active, refused>>

\* Only a loss of power tells an unflushed file from a flushed one.
Dirtied(soft, l) == IF May("power") /\ l \in Unflushed THEN soft \cup {l} ELSE soft

Fill ==
    /\ pc = "fill"
    /\ \E l \in Leaves :
         /\ gens[builder].files[l] # plan[l]
         /\ gens' = [gens EXCEPT ![builder].files[l] = plan[l],
                                 ![builder].soft = Dirtied(@, l)]
    /\ UNCHANGED <<flat, current, tmp, pc, memory, restores, refused>>

CompleteEarly ==
    /\ pc = "fill"
    /\ gens' = [gens EXCEPT ![builder].complete = TRUE]
    /\ pc' = "built"
    /\ UNCHANGED <<flat, current, tmp, memory, restores, refused>>

Complete ==
    /\ pc = "fill" /\ gens[builder].files = plan
    /\ gens' = [gens EXCEPT ![builder].complete = TRUE]
    /\ pc' = "built"
    /\ UNCHANGED <<flat, current, tmp, memory, restores, refused>>

\* Refused, cancelled or failed before the switch.
Abandon ==
    /\ pc \in {"fill", "built"}
    /\ pc' = "discard"
    /\ UNCHANGED <<files, memory, restores, refused>>

Activate ==
    /\ pc = "built" /\ IsComplete(builder)
    /\ target' = builder /\ pc' = "point"
    /\ UNCHANGED <<files, doomed, active, builder, plan, restores, refused>>

DiscardStep ==
    /\ pc = "discard" /\ current # builder
    /\ DeleteStep(builder)
    /\ UNCHANGED <<flat, current, tmp, pc, memory, restores, refused>>

Discarded ==
    /\ pc = "discard" /\ current # builder
    /\ \/ Empty(builder) /\ gens' = [gens EXCEPT ![builder] = NONE] /\ UNCHANGED refused
       \/ May("io") /\ refused' = refused \cup {builder} /\ UNCHANGED gens
    /\ pc' = "ready"
    /\ target' = NONE /\ builder' = NONE /\ plan' = NoPlan
    /\ UNCHANGED <<flat, current, tmp, doomed, active, restores>>

-----------------------------------------------------------------------------

Dies ==
    /\ pc # "down"
    /\ pc' = "down"
    /\ target' = NONE /\ doomed' = {} /\ active' = NONE
    /\ builder' = NONE /\ plan' = NoPlan
    /\ UNCHANGED <<restores, refused>>

Crash == May("crash") /\ Dies /\ UNCHANGED files

\* The power is lost: what was never flushed may be torn.
PowerLoss ==
    /\ May("power") /\ Dies
    /\ \E lost \in SUBSET Unflushed :
         gens' = [n \in Numbers |->
           IF ~Exists(n) THEN NONE
           ELSE [gens[n] EXCEPT !.soft = {},
                   !.files = [l \in Leaves |->
                     IF l \in lost \cap gens[n].soft THEN TORN ELSE @[l]]]]
    /\ UNCHANGED <<flat, current, tmp>>

Opening == Start \/ Adopt \/ Move \/ Adopted \/ Choose \/ ChooseFresh
             \/ CompleteFresh \/ AdoptFails \/ Restart
Pointing == WriteTmp \/ AlreadyPointed \/ Rename \/ PointerFails
              \/ SweepStep \/ Swept \/ Publish
Restoring == BeginNext \/ Fill \/ Complete \/ Abandon \/ Activate
               \/ DiscardStep \/ Discarded

Next == Opening \/ Pointing \/ Restoring \/ Crash \/ PowerLoss

\* A phone of before M02, or a new one: every file is flat.
Init ==
    /\ flat \in [Leaves -> {0, NONE}]
    /\ gens = [n \in Numbers |-> NONE]
    /\ current = NONE /\ tmp = NONE
    /\ pc = "down" /\ target = NONE /\ doomed = {}
    /\ active = NONE /\ builder = NONE
    /\ plan = NoPlan
    /\ restores = 0 /\ refused = {}

Spec == Init /\ [][Next]_vars
FairSpec == Spec /\ WF_vars(Opening \/ Pointing)

-----------------------------------------------------------------------------
(* Properties                                                               *)

Labels == {"down", "adopt", "move", "choose", "finish", "point", "rename",
           "sweep", "failed", "ready", "fill", "built", "discard"}

Restores == {"fill", "built", "discard", "point", "rename", "sweep"}

\* Every variable keeps its type; a builder is remembered only while a restore
\* runs, and forgotten once it is live.
TypeOK ==
    /\ flat \in DataSets
    /\ gens \in [Numbers -> Dirs \cup {NONE}]
    /\ current \in Numbers \cup {NONE} /\ tmp \in Numbers \cup {NONE}
    /\ pc \in Labels
    /\ target \in Numbers \cup {NONE} /\ doomed \subseteq Numbers
    /\ active \in Numbers \cup {NONE}
    /\ builder \in IF pc \in Restores THEN Numbers \cup {NONE} ELSE {NONE}
    /\ plan \in DataSets /\ restores \in 0 .. MaxRestores
    /\ refused \subseteq Numbers

\* The data set the phone shows: what CURRENT names, and before there is a
\* CURRENT the flat files with those already moved.
Shown ==
    IF current # NONE THEN Visible(gens[current])
    ELSE [l \in Leaves |->
            IF Exists(1) /\ gens[1].files[l] # NONE THEN gens[1].files[l] ELSE flat[l]]

Offered == IF builder # NONE /\ builder # current THEN plan ELSE NONE

Promise == INSTANCE AtomicRestore WITH data <- Shown, offered <- Offered

\* Through adoption, crashes at any file operation, refused deletes and failed
\* pointer writes, the phone shows one whole data set: the one it had, or the
\* one a restore finished building. A restore that fails has changed nothing.
SwitchIsAtomic == Promise!Spec

\* What the app serves is what CURRENT names: a clean-up that fails after the
\* rename does not leave the memory on the old paths (activate's promise).
ServesCurrent ==
    pc \in {"ready", "fill", "built", "discard"} =>
        active = current /\ IsComplete(current) /\ gens[current].gone = {}

\* No second plaintext copy of the catalogue lingers once the app runs, except
\* a directory whose removal the system has refused since it started.
NoSecondCopy ==
    pc = "ready" => \A n \in Numbers : Exists(n) /\ n # current => n \in refused

\* What makes SwitchIsAtomic inductive. Until the first CURRENT is written the
\* only directory is gen-1, and what the adoption leaves flat it already has.
FlatIsCovered == \A l \in Leaves : flat[l] # NONE => gens[1].files[l] # NONE

BeforeCurrent ==
    /\ builder = NONE
    /\ \A n \in Numbers : n # 1 => ~Exists(n)
    /\ Exists(1) => gens[1].gone = {}
    /\ IsComplete(1) => FlatIsCovered
    /\ pc = "choose" => IsComplete(1) \/ (~Exists(1) /\ flat = NoPlan)
    /\ pc = "move" => Exists(1)
    /\ pc = "finish" => target = 1 /\ Exists(1) /\ flat = NoPlan
    /\ pc \notin {"sweep", "ready", "fill", "built", "discard"}

Whole(n) == IsComplete(n) /\ gens[n].gone = {}

\* The builder is never the live directory, and is complete only when whole.
BuilderIsApart ==
    /\ Exists(builder)
    /\ IF pc = "sweep" THEN builder = current
       ELSE builder # current /\ current # NONE /\ active = current
    /\ pc = "fill" => gens[builder].gone = {}
    /\ pc \in {"built", "point", "rename"} => Whole(builder) /\ gens[builder].files = plan
    /\ pc \in {"point", "rename"} => target = builder

SwitchInv ==
    /\ TypeOK
    /\ IF current = NONE THEN BeforeCurrent
       ELSE Whole(current) /\ pc \notin {"adopt", "move", "finish"}
    /\ builder # NONE => BuilderIsApart
    /\ pc \in {"fill", "built", "discard"} => builder # NONE
    /\ pc \in {"point", "rename"} =>
         /\ target # NONE /\ Whole(target)
         /\ builder = NONE => target = IF current = NONE THEN 1 ELSE current
    /\ pc = "rename" => tmp = target
    /\ pc = "sweep" => current = target /\ target \notin doomed
    /\ \A n \in doomed : Exists(n)
    /\ pc # "sweep" => doomed = {}
    /\ \A n \in Numbers : Exists(n) => gens[n].soft = {}
    /\ ServesCurrent

\* "COMPLETE" is "the promise startup recovery relies on": the generation that
\* recovery makes live is not one a delete had begun to remove.
RecoversFinished == current # NONE => gens[current].gone = {}

\* "File CONTENTS are flushed before the rename": nothing live is torn.
LiveIsFlushed == current # NONE => \A l \in Leaves : Shown[l] # TORN
=============================================================================
