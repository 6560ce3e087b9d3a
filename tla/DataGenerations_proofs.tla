----------------------- MODULE DataGenerations_proofs -----------------------
(***************************************************************************)
(* The switch of the data generations is atomic, for every set of files,   *)
(* number of restores and number of generations: SwitchInv is inductive,   *)
(* and under it every step is a step of AtomicRestore or changes nothing   *)
(* of what the phone shows.                                                *)
(***************************************************************************)
EXTENDS DataGenerations, TLAPS

\* CURRENT can be read, and whatever a power loss may tear was flushed.
Gentle == "unreadable" \notin Faults /\ ("power" \in Faults => Unflushed = {})

LEMMA NoneIsApart ==
    /\ NONE \notin Numbers
    /\ NONE \notin Dirs
    /\ NONE \notin DataSets
    /\ NoPlan \in DataSets
    /\ EmptyDir \in Dirs
  BY GenerationsAssumption DEF Numbers, NoPlan, EmptyDir, DataSets, Dirs, Contents

\* The shape of a directory, as the provers like it.
LEMMA DirShape ==
    ASSUME TypeOK, NEW n \in Numbers, Exists(n)
    PROVE  /\ gens[n] \in Dirs
           /\ gens[n].files \in DataSets
           /\ gens[n].complete \in BOOLEAN
           /\ gens[n].soft \subseteq Leaves
           /\ gens[n].gone \subseteq Leaves
           /\ Visible(gens[n]) \in DataSets
  <1>1. gens[n] \in Dirs
    BY DEF TypeOK, Exists
  <1>2. Visible(gens[n]) \in DataSets
    BY <1>1 DEF Visible, DataSets, Dirs, Contents
  <1> QED
    BY <1>1, <1>2 DEF Dirs

\* What the steps do to a directory keeps it one.
LEMMA DirUpdates ==
    ASSUME TypeOK, NEW n \in Numbers, Exists(n)
    PROVE  /\ \A b \in BOOLEAN :
                 [gens EXCEPT ![n].complete = b] \in [Numbers -> Dirs \cup {NONE}]
           /\ \A l \in Leaves :
                 [gens EXCEPT ![n].gone = @ \cup {l}] \in [Numbers -> Dirs \cup {NONE}]
           /\ \A l \in Leaves, c \in Contents, d \in SUBSET Leaves :
                 [gens EXCEPT ![n].files[l] = c, ![n].soft = d]
                   \in [Numbers -> Dirs \cup {NONE}]
           /\ \A l \in Leaves, c \in Contents :
                 [gens EXCEPT ![n].files[l] = c] \in [Numbers -> Dirs \cup {NONE}]
  <1>1. gens[n] \in Dirs /\ gens \in [Numbers -> Dirs \cup {NONE}]
    BY DEF TypeOK, Exists
  <1>2. ASSUME NEW b \in BOOLEAN
        PROVE  [gens EXCEPT ![n].complete = b] \in [Numbers -> Dirs \cup {NONE}]
    <2>1. [gens[n] EXCEPT !.complete = b] \in Dirs
      BY <1>1 DEF Dirs
    <2> QED
      BY <1>1, <2>1
  <1>3. ASSUME NEW l \in Leaves
        PROVE  [gens EXCEPT ![n].gone = @ \cup {l}] \in [Numbers -> Dirs \cup {NONE}]
    <2>1. [gens[n] EXCEPT !.gone = @ \cup {l}] \in Dirs
      BY <1>1 DEF Dirs
    <2> QED
      BY <1>1, <2>1
  <1>4. ASSUME NEW l \in Leaves, NEW c \in Contents, NEW d \in SUBSET Leaves
        PROVE  [gens EXCEPT ![n].files[l] = c, ![n].soft = d]
                 \in [Numbers -> Dirs \cup {NONE}]
    <2>1. [gens[n] EXCEPT !.files[l] = c, !.soft = d] \in Dirs
      BY <1>1 DEF Dirs, DataSets
    <2> QED
      BY <1>1, <2>1
  <1>5. ASSUME NEW l \in Leaves, NEW c \in Contents
        PROVE  [gens EXCEPT ![n].files[l] = c] \in [Numbers -> Dirs \cup {NONE}]
    <2>1. [gens[n] EXCEPT !.files[l] = c] \in Dirs
      BY <1>1 DEF Dirs, DataSets
    <2> QED
      BY <1>1, <2>1
  <1> QED
    BY <1>2, <1>3, <1>4, <1>5

\* A step of a delete touches one directory, and nothing a restore wrote.
LEMMA DeleteStepEffect ==
    ASSUME TypeOK, NEW n \in Numbers, Exists(n), DeleteStep(n)
    PROVE  /\ gens' \in [Numbers -> Dirs \cup {NONE}]
           /\ \A m \in Numbers : m # n => gens'[m] = gens[m]
           /\ gens'[n] \in Dirs
           /\ gens'[n].soft = gens[n].soft
  <1>0. gens \in [Numbers -> Dirs \cup {NONE}] /\ gens[n] \in Dirs
    BY DirShape DEF TypeOK
  <1>1. CASE \E l \in Leaves : gens' = [gens EXCEPT ![n].gone = @ \cup {l}]
    <2>1. PICK l \in Leaves : gens' = [gens EXCEPT ![n].gone = @ \cup {l}]
      BY <1>1
    <2>2. [gens EXCEPT ![n].gone = @ \cup {l}] \in [Numbers -> Dirs \cup {NONE}]
      BY DirUpdates
    <2>3. [gens[n] EXCEPT !.gone = @ \cup {l}] \in Dirs
      BY <1>0 DEF Dirs
    <2> QED
      BY <1>0, <2>1, <2>2, <2>3 DEF Dirs
  <1>2. CASE gens' = [gens EXCEPT ![n].complete = FALSE]
    <2>1. [gens EXCEPT ![n].complete = FALSE] \in [Numbers -> Dirs \cup {NONE}]
      BY DirUpdates
    <2>2. [gens[n] EXCEPT !.complete = FALSE] \in Dirs
      BY <1>0 DEF Dirs
    <2> QED
      BY <1>0, <1>2, <2>1, <2>2 DEF Dirs
  <1> QED
    BY <1>1, <1>2 DEF DeleteStep

LEMMA CompleteEffect ==
    ASSUME TypeOK, NEW n \in Numbers, Exists(n),
           gens' = [gens EXCEPT ![n].complete = TRUE]
    PROVE  /\ Exists(n)' /\ gens'[n].complete = TRUE
           /\ gens'[n].files = gens[n].files
           /\ gens'[n].gone = gens[n].gone
           /\ gens'[n].soft = gens[n].soft
           /\ \A m \in Numbers : m # n => gens'[m] = gens[m]
  <1>1. gens[n] \in Dirs /\ gens \in [Numbers -> Dirs \cup {NONE}]
    BY DirShape DEF TypeOK
  <1>2. gens'[n] = [gens[n] EXCEPT !.complete = TRUE]
    BY <1>1
  <1>3. gens'[n] \in Dirs
    BY <1>1, <1>2 DEF Dirs
  <1> QED
    BY <1>1, <1>2, <1>3, NoneIsApart DEF Dirs, Exists

LEMMA CreateEffect ==
    ASSUME TypeOK, NEW n \in Numbers, gens' = [gens EXCEPT ![n] = EmptyDir]
    PROVE  /\ Exists(n)' /\ gens'[n].complete = FALSE
           /\ gens'[n].files = NoPlan
           /\ gens'[n].gone = {} /\ gens'[n].soft = {}
           /\ \A m \in Numbers : m # n => gens'[m] = gens[m]
  BY NoneIsApart DEF TypeOK, EmptyDir, Exists

LEMMA InitHolds == Init => SwitchInv
  <1> SUFFICES ASSUME Init PROVE SwitchInv
    OBVIOUS
  <1>1. TypeOK
    BY NoneIsApart, GenerationsAssumption
    DEF Init, TypeOK, DataSets, Contents, Labels, Restores, Numbers
  <1>2. BeforeCurrent
    BY GenerationsAssumption DEF Init, BeforeCurrent, Exists, IsComplete, Numbers
  <1> QED
    BY <1>1, <1>2 DEF Init, SwitchInv, ServesCurrent, Exists

-----------------------------------------------------------------------------
(* Typing of the steps.                                                     *)

LEMMA OpeningTypes ==
    ASSUME SwitchInv, Opening PROVE TypeOK'
  <1> USE NoneIsApart, GenerationsAssumption DEF SwitchInv
  <1>1. CASE Start
    BY <1>1 DEF Start, TypeOK, files, memory, Labels, Restores
  <1>2. CASE Adopt
    BY <1>2 DEF Adopt, TypeOK, memory, Labels, Restores, Numbers
  <1>3. CASE Move
    <2>1. PICK l \in Leaves : /\ ToMove(l)
                              /\ gens' = [gens EXCEPT ![1].files[l] = flat[l]]
                              /\ flat' = [flat EXCEPT ![l] = NONE]
      BY <1>3 DEF Move
    <2>2. 1 \in Numbers /\ Exists(1) /\ flat[l] \in Contents
      BY <1>3 DEF Move, BeforeCurrent, Numbers, TypeOK, DataSets
    <2>3. gens' \in [Numbers -> Dirs \cup {NONE}]
      BY <2>1, <2>2, DirUpdates
    <2>4. flat' \in DataSets
      BY <2>1 DEF TypeOK, DataSets, Contents
    <2> QED
      BY <1>3, <2>3, <2>4 DEF Move, TypeOK, memory, Labels, Restores
  <1>4. CASE Adopted
    <2>1. 1 \in Numbers /\ Exists(1)
      BY <1>4 DEF Adopted, BeforeCurrent, Numbers
    <2>2. gens' \in [Numbers -> Dirs \cup {NONE}]
      BY <1>4, <2>1, DirUpdates DEF Adopted
    <2> QED
      BY <1>4, <2>2 DEF Adopted, TypeOK, memory, Labels, Restores
  <1>5. CASE Choose
    BY <1>5 DEF Choose, TypeOK, files, Labels, Restores
  <1>6. CASE ChooseFresh
    BY <1>6 DEF ChooseFresh, TypeOK, Labels, Restores
  <1>7. CASE CompleteFresh
    <2>1. target \in Numbers /\ Exists(target)
      BY <1>7 DEF CompleteFresh, BeforeCurrent, Numbers
    <2>2. gens' \in [Numbers -> Dirs \cup {NONE}]
      BY <1>7, <2>1, DirUpdates DEF CompleteFresh
    <2> QED
      BY <1>7, <2>2 DEF CompleteFresh, TypeOK, memory, Labels, Restores
  <1>8. CASE AdoptFails
    BY <1>8 DEF AdoptFails, TypeOK, files, memory, Labels, Restores
  <1>9. CASE Restart
    BY <1>9 DEF Restart, TypeOK, files, memory, Labels, Restores
  <1> QED
    BY <1>1, <1>2, <1>3, <1>4, <1>5, <1>6, <1>7, <1>8, <1>9 DEF Opening

LEMMA PointingTypes ==
    ASSUME SwitchInv, Pointing PROVE TypeOK'
  <1> USE NoneIsApart, GenerationsAssumption DEF SwitchInv
  <1>1. CASE WriteTmp
    BY <1>1 DEF WriteTmp, TypeOK, memory, Labels, Restores
  <1>2. CASE AlreadyPointed
    BY <1>2 DEF AlreadyPointed, Others, TypeOK, files, Labels, Restores
  <1>3. CASE Rename
    BY <1>3 DEF Rename, Others, TypeOK, Labels, Restores
  <1>4. CASE PointerFails
    BY <1>4 DEF PointerFails, TypeOK, memory, Labels, Restores
  <1>5. CASE SweepStep
    <2>1. PICK n \in doomed : DeleteStep(n)
      BY <1>5 DEF SweepStep
    <2>2. n \in Numbers /\ Exists(n)
      BY <2>1 DEF TypeOK
    <2>3. gens' \in [Numbers -> Dirs \cup {NONE}]
      BY <2>1, <2>2, DeleteStepEffect
    <2> QED
      BY <1>5, <2>3 DEF SweepStep, TypeOK, memory
  <1>6. CASE Swept
    BY <1>6 DEF Swept, TypeOK, Labels, Restores
  <1>7. CASE Publish
    BY <1>7 DEF Publish, TypeOK, files, Labels, Restores
  <1> QED
    BY <1>1, <1>2, <1>3, <1>4, <1>5, <1>6, <1>7 DEF Pointing

LEMMA RestoringTypes ==
    ASSUME SwitchInv, Restoring PROVE TypeOK'
  <1> USE NoneIsApart, GenerationsAssumption DEF SwitchInv
  <1>1. CASE BeginNext
    <2>1. plan' \in DataSets
      BY <1>1 DEF BeginNext, Plans
    <2>2. restores' \in 0 .. MaxRestores
      BY <1>1 DEF BeginNext, TypeOK
    <2> QED
      BY <1>1, <2>1, <2>2 DEF BeginNext, TypeOK, Labels, Restores
  <1>2. CASE Fill
    <2>1. PICK l \in Leaves :
            gens' = [gens EXCEPT ![builder].files[l] = plan[l],
                                 ![builder].soft = Dirtied(@, l)]
      BY <1>2 DEF Fill
    <2>2. builder \in Numbers /\ Exists(builder) /\ plan[l] \in Contents
      BY <1>2 DEF Fill, BuilderIsApart, TypeOK, DataSets
    <2>3. Dirtied(gens[builder].soft, l) \in SUBSET Leaves
      BY <2>2, DirShape DEF Dirtied
    <2>4. gens' = [gens EXCEPT ![builder].files[l] = plan[l],
                               ![builder].soft = Dirtied(gens[builder].soft, l)]
      BY <2>1
    <2>5. gens' \in [Numbers -> Dirs \cup {NONE}]
      BY <2>2, <2>3, <2>4, DirUpdates
    <2> QED
      BY <1>2, <2>5 DEF Fill, TypeOK, memory
  <1>3. CASE Complete
    <2>1. builder \in Numbers /\ Exists(builder)
      BY <1>3 DEF Complete, BuilderIsApart, TypeOK
    <2>2. gens' \in [Numbers -> Dirs \cup {NONE}]
      BY <1>3, <2>1, DirUpdates DEF Complete
    <2> QED
      BY <1>3, <2>2 DEF Complete, TypeOK, memory, Labels, Restores
  <1>4. CASE Abandon
    BY <1>4 DEF Abandon, TypeOK, files, memory, Labels, Restores
  <1>5. CASE Activate
    BY <1>5 DEF Activate, TypeOK, files, Labels, Restores
  <1>6. CASE DiscardStep
    <2>1. builder \in Numbers /\ Exists(builder)
      BY <1>6 DEF DiscardStep, BuilderIsApart, TypeOK
    <2>2. gens' \in [Numbers -> Dirs \cup {NONE}]
      BY <1>6, <2>1, DeleteStepEffect DEF DiscardStep
    <2> QED
      BY <1>6, <2>2 DEF DiscardStep, TypeOK, memory
  <1>7. CASE Discarded
    BY <1>7 DEF Discarded, BuilderIsApart, TypeOK, Labels, Restores
  <1> QED
    BY <1>1, <1>2, <1>3, <1>4, <1>5, <1>6, <1>7 DEF Restoring

LEMMA DyingTypes ==
    ASSUME SwitchInv, Crash \/ PowerLoss PROVE TypeOK'
  <1> USE NoneIsApart, GenerationsAssumption DEF SwitchInv
  <1>1. CASE Crash
    BY <1>1 DEF Crash, Dies, files, TypeOK, Labels, Restores
  <1>2. CASE PowerLoss
    <2>1. gens' \in [Numbers -> Dirs \cup {NONE}]
      <3>1. PICK lost \in SUBSET Unflushed :
              gens' = [n \in Numbers |->
                IF ~Exists(n) THEN NONE
                ELSE [gens[n] EXCEPT !.soft = {},
                        !.files = [l \in Leaves |->
                          IF l \in lost \cap gens[n].soft THEN TORN ELSE @[l]]]]
        BY <1>2 DEF PowerLoss
      <3>2. ASSUME NEW n \in Numbers, Exists(n)
            PROVE  [gens[n] EXCEPT !.soft = {},
                      !.files = [l \in Leaves |->
                        IF l \in lost \cap gens[n].soft THEN TORN ELSE @[l]]] \in Dirs
        <4>1. gens[n] \in Dirs /\ gens[n].files \in [Leaves -> Contents]
          BY <3>2, DirShape DEF DataSets
        <4>2. [l \in Leaves |->
                 IF l \in lost \cap gens[n].soft THEN TORN ELSE gens[n].files[l]]
                \in DataSets
          BY <4>1 DEF DataSets, Contents
        <4> QED
          BY <4>1, <4>2 DEF Dirs
      <3> QED
        BY <3>1, <3>2
    <2> QED
      BY <1>2, <2>1 DEF PowerLoss, Dies, TypeOK, Labels, Restores
  <1> QED
    BY <1>1, <1>2

LEMMA StepTypes ==
    ASSUME SwitchInv, [Next]_vars PROVE TypeOK'
  <1>1. CASE UNCHANGED vars
    BY <1>1 DEF vars, SwitchInv, TypeOK
  <1> QED
    BY <1>1, OpeningTypes, PointingTypes, RestoringTypes, DyingTypes DEF Next

-----------------------------------------------------------------------------
(* SwitchInv is inductive.                                                  *)

LEMMA AdoptKeeps ==
    ASSUME SwitchInv, Adopt, TypeOK' PROVE SwitchInv'
  <1> USE NoneIsApart, GenerationsAssumption DEF SwitchInv
  <1>1. current = NONE /\ builder = NONE /\ 1 \in Numbers
    BY DEF Adopt, Numbers, BeforeCurrent
  <1>2. CASE ~AnythingToAdopt
    <2>1. flat = NoPlan
      BY <1>2 DEF AnythingToAdopt, TypeOK, DataSets, NoPlan
    <2> QED
      BY <1>1, <1>2, <2>1
      DEF Adopt, AnythingToAdopt, memory, BeforeCurrent, FlatIsCovered, IsComplete,
          Exists, ServesCurrent
  <1>3. CASE AnythingToAdopt /\ Exists(1)
    BY <1>1, <1>3
    DEF Adopt, memory, BeforeCurrent, FlatIsCovered, IsComplete, Exists, ServesCurrent
  <1>4. CASE AnythingToAdopt /\ ~Exists(1)
    <2>1. gens' = [gens EXCEPT ![1] = EmptyDir]
      BY <1>4 DEF Adopt
    <2>2. /\ Exists(1)' /\ gens'[1].complete = FALSE
          /\ gens'[1].gone = {} /\ gens'[1].soft = {}
          /\ \A m \in Numbers : m # 1 => gens'[m] = gens[m]
      BY <1>1, <2>1, CreateEffect
    <2>3. BeforeCurrent'
      BY <1>1, <1>4, <2>2 DEF Adopt, BeforeCurrent, memory, IsComplete, Exists
    <2> QED
      BY <1>1, <1>4, <2>2, <2>3 DEF Adopt, memory, Exists, ServesCurrent
  <1> QED
    BY <1>2, <1>3, <1>4

LEMMA MoveKeeps ==
    ASSUME SwitchInv, Move, TypeOK' PROVE SwitchInv'
  <1> USE NoneIsApart, GenerationsAssumption DEF SwitchInv
  <1>1. current = NONE /\ builder = NONE /\ 1 \in Numbers /\ Exists(1)
    BY DEF Move, Numbers, BeforeCurrent
  <1>2. gens[1] \in Dirs
    BY <1>1, DirShape
  <1>3. PICK l \in Leaves : /\ ToMove(l)
                            /\ gens' = [gens EXCEPT ![1].files[l] = flat[l]]
                            /\ flat' = [flat EXCEPT ![l] = NONE]
    BY DEF Move
  <1>4. /\ gens'[1].files = [gens[1].files EXCEPT ![l] = flat[l]]
        /\ gens'[1].gone = gens[1].gone /\ gens'[1].soft = gens[1].soft
        /\ gens'[1].complete = gens[1].complete /\ gens'[1] \in Dirs
        /\ \A n \in Numbers : n # 1 => gens'[n] = gens[n]
    BY <1>1, <1>2, <1>3 DEF TypeOK, Dirs, DataSets
  <1>5. \A k \in Leaves : /\ flat'[k] = IF k = l THEN NONE ELSE flat[k]
                          /\ k # l => gens'[1].files[k] = gens[1].files[k]
    BY <1>2, <1>3, <1>4 DEF TypeOK, Dirs, DataSets
  <1>6. BeforeCurrent'
    BY <1>1, <1>4, <1>5 DEF Move, BeforeCurrent, FlatIsCovered, memory, IsComplete, Exists
  <1> QED
    BY <1>1, <1>4, <1>6 DEF Move, memory, Exists, ServesCurrent

LEMMA AdoptedKeeps ==
    ASSUME SwitchInv, Adopted, TypeOK' PROVE SwitchInv'
  <1> USE NoneIsApart, GenerationsAssumption DEF SwitchInv
  <1>1. current = NONE /\ builder = NONE /\ 1 \in Numbers /\ Exists(1)
    BY DEF Adopted, Numbers, BeforeCurrent
  <1>2. gens' = [gens EXCEPT ![1].complete = TRUE]
    BY DEF Adopted
  <1>3. /\ Exists(1)' /\ gens'[1].complete = TRUE
        /\ gens'[1].files = gens[1].files
        /\ gens'[1].gone = gens[1].gone
        /\ gens'[1].soft = gens[1].soft
        /\ \A m \in Numbers : m # 1 => gens'[m] = gens[m]
    BY <1>1, <1>2, CompleteEffect
  <1>4. FlatIsCovered'
    BY <1>3 DEF Adopted, ToMove, FlatIsCovered
  <1>5. BeforeCurrent'
    BY <1>1, <1>3, <1>4 DEF Adopted, BeforeCurrent, memory, IsComplete, Exists
  <1> QED
    BY <1>1, <1>3, <1>5 DEF Adopted, memory, Exists, ServesCurrent

LEMMA ChooseKeeps ==
    ASSUME Gentle, SwitchInv, Choose, TypeOK' PROVE SwitchInv'
  <1> USE NoneIsApart, GenerationsAssumption DEF SwitchInv
  <1>1. builder = NONE /\ 1 \in Numbers /\ pc = "choose"
    BY DEF Choose, Numbers, TypeOK, Restores
  <1>2. PICK n \in Numbers :
          /\ IF current # NONE /\ IsComplete(current) THEN n = current
             ELSE NewestComplete(n)
          /\ target' = n
    BY DEF Choose, PointerReads, May, Gentle
  <1>3. Whole(n) /\ n = IF current = NONE THEN 1 ELSE current
    <2>1. CASE current = NONE
      <3>1. NewestComplete(n) /\ IsComplete(n)
        BY <1>2, <2>1 DEF NewestComplete
      <3> QED
        BY <2>1, <3>1 DEF BeforeCurrent, IsComplete, Whole
    <2>2. CASE current # NONE
      BY <1>2, <2>2 DEF Whole
    <2> QED
      BY <2>1, <2>2
  <1> QED
    BY <1>1, <1>2, <1>3
    DEF Choose, files, BeforeCurrent, FlatIsCovered, Whole, IsComplete, Exists, ServesCurrent

LEMMA FreshKeeps ==
    ASSUME SwitchInv, ChooseFresh, TypeOK' PROVE SwitchInv'
  <1> USE NoneIsApart, GenerationsAssumption DEF SwitchInv
  <1>1. builder = NONE /\ 1 \in Numbers /\ pc = "choose" /\ current = NONE
    BY DEF ChooseFresh, NoneComplete, Numbers, TypeOK, Restores, Whole
  <1>2. ~Exists(1) /\ flat = NoPlan
    BY <1>1 DEF BeforeCurrent, ChooseFresh, NoneComplete
  <1>3. PICK n \in Numbers : /\ FirstFree(n, 1) /\ target' = n
                             /\ gens' = [gens EXCEPT ![n] = EmptyDir]
    BY DEF ChooseFresh
  <1>4. n = 1
    BY <1>1, <1>2, <1>3 DEF FirstFree, Numbers
  <1>5. /\ Exists(1)' /\ gens'[1].complete = FALSE
        /\ gens'[1].gone = {} /\ gens'[1].soft = {}
        /\ \A m \in Numbers : m # 1 => gens'[m] = gens[m]
    BY <1>1, <1>3, <1>4, CreateEffect
  <1>6. BeforeCurrent'
    BY <1>1, <1>2, <1>3, <1>4, <1>5
    DEF ChooseFresh, BeforeCurrent, IsComplete, Exists
  <1> QED
    BY <1>1, <1>5, <1>6 DEF ChooseFresh, Exists, ServesCurrent

LEMMA CompleteFreshKeeps ==
    ASSUME SwitchInv, CompleteFresh, TypeOK' PROVE SwitchInv'
  <1> USE NoneIsApart, GenerationsAssumption DEF SwitchInv
  <1>1. /\ current = NONE /\ builder = NONE /\ 1 \in Numbers /\ Exists(1)
        /\ target = 1 /\ flat = NoPlan
    BY DEF CompleteFresh, Numbers, BeforeCurrent
  <1>2. gens' = [gens EXCEPT ![1].complete = TRUE]
    BY <1>1 DEF CompleteFresh
  <1>3. /\ Exists(1)' /\ gens'[1].complete = TRUE
        /\ gens'[1].gone = gens[1].gone
        /\ gens'[1].soft = gens[1].soft
        /\ \A m \in Numbers : m # 1 => gens'[m] = gens[m]
    BY <1>1, <1>2, CompleteEffect
  <1>4. BeforeCurrent' /\ Whole(1)'
    BY <1>1, <1>3
    DEF CompleteFresh, BeforeCurrent, FlatIsCovered, NoPlan, memory, IsComplete, Exists, Whole
  <1> QED
    BY <1>1, <1>3, <1>4 DEF CompleteFresh, memory, Exists, ServesCurrent

LEMMA OpeningKeeps ==
    ASSUME Gentle, SwitchInv, Opening, TypeOK' PROVE SwitchInv'
  <1> USE NoneIsApart, GenerationsAssumption DEF SwitchInv
  <1>1. CASE Start
    BY <1>1 DEF Start, TypeOK, files, memory, Labels, Restores, BeforeCurrent,
      FlatIsCovered, Whole, IsComplete, Exists, ServesCurrent
  <1>2. CASE AdoptFails
    BY <1>2 DEF AdoptFails, TypeOK, files, memory, Labels, Restores, BeforeCurrent,
      FlatIsCovered, Whole, IsComplete, Exists, ServesCurrent
  <1>3. CASE Restart
    BY <1>3 DEF Restart, TypeOK, files, memory, Labels, Restores, BeforeCurrent,
      FlatIsCovered, Whole, IsComplete, Exists, ServesCurrent
  <1> QED
    BY <1>1, <1>2, <1>3, AdoptKeeps, MoveKeeps, AdoptedKeeps, ChooseKeeps, FreshKeeps,
      CompleteFreshKeeps DEF Opening

LEMMA PointingKeeps ==
    ASSUME SwitchInv, Pointing, TypeOK' PROVE SwitchInv'
  <1> USE NoneIsApart, GenerationsAssumption
      DEF SwitchInv, BeforeCurrent, FlatIsCovered, Whole, IsComplete, Exists,
          BuilderIsApart, ServesCurrent
  <1>1. CASE WriteTmp
    BY <1>1 DEF WriteTmp, TypeOK, memory, Labels, Restores
  <1>2. CASE AlreadyPointed
    BY <1>2 DEF AlreadyPointed, Others, TypeOK, files, Labels, Restores
  <1>3. CASE Rename
    BY <1>3 DEF Rename, Others, TypeOK, Labels, Restores
  <1>4. CASE PointerFails
    BY <1>4 DEF PointerFails, TypeOK, memory, Labels, Restores
  <1>5. CASE SweepStep
    <2>1. PICK n \in doomed : DeleteStep(n)
      BY <1>5 DEF SweepStep
    <2> QED
      BY <1>5, <2>1, DeleteStepEffect DEF SweepStep, TypeOK, memory
  <1>6. CASE Swept
    BY <1>6 DEF Swept, TypeOK, Labels, Restores
  <1>7. CASE Publish
    BY <1>7 DEF Publish, TypeOK, files, Labels, Restores
  <1> QED
    BY <1>1, <1>2, <1>3, <1>4, <1>5, <1>6, <1>7 DEF Pointing

LEMMA BeginKeeps ==
    ASSUME SwitchInv, BeginNext, TypeOK' PROVE SwitchInv'
  <1> USE NoneIsApart, GenerationsAssumption DEF SwitchInv
  <1>1. current # NONE /\ active = current /\ Whole(current) /\ builder = NONE
    BY DEF BeginNext, BeforeCurrent, ServesCurrent, Whole, TypeOK, Restores
  <1>2. PICK n \in Numbers : /\ ~Exists(n) /\ builder' = n
                             /\ gens' = [gens EXCEPT ![n] = EmptyDir]
    BY DEF BeginNext, FirstFree
  <1>3. n # current
    BY <1>1, <1>2 DEF Whole, IsComplete
  <1>4. /\ Exists(n)' /\ gens'[n].gone = {} /\ gens'[n].soft = {}
        /\ \A m \in Numbers : m # n => gens'[m] = gens[m]
    BY <1>2, CreateEffect
  <1>5. current \in Numbers /\ current' = current
    BY <1>1 DEF TypeOK, BeginNext
  <1>6. Whole(current)'
    BY <1>1, <1>3, <1>4, <1>5 DEF Whole, IsComplete, Exists
  <1>7. BuilderIsApart' /\ ServesCurrent'
    BY <1>1, <1>2, <1>3, <1>4, <1>5, <1>6
    DEF BeginNext, BuilderIsApart, ServesCurrent, Whole
  <1> QED
    BY <1>1, <1>2, <1>4, <1>5, <1>6, <1>7 DEF BeginNext, Exists

LEMMA FillKeeps ==
    ASSUME Gentle, SwitchInv, Fill, TypeOK' PROVE SwitchInv'
  <1> USE NoneIsApart, GenerationsAssumption DEF SwitchInv
  <1>1. /\ builder \in Numbers /\ Exists(builder) /\ builder # current
        /\ current \in Numbers /\ active = current /\ Whole(current)
        /\ gens[builder].gone = {} /\ gens[builder].soft = {}
    BY DEF Fill, BuilderIsApart, TypeOK
  <1>2. PICK l \in Leaves :
          gens' = [gens EXCEPT ![builder].files[l] = plan[l],
                               ![builder].soft = Dirtied(@, l)]
    BY DEF Fill
  <1>3. gens'[builder] = [gens[builder] EXCEPT
            !.files[l] = plan[l], !.soft = Dirtied(gens[builder].soft, l)]
    BY <1>1, <1>2 DEF TypeOK
  <1>4. \A m \in Numbers : m # builder => gens'[m] = gens[m]
    BY <1>1, <1>2 DEF TypeOK
  <1>5. Dirtied(gens[builder].soft, l) = {}
    BY <1>1 DEF Dirtied, Gentle, May
  <1>6. gens[builder] \in Dirs
    BY <1>1, DirShape
  <1>7. Exists(builder)' /\ gens'[builder].soft = {} /\ gens'[builder].gone = {}
    <2>1. plan[l] \in Contents
      BY DEF TypeOK, DataSets
    <2>2. [gens[builder].files EXCEPT ![l] = plan[l]] \in DataSets
      BY <1>6, <2>1 DEF Dirs, DataSets
    <2>3. gens'[builder] = [gens[builder] EXCEPT
             !.files = [gens[builder].files EXCEPT ![l] = plan[l]], !.soft = {}]
      BY <1>3, <1>5
    <2>4. gens'[builder] \in Dirs
      BY <1>6, <2>2, <2>3 DEF Dirs
    <2>5. builder' = builder
      BY DEF Fill, memory
    <2> QED
      BY <1>1, <1>6, <2>3, <2>4, <2>5 DEF Dirs, Exists
  <1>8. Whole(current)' /\ current' = current
    BY <1>1, <1>4 DEF Fill, Whole, IsComplete, Exists
  <1>9. BuilderIsApart' /\ ServesCurrent'
    BY <1>1, <1>7, <1>8 DEF Fill, memory, BuilderIsApart, ServesCurrent, Whole
  <1> QED
    BY <1>1, <1>4, <1>7, <1>8, <1>9 DEF Fill, memory, Exists

LEMMA CompleteKeeps ==
    ASSUME SwitchInv, Complete, TypeOK' PROVE SwitchInv'
  <1> USE NoneIsApart, GenerationsAssumption DEF SwitchInv
  <1>1. /\ builder \in Numbers /\ Exists(builder) /\ builder # current
        /\ current \in Numbers /\ active = current /\ Whole(current)
        /\ gens[builder].gone = {} /\ gens[builder].soft = {}
        /\ gens[builder].files = plan
    BY DEF Complete, BuilderIsApart, TypeOK
  <1>2. gens' = [gens EXCEPT ![builder].complete = TRUE]
    BY DEF Complete
  <1>3. /\ gens'[builder] # NONE /\ gens'[builder].complete = TRUE
        /\ gens'[builder].files = gens[builder].files
        /\ gens'[builder].gone = gens[builder].gone
        /\ gens'[builder].soft = gens[builder].soft
        /\ \A m \in Numbers : m # builder => gens'[m] = gens[m]
    <2>1. builder' = builder
      BY DEF Complete, memory
    <2> QED
      BY <1>1, <1>2, <2>1, CompleteEffect DEF Exists
  <1>4. Whole(current)' /\ current' = current
    BY <1>1, <1>3 DEF Complete, Whole, IsComplete, Exists
  <1>5. BuilderIsApart' /\ ServesCurrent'
    BY <1>1, <1>3, <1>4
    DEF Complete, memory, BuilderIsApart, ServesCurrent, Whole, IsComplete, Exists
  <1> QED
    BY <1>1, <1>3, <1>4, <1>5 DEF Complete, memory, Exists

LEMMA DiscardKeeps ==
    ASSUME SwitchInv, DiscardStep \/ Discarded, TypeOK' PROVE SwitchInv'
  <1> USE NoneIsApart, GenerationsAssumption DEF SwitchInv
  <1>1. /\ builder \in Numbers /\ Exists(builder) /\ builder # current
        /\ current \in Numbers /\ active = current /\ Whole(current)
    BY DEF DiscardStep, Discarded, BuilderIsApart, TypeOK
  <1>2. CASE DiscardStep
    <2>1. /\ gens'[builder] # NONE
          /\ gens'[builder].soft = gens[builder].soft
          /\ \A m \in Numbers : m # builder => gens'[m] = gens[m]
      BY <1>1, <1>2, DeleteStepEffect DEF DiscardStep
    <2> QED
      BY <1>1, <1>2, <2>1
      DEF DiscardStep, memory, BuilderIsApart, ServesCurrent, Whole, IsComplete, Exists
  <1>3. CASE Discarded
    <2>1. \A m \in Numbers : /\ m # builder => gens'[m] = gens[m]
                             /\ gens'[m] \in {gens[m], NONE}
      BY <1>1, <1>3 DEF Discarded, TypeOK
    <2> QED
      BY <1>1, <1>3, <2>1
      DEF Discarded, ServesCurrent, Whole, IsComplete, Exists
  <1> QED
    BY <1>2, <1>3

LEMMA RestoringKeeps ==
    ASSUME Gentle, SwitchInv, Restoring, TypeOK' PROVE SwitchInv'
  <1> USE NoneIsApart, GenerationsAssumption
      DEF SwitchInv, BeforeCurrent, Whole, IsComplete, Exists, BuilderIsApart,
          ServesCurrent
  <1>1. CASE Abandon
    BY <1>1 DEF Abandon, TypeOK, files, memory, Labels, Restores
  <1>2. CASE Activate
    BY <1>2 DEF Activate, TypeOK, files, Labels, Restores
  <1> QED
    BY <1>1, <1>2, BeginKeeps, FillKeeps, CompleteKeeps, DiscardKeeps DEF Restoring

\* What was flushed survives the loss of power as it was.
LEMMA PowerLossEffect ==
    ASSUME SwitchInv, PowerLoss, NEW n \in Numbers
    PROVE  /\ gens'[n] = NONE <=> gens[n] = NONE
           /\ Exists(n) => /\ gens'[n].complete = gens[n].complete
                           /\ gens'[n].gone = gens[n].gone
                           /\ gens'[n].soft = {}
                           /\ gens'[n].files = gens[n].files
  <1> USE NoneIsApart DEF SwitchInv
  <1>1. PICK lost : gens' = [k \in Numbers |->
           IF ~Exists(k) THEN NONE
           ELSE [gens[k] EXCEPT !.soft = {},
                   !.files = [l \in Leaves |->
                     IF l \in lost \cap gens[k].soft THEN TORN ELSE @[l]]]]
    BY DEF PowerLoss
  <1>2. CASE ~Exists(n)
    BY <1>1, <1>2 DEF Exists
  <1>3. CASE Exists(n)
    <2>1. gens[n] \in Dirs /\ gens[n].soft = {} /\ gens[n].files \in DataSets
      BY <1>3, DirShape
    <2>2. gens'[n] = [gens[n] EXCEPT !.soft = {},
                        !.files = [l \in Leaves |->
                          IF l \in lost \cap gens[n].soft THEN TORN
                          ELSE gens[n].files[l]]]
      BY <1>1, <1>3
    <2>3. [l \in Leaves |-> IF l \in lost \cap gens[n].soft THEN TORN
                            ELSE gens[n].files[l]] = gens[n].files
      BY <2>1 DEF DataSets
    <2>4. gens'[n] = [gens[n] EXCEPT !.soft = {}, !.files = gens[n].files]
      BY <2>2, <2>3
    <2>5. gens'[n] \in Dirs
      BY <2>1, <2>4 DEF Dirs
    <2> QED
      BY <1>3, <2>1, <2>4, <2>5 DEF Dirs, Exists
  <1> QED
    BY <1>2, <1>3

LEMMA DyingKeeps ==
    ASSUME SwitchInv, Crash \/ PowerLoss, TypeOK' PROVE SwitchInv'
  <1> USE NoneIsApart, GenerationsAssumption DEF SwitchInv
  <1>1. CASE Crash
    BY <1>1 DEF Crash, Dies, files, BeforeCurrent, FlatIsCovered, Whole, IsComplete,
      Exists, ServesCurrent
  <1>2. CASE PowerLoss
    <2>1. /\ pc' = "down" /\ builder' = NONE /\ current' = current /\ flat' = flat
          /\ doomed' = {}
      BY <1>2 DEF PowerLoss, Dies
    <2>2. \A n \in Numbers :
            /\ Exists(n)' <=> Exists(n)
            /\ IsComplete(n)' <=> IsComplete(n)
            /\ Exists(n) => /\ gens'[n].gone = gens[n].gone
                            /\ gens'[n].soft = {} /\ gens'[n].files = gens[n].files
      BY <1>2, PowerLossEffect DEF Exists, IsComplete
    <2>3. CASE current = NONE
      <3>1. BeforeCurrent'
        BY <2>1, <2>2, <2>3 DEF BeforeCurrent, FlatIsCovered, Numbers, IsComplete
      <3> QED
        BY <2>1, <2>2, <2>3, <3>1 DEF ServesCurrent
    <2>4. CASE current # NONE
      <3>1. Whole(current)'
        BY <2>1, <2>2, <2>4 DEF Whole, TypeOK, IsComplete
      <3> QED
        BY <2>1, <2>2, <2>4, <3>1 DEF ServesCurrent
    <2> QED
      BY <2>3, <2>4
  <1> QED
    BY <1>1, <1>2

LEMMA StepKeeps ==
    ASSUME Gentle, SwitchInv, [Next]_vars PROVE SwitchInv'
  <1>1. TypeOK'
    BY StepTypes
  <1>2. CASE UNCHANGED vars
    BY <1>1, <1>2 DEF vars, SwitchInv, BeforeCurrent, FlatIsCovered, Whole,
      IsComplete, Exists, BuilderIsApart, ServesCurrent
  <1> QED
    BY <1>1, <1>2, OpeningKeeps, PointingKeeps, RestoringKeeps, DyingKeeps DEF Next

\* Every variable keeps its type, and what is live is whole.
THEOREM SwitchInvHolds == Gentle => (Spec => []SwitchInv)
  <1> SUFFICES ASSUME Gentle PROVE Spec => []SwitchInv
    OBVIOUS
  <1> QED
    BY InitHolds, StepKeeps, PTL DEF Spec

-----------------------------------------------------------------------------
(* Every step is a step of AtomicRestore, or shows and offers the same.     *)

Same == Shown' = Shown /\ Offered' = Offered

\* Before the first CURRENT only gen-1 and the flat files are shown.
LEMMA ShownFlat ==
    ASSUME current = NONE, current' = NONE,
           \A l \in Leaves :
             (IF Exists(1) /\ gens[1].files[l] # NONE THEN gens[1].files[l] ELSE flat[l])'
             = IF Exists(1) /\ gens[1].files[l] # NONE THEN gens[1].files[l] ELSE flat[l]
    PROVE  Shown' = Shown
  BY DEF Shown

\* After it, the live directory; a whole one is shown as it was written.
LEMMA ShownLive ==
    ASSUME SwitchInv, current # NONE
    PROVE  Shown = gens[current].files /\ Shown \in DataSets
  <1>1. current \in Numbers /\ Exists(current) /\ gens[current].gone = {}
    BY DEF SwitchInv, TypeOK, Whole, IsComplete
  <1>2. gens[current].files \in DataSets
    BY <1>1, DirShape DEF SwitchInv
  <1> QED
    BY <1>1, <1>2 DEF Shown, Visible, DataSets

LEMMA ShownSame ==
    ASSUME SwitchInv, SwitchInv', current # NONE, current' = current,
           gens'[current].files = gens[current].files
    PROVE  Shown' = Shown
  <1>1. Shown = gens[current].files
    BY ShownLive
  <1>2. /\ current' \in Numbers /\ current' # NONE
        /\ gens'[current'] # NONE /\ gens'[current'].gone = {}
    BY DEF SwitchInv, TypeOK, Whole, IsComplete, Exists
  <1>3. gens'[current'].files \in DataSets
    <2>1. gens'[current'] \in Dirs
      BY <1>2 DEF SwitchInv, TypeOK
    <2> QED
      BY <2>1 DEF Dirs
  <1>4. Shown' = gens'[current'].files
    BY <1>2, <1>3 DEF Shown, Visible, DataSets
  <1> QED
    BY <1>1, <1>4

LEMMA OfferedSame ==
    ASSUME builder' = builder, current' = current, plan' = plan
    PROVE  Offered' = Offered
  BY DEF Offered

LEMMA InitRefines == Init => Promise!Init
  <1> SUFFICES ASSUME Init PROVE Promise!Init
    OBVIOUS
  <1>1. Shown \in DataSets /\ Offered = NONE
    BY GenerationsAssumption DEF Init, Shown, Offered, DataSets, Contents, Exists, Numbers
  <1> QED
    BY <1>1 DEF Promise!Init, Promise!DataSets, DataSets, Contents

\* The adoption moves the files of the data set, and shows them throughout.
LEMMA OpeningShowsSame ==
    ASSUME SwitchInv, SwitchInv', Opening PROVE Same
  <1> USE NoneIsApart, GenerationsAssumption DEF SwitchInv
  <1>1. Offered' = Offered
    BY OfferedSame
    DEF Opening, Start, Adopt, Move, Adopted, Choose, ChooseFresh, CompleteFresh,
      AdoptFails, Restart, files, memory
  <1>2. CASE UNCHANGED <<flat, gens, current>>
    BY <1>1, <1>2 DEF Same, Shown, Visible, Exists
  <1>3. CASE Adopt
    <2>1. current = NONE /\ 1 \in Numbers /\ flat' = flat /\ current' = current
      BY <1>3 DEF Adopt, BeforeCurrent, Numbers
    <2>2. CASE ~Exists(1) /\ gens' = [gens EXCEPT ![1] = EmptyDir]
      <3>1. gens'[1].files = NoPlan
        BY <2>1, <2>2, CreateEffect
      <3> QED
        BY <1>1, <2>1, <2>2, <3>1, ShownFlat DEF Same, NoPlan
    <2>3. CASE gens' = gens
      BY <1>2, <2>1, <2>3
    <2> QED
      BY <1>3, <2>2, <2>3 DEF Adopt
  <1>4. CASE Move
    <2>1. current = NONE /\ 1 \in Numbers /\ Exists(1) /\ current' = current
      BY <1>4 DEF Move, BeforeCurrent, Numbers
    <2>2. gens[1] \in Dirs
      BY <2>1, DirShape
    <2>3. PICK l \in Leaves : /\ ToMove(l)
                              /\ gens' = [gens EXCEPT ![1].files[l] = flat[l]]
                              /\ flat' = [flat EXCEPT ![l] = NONE]
      BY <1>4 DEF Move
    <2>4. gens'[1].files = [gens[1].files EXCEPT ![l] = flat[l]]
      BY <2>1, <2>2, <2>3 DEF TypeOK, Dirs, DataSets
    <2>5. /\ gens'[1].files[l] = flat[l]
          /\ \A k \in Leaves : k # l => /\ flat'[k] = flat[k]
                                        /\ gens'[1].files[k] = gens[1].files[k]
      BY <2>2, <2>3, <2>4 DEF TypeOK, Dirs, DataSets
    <2>6. Exists(1)'
      BY <1>4, <2>1, <2>3, DirUpdates DEF Move, BeforeCurrent
    <2> QED
      BY <1>1, <2>1, <2>3, <2>5, <2>6, ShownFlat DEF Same, ToMove
  <1>5. CASE Adopted
    <2>1. current = NONE /\ 1 \in Numbers /\ Exists(1) /\ flat' = flat /\ current' = current
      BY <1>5 DEF Adopted, BeforeCurrent, Numbers
    <2>2. Exists(1)' /\ gens'[1].files = gens[1].files
      BY <1>5, <2>1, CompleteEffect DEF Adopted
    <2> QED
      BY <1>1, <2>1, <2>2, ShownFlat DEF Same
  <1>6. CASE ChooseFresh
    <2>1. current = NONE /\ 1 \in Numbers /\ flat' = flat /\ current' = current
      BY <1>6 DEF ChooseFresh, NoneComplete, Numbers, TypeOK, Whole
    <2>2. ~Exists(1)
      BY <1>6, <2>1 DEF ChooseFresh, NoneComplete, BeforeCurrent
    <2>3. PICK n \in Numbers : /\ FirstFree(n, 1)
                               /\ gens' = [gens EXCEPT ![n] = EmptyDir]
      BY <1>6 DEF ChooseFresh
    <2>4. n = 1
      BY <2>1, <2>2, <2>3 DEF FirstFree, Numbers
    <2>5. gens'[1].files = NoPlan
      BY <2>1, <2>3, <2>4, CreateEffect
    <2> QED
      BY <1>1, <2>1, <2>2, <2>5, ShownFlat DEF Same, NoPlan
  <1>7. CASE CompleteFresh
    <2>1. /\ current = NONE /\ 1 \in Numbers /\ Exists(1) /\ target = 1
          /\ flat' = flat /\ current' = current
      BY <1>7 DEF CompleteFresh, BeforeCurrent, Numbers
    <2>2. Exists(1)' /\ gens'[1].files = gens[1].files
      BY <1>7, <2>1, CompleteEffect DEF CompleteFresh
    <2> QED
      BY <1>1, <2>1, <2>2, ShownFlat DEF Same
  <1> QED
    BY <1>2, <1>3, <1>4, <1>5, <1>6, <1>7
    DEF Opening, Start, Choose, AdoptFails, Restart, files

\* The rename is the commit point.
LEMMA RenameSwitches ==
    ASSUME SwitchInv, SwitchInv', Rename PROVE Promise!Switch \/ Same
  <1> USE NoneIsApart, GenerationsAssumption DEF SwitchInv
  <1>1. /\ current' = target /\ target \in Numbers /\ Whole(target)
        /\ gens' = gens /\ flat' = flat /\ builder' = builder /\ plan' = plan
    BY DEF Rename, TypeOK
  <1>2. gens[target].files \in DataSets
    BY <1>1, DirShape DEF Whole, IsComplete
  <1>3. Shown' = gens[target].files
    BY <1>1, <1>2 DEF Shown, Visible, DataSets, Whole
  <1>4. CASE builder # NONE
    <2>1. target = builder /\ gens[builder].files = plan /\ builder # current
      BY <1>4 DEF Rename, BuilderIsApart
    <2>2. Offered = plan /\ Offered' = NONE
      BY <1>1, <1>4, <2>1 DEF Offered
    <2>3. plan # NONE
      BY DEF TypeOK
    <2> QED
      BY <1>3, <2>1, <2>2, <2>3 DEF Promise!Switch
  <1>5. CASE builder = NONE
    <2>1. Offered = NONE /\ Offered' = NONE
      BY <1>1, <1>5 DEF Offered
    <2>2. CASE current # NONE
      BY <1>3, <1>5, <2>1, <2>2, ShownLive DEF Same, Rename
    <2>3. CASE current = NONE
      <3>1. target = 1 /\ Exists(1) /\ FlatIsCovered
        BY <1>1, <1>5, <2>3 DEF Rename, BeforeCurrent, Whole, IsComplete
      <3>2. \A l \in Leaves :
              gens[1].files[l]
              = IF Exists(1) /\ gens[1].files[l] # NONE THEN gens[1].files[l] ELSE flat[l]
        BY <3>1 DEF FlatIsCovered
      <3>3. Shown = gens[1].files
        BY <1>2, <2>3, <3>1, <3>2 DEF Shown, DataSets
      <3> QED
        BY <1>3, <2>1, <3>1, <3>3 DEF Same
    <2> QED
      BY <2>2, <2>3
  <1> QED
    BY <1>4, <1>5

LEMMA PointingRefines ==
    ASSUME SwitchInv, SwitchInv', Pointing PROVE Promise!Switch \/ Same
  <1> USE NoneIsApart DEF SwitchInv
  <1>1. CASE WriteTmp \/ AlreadyPointed \/ PointerFails
    BY <1>1
    DEF WriteTmp, AlreadyPointed, PointerFails, files, memory, Same, Shown, Offered,
      Visible, Exists
  <1>2. CASE SweepStep \/ Swept
    <2>1. current # NONE /\ current \in Numbers /\ current \notin doomed
      BY <1>2 DEF SweepStep, Swept, BeforeCurrent, TypeOK
    <2>2. gens'[current] = gens[current]
      <3>1. CASE SweepStep
        BY <2>1, <3>1, DeleteStepEffect DEF SweepStep, TypeOK
      <3>2. CASE Swept
        BY <2>1, <3>2 DEF Swept, TypeOK
      <3> QED
        BY <1>2, <3>1, <3>2
    <2>3. current' = current /\ builder' = builder /\ plan' = plan
      BY <1>2 DEF SweepStep, Swept, memory
    <2> QED
      BY <2>1, <2>2, <2>3, ShownSame, OfferedSame DEF Same
  <1>3. CASE Publish
    <2>1. Offered = NONE /\ Offered' = NONE
      BY <1>3 DEF Publish, Offered, BuilderIsApart
    <2> QED
      BY <1>3, <2>1 DEF Publish, files, Same, Shown, Visible, Exists
  <1> QED
    BY <1>1, <1>2, <1>3, RenameSwitches DEF Pointing

LEMMA RestoringRefines ==
    ASSUME SwitchInv, SwitchInv', Restoring
    PROVE  Promise!Offer \/ Promise!Drop \/ Same
  <1> USE NoneIsApart DEF SwitchInv
  <1>1. current # NONE /\ current \in Numbers /\ current' = current
    BY DEF Restoring, BeginNext, Fill, Complete, Abandon, Activate, DiscardStep,
      Discarded, files, BeforeCurrent, TypeOK
  <1>2. CASE BeginNext
    <2>1. PICK n \in Numbers : /\ ~Exists(n) /\ builder' = n
                               /\ gens' = [gens EXCEPT ![n] = EmptyDir]
      BY <1>2 DEF BeginNext, FirstFree
    <2>2. n # current
      BY <1>1, <2>1 DEF Whole, IsComplete
    <2>3. gens'[current] = gens[current]
      BY <1>1, <2>1, <2>2 DEF TypeOK
    <2>4. Shown' = Shown
      BY <1>1, <2>3, ShownSame
    <2>5. Offered = NONE /\ Offered' = plan'
      BY <1>1, <1>2, <2>1, <2>2 DEF BeginNext, Offered, TypeOK, Restores
    <2>6. plan' \in Promise!DataSets
      BY DEF TypeOK, Promise!DataSets, DataSets
    <2> QED
      BY <2>4, <2>5, <2>6 DEF Promise!Offer
  <1>3. CASE Fill \/ Complete \/ Abandon \/ Activate \/ DiscardStep \/ Discarded
    <2>1. builder \in Numbers /\ Exists(builder) /\ builder # current
      BY <1>3
      DEF Fill, Complete, Abandon, Activate, DiscardStep, Discarded, BuilderIsApart, TypeOK
    <2>2. gens'[current] = gens[current]
      <3>1. CASE DiscardStep
        BY <1>1, <2>1, <3>1, DeleteStepEffect DEF DiscardStep
      <3>2. CASE Fill
        BY <1>1, <2>1, <3>2 DEF Fill, TypeOK
      <3>3. CASE Complete
        BY <1>1, <2>1, <3>3 DEF Complete, TypeOK
      <3>4. CASE Discarded
        BY <1>1, <2>1, <3>4 DEF Discarded, TypeOK
      <3> QED
        BY <1>3, <3>1, <3>2, <3>3, <3>4 DEF Abandon, Activate, files
    <2>3. Shown' = Shown
      BY <1>1, <2>2, ShownSame
    <2>4. CASE Discarded
      <3>1. Offered = plan /\ plan # NONE /\ Offered' = NONE
        BY <2>1, <2>4 DEF Discarded, Offered, TypeOK
      <3> QED
        BY <2>3, <3>1 DEF Promise!Drop
    <2>5. CASE ~Discarded
      <3>1. builder' = builder /\ plan' = plan
        BY <1>3, <2>5 DEF Fill, Complete, Abandon, Activate, DiscardStep, memory
      <3> QED
        BY <1>1, <2>3, <3>1, OfferedSame DEF Same
    <2> QED
      BY <2>4, <2>5
  <1> QED
    BY <1>2, <1>3 DEF Restoring

\* The death of the process drops what was being built.
LEMMA DyingDrops ==
    ASSUME SwitchInv, SwitchInv', Crash \/ PowerLoss PROVE Promise!Drop \/ Same
  <1> USE NoneIsApart, GenerationsAssumption DEF SwitchInv
  <1>1. builder' = NONE /\ current' = current /\ flat' = flat
    BY DEF Crash, PowerLoss, Dies, files
  <1>2. \A n \in Numbers : /\ Exists(n)' <=> Exists(n)
                           /\ Exists(n) => gens'[n].files = gens[n].files
    BY PowerLossEffect DEF Crash, files, Exists
  <1>3. Shown' = Shown
    <2>1. CASE current = NONE
      BY <1>1, <1>2, <2>1, ShownFlat DEF Numbers
    <2>2. CASE current # NONE
      <3>1. current \in Numbers /\ Exists(current)
        BY <2>2 DEF TypeOK, Whole, IsComplete
      <3> QED
        BY <1>1, <1>2, <2>2, <3>1, ShownSame
    <2> QED
      BY <2>1, <2>2
  <1>4. Offered' = NONE
    BY <1>1 DEF Offered
  <1> QED
    BY <1>3, <1>4 DEF Promise!Drop, Same

LEMMA StepRefines ==
    ASSUME SwitchInv, SwitchInv', [Next]_vars
    PROVE  [Promise!Next]_<<Shown, Offered>>
  <1>1. CASE UNCHANGED vars
    BY <1>1 DEF vars, Shown, Offered, Visible, Exists
  <1> QED
    BY <1>1, OpeningShowsSame, PointingRefines, RestoringRefines, DyingDrops
    DEF Next, Promise!Next, Same

\* Through adoption, crashes between any two file operations, refused deletes
\* and failed pointer writes, the phone shows one whole data set: the one it
\* had, or the one a restore finished building.
THEOREM SwitchAtomic == Gentle => (Spec => SwitchIsAtomic)
  <1> SUFFICES ASSUME Gentle PROVE Spec => SwitchIsAtomic
    OBVIOUS
  <1>1. Spec => []SwitchInv
    BY SwitchInvHolds
  <1> QED
    BY <1>1, InitRefines, StepRefines, PTL DEF Spec, SwitchIsAtomic, Promise!Spec, Promise!vars

\* A directory of data is the live one, the builder of the restore that runs,
\* still to be swept, or one whose removal the system has refused.
Accounted ==
    /\ \/ pc \in {"ready", "fill", "built", "discard"}
       \/ pc \in {"point", "rename"} /\ builder # NONE
       => \A n \in Numbers : Exists(n) /\ n # current /\ n # builder => n \in refused
    /\ pc = "sweep" =>
         \A n \in Numbers : Exists(n) /\ n # current => n \in doomed \cup refused

LEMMA SweepingAccounts ==
    ASSUME SwitchInv, Accounted, Pointing PROVE Accounted'
  <1> USE NoneIsApart DEF SwitchInv
  <1>1. CASE WriteTmp \/ PointerFails
    <2>1. /\ pc \in {"point", "rename"} /\ pc' \in {"rename", "failed", "discard"}
          /\ pc' # "failed" /\ pc' # "rename" => builder # NONE
      BY <1>1 DEF WriteTmp, PointerFails
    <2>2. UNCHANGED <<gens, current, builder, refused>>
      BY <1>1 DEF WriteTmp, PointerFails, memory
    <2> QED
      BY <2>1, <2>2 DEF Accounted, Exists
  <1>2. CASE AlreadyPointed \/ Rename
    <2>1. /\ pc' = "sweep" /\ current' = target /\ doomed' = Others(target)
          /\ UNCHANGED gens
      BY <1>2 DEF AlreadyPointed, Rename, files
    <2> QED
      BY <2>1 DEF Accounted, Exists, Others
  <1>3. CASE SweepStep
    <2>1. PICK n \in doomed : DeleteStep(n)
      BY <1>3 DEF SweepStep
    <2>2. pc = "sweep" /\ pc' = pc /\ current' = current /\ doomed' = doomed
          /\ refused' = refused
      BY <1>3 DEF SweepStep, memory
    <2>3. \A m \in Numbers : Exists(m)' => Exists(m)
      BY <2>1, <2>2, DeleteStepEffect DEF TypeOK, Exists
    <2> QED
      BY <2>2, <2>3 DEF Accounted
  <1>4. CASE Swept
    <2>1. PICK n \in doomed :
            /\ doomed' = doomed \ {n}
            /\ \/ gens' = [gens EXCEPT ![n] = NONE] /\ UNCHANGED refused
               \/ refused' = refused \cup {n} /\ UNCHANGED gens
      BY <1>4 DEF Swept
    <2>2. pc = "sweep" /\ pc' = pc /\ current' = current
      BY <1>4 DEF Swept
    <2>3. \A m \in Numbers : Exists(m)' =>
            Exists(m) /\ (m \in doomed => m \in doomed' \cup refused')
      BY <2>1 DEF Exists, TypeOK
    <2> QED
      BY <2>1, <2>2, <2>3 DEF Accounted
  <1>5. CASE Publish
    BY <1>5 DEF Publish, Accounted, Exists, files
  <1> QED
    BY <1>1, <1>2, <1>3, <1>4, <1>5 DEF Pointing

LEMMA RestoringAccounts ==
    ASSUME SwitchInv, Accounted, Restoring PROVE Accounted'
  <1> USE NoneIsApart DEF SwitchInv
  <1>1. CASE BeginNext
    <2>1. PICK n \in Numbers : gens' = [gens EXCEPT ![n] = EmptyDir] /\ builder' = n
      BY <1>1 DEF BeginNext
    <2>2. pc = "ready" /\ pc' = "fill" /\ current' = current /\ refused' = refused
      BY <1>1 DEF BeginNext
    <2>3. builder = NONE
      BY <2>2 DEF TypeOK, Restores
    <2>4. \A m \in Numbers : m # n => gens'[m] = gens[m]
      BY <2>1 DEF TypeOK
    <2> QED
      BY <2>1, <2>2, <2>3, <2>4 DEF Accounted, Exists
  <1>2. CASE Fill \/ Complete \/ DiscardStep
    <2>1. /\ pc \in {"fill", "discard"} /\ builder \in Numbers /\ Exists(builder)
          /\ pc' \in {"fill", "built", "discard"}
      BY <1>2 DEF Fill, Complete, DiscardStep, TypeOK, BuilderIsApart
    <2>2. \A m \in Numbers : m # builder => gens'[m] = gens[m]
      BY <1>2, <2>1, DeleteStepEffect DEF Fill, Complete, DiscardStep, TypeOK
    <2>3. current' = current /\ builder' = builder /\ refused' = refused
      BY <1>2 DEF Fill, Complete, DiscardStep, memory
    <2> QED
      BY <2>1, <2>2, <2>3 DEF Accounted, Exists
  <1>3. CASE Abandon \/ Activate
    BY <1>3 DEF Abandon, Activate, Accounted, Exists, files, memory,
                TypeOK, Restores
  <1>4. CASE Discarded
    BY <1>4 DEF Discarded, Accounted, Exists, TypeOK
  <1> QED
    BY <1>1, <1>2, <1>3, <1>4 DEF Restoring

LEMMA StepAccounts ==
    ASSUME SwitchInv, Accounted, [Next]_vars PROVE Accounted'
  <1>1. CASE UNCHANGED vars
    BY <1>1 DEF vars, Accounted, Exists
  <1>2. CASE Opening
    <2>1. pc' \notin {"ready", "fill", "built", "discard", "rename", "sweep"}
      BY <1>2 DEF Opening, Start, Adopt, Move, Adopted, Choose, ChooseFresh,
                  CompleteFresh, AdoptFails, Restart
    <2>2. pc' = "point" => builder' = NONE
      BY <1>2 DEF Opening, Start, Adopt, Move, Adopted, Choose, ChooseFresh,
                  CompleteFresh, AdoptFails, Restart, SwitchInv, TypeOK,
                  Restores, memory
    <2> QED
      BY <2>1, <2>2 DEF Accounted
  <1>3. CASE Crash \/ PowerLoss
    BY <1>3 DEF Crash, PowerLoss, Dies, Accounted
  <1> QED
    BY <1>1, <1>2, <1>3, SweepingAccounts, RestoringAccounts DEF Next

\* Once the app runs no second copy of the catalogue is left behind, but for
\* the directories the system has refused to remove since it started.
THEOREM NoCopyLingers == Gentle => (Spec => []NoSecondCopy)
  <1> SUFFICES ASSUME Gentle PROVE Spec => []NoSecondCopy
    OBVIOUS
  <1>1. Spec => []SwitchInv
    BY SwitchInvHolds
  <1>2. Init => Accounted
    BY DEF Init, Accounted
  <1>3. SwitchInv /\ Accounted => NoSecondCopy
    BY NoneIsApart DEF SwitchInv, TypeOK, Accounted, NoSecondCopy, Restores
  <1> QED
    BY <1>1, <1>2, <1>3, StepAccounts, PTL DEF Spec

\* What the app serves is the whole data set CURRENT names: a clean-up that
\* fails after the rename leaves no memory of the old paths.
THEOREM MemoryIsCurrent == Gentle => (Spec => []ServesCurrent)
  <1>1. SwitchInv => ServesCurrent
    BY DEF SwitchInv
  <1> QED
    BY <1>1, SwitchInvHolds, PTL

\* Every variable keeps its type; only a running restore remembers a builder.
THEOREM TypesHold == Gentle => (Spec => []TypeOK)
  <1>1. SwitchInv => TypeOK
    BY DEF SwitchInv
  <1> QED
    BY <1>1, SwitchInvHolds, PTL
=============================================================================
