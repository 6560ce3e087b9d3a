---------------------------- MODULE AtomicRestore ----------------------------
(***************************************************************************)
(* What a restore promises (M02): the phone shows one data set; a restore  *)
(* offers another, whole, and either drops it or switches to it in one     *)
(* step. Nothing else ever changes what the phone shows.                   *)
(***************************************************************************)
CONSTANTS Leaves, Contents, NONE

VARIABLES data, offered

vars == <<data, offered>>

DataSets == [Leaves -> Contents]

Init == data \in DataSets /\ offered = NONE

Offer == offered = NONE /\ offered' \in DataSets /\ UNCHANGED data

Drop == offered # NONE /\ offered' = NONE /\ UNCHANGED data

Switch == offered # NONE /\ data' = offered /\ offered' = NONE

Next == Offer \/ Drop \/ Switch

Spec == Init /\ [][Next]_vars
=============================================================================
