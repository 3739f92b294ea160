--------------------------- MODULE MCAsyncServer ----------------------------
(* Slots of the task slab and of the registration slab are interchangeable *)
(* (the order of events follows the indices of Poll::items, which are      *)
(* numbers): TLC need not tell them apart in runs that check safety.       *)
EXTENDS AsyncServer, TLC

SlotSymmetry == Permutations(TaskId) \cup Permutations(Key)
=============================================================================
