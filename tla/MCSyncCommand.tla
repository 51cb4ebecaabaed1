--------------------------- MODULE MCSyncCommand ---------------------------
(* Model-checking instances of SyncCommand. *)
EXTENDS SyncCommand, TLC

Symmetry == Permutations(Proc) \cup Permutations(Value) \cup Permutations(Key)
=============================================================================
