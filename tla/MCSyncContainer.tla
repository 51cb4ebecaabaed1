--------------------------- MODULE MCSyncContainer ---------------------------
(* Model values of SyncContainer for TLC. *)
EXTENDS SyncContainer, TLC

\* The slots of the onStop calls are interchangeable.
CallSymmetry == Permutations(Call)
=============================================================================
