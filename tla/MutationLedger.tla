--------------------------- MODULE MutationLedger ---------------------------
(***************************************************************************)
(* What a journaled sync target is promised (the contract of doMutation in *)
(* internal/syncer/retry.go): a request whose effect is not known is never *)
(* followed by another request for the same key, and the target's secrets  *)
(* change through requests only.                                           *)
(***************************************************************************)
CONSTANTS Key, Secret
VARIABLES remote,   \* the secrets of the target
          unknown   \* keys with a request that nobody has acknowledged

Init == remote \in [Key -> Secret] /\ unknown = {}

\* Requests for the keys K: each may or may not be applied.
Attempt(K) ==
    /\ K \cap unknown = {}
    /\ unknown' = unknown \cup K
    /\ remote' \in [Key -> Secret]
    /\ \A k \in Key \ K : remote'[k] = remote[k]

\* The effect of the requests for K is recorded durably.
Confirm(K) ==
    /\ unknown' = unknown \ K
    /\ UNCHANGED remote

Next == \E K \in SUBSET Key : Attempt(K) \/ Confirm(K)

Spec == Init /\ [][Next]_<<remote, unknown>>
=============================================================================
