---------------------------- MODULE SyncJournal ----------------------------
(***************************************************************************)
(* The durable journal of one sync target: the SyncState record of         *)
(* internal/syncer/state.go and the operations on it, for operations       *)
(* without metadata (the only ones the commands start).                    *)
(*                                                                         *)
(* A journal is a record of                                                *)
(*   domain   the hash-key generation its hashes belong to (HashDomain)    *)
(*   phase    Phase; "" stands for OperationID = "" as well, because the   *)
(*            two are always set and reset together                        *)
(*   hashes   the drift cache: the value last acknowledged, None if absent *)
(*            (HMAC is taken to be injective, so a hash is its value)      *)
(*   status   Outcomes[k].Status, "none" when the key has no outcome       *)
(*   owned    the keys whose outcome carries the current OperationID       *)
(* Operation ids are 128 random bits and are only ever compared with the   *)
(* current one, so "owned" is all that can be observed of them.            *)
(***************************************************************************)
EXTENDS Integers

CONSTANTS Key,     \* the source keys that survive the exclude list
          Value,   \* secret values
          None     \* no value

ASSUME NoneAssumption == None \notin Value

OutcomeStatus == {"pending", "succeeded", "needs_reconciliation"}

OperationPhase == {"pending", "succeeded", "needs_reconciliation"}

Journal == [domain : Nat,
            phase  : OperationPhase \cup {""},
            hashes : [Key -> Value \cup {None}],
            status : [Key -> OutcomeStatus \cup {"none"}],
            owned  : SUBSET Key]

EmptyState(d) == [domain |-> d,
                  phase  |-> "",
                  hashes |-> [k \in Key |-> None],
                  status |-> [k \in Key |-> "none"],
                  owned  |-> {}]

\* A missing file, a legacy file and a file of another hash key all load as
\* the empty state of the active key.
LoadSyncState(file, d) == IF file.domain = d THEN file ELSE EmptyState(d)

operationPending(s) ==
    s.phase = "pending" \/ \E k \in s.owned : s.status[k] = "pending"

\* The open outcomes of an operation that is replaced become ambiguous.
ReplacedStatus(s, k) ==
    IF operationPending(s) /\ k \in s.owned /\ s.status[k] = "pending"
      THEN "needs_reconciliation"
      ELSE s.status[k]

BeginOperation(s, secrets) ==
    [s EXCEPT !.phase  = "pending",
              !.owned  = secrets,
              !.status = [k \in Key |-> IF k \in secrets THEN "pending"
                                                         ELSE ReplacedStatus(s, k)]]

RecordKeySuccess(s, k, v) ==
    IF k \in s.owned /\ s.status[k] = "pending"
      THEN [s EXCEPT !.status[k] = "succeeded", !.hashes[k] = v]
      ELSE s

\* Faulty variant: a phase the journal does not know.
RecordKeyNeedsReconciliation_badPhase(s, k) ==
    IF k \in s.owned THEN [s EXCEPT !.status[k] = "needs_reconciliation", !.phase = "failed"] ELSE s

RecordKeyNeedsReconciliation(s, k) ==
    IF k \in s.owned /\ s.status[k] = "pending"
      THEN [s EXCEPT !.status[k] = "needs_reconciliation",
                     !.phase     = "needs_reconciliation"]
      ELSE s

FinalizeOperation(s) ==
    LET has(st) == \E k \in s.owned : s.status[k] = st
    IN  IF s.owned = {} THEN s
        ELSE [s EXCEPT !.phase = IF has("needs_reconciliation")
                                   THEN "needs_reconciliation"
                                   ELSE IF has("pending") THEN "pending"
                                                          ELSE "succeeded"]

\* The batch is validated as a whole before any key of it is recorded.
RecordSuccess(s, secrets, snapshot) ==
    IF \A k \in secrets : k \in s.owned /\ s.status[k] # "needs_reconciliation"
      THEN FinalizeOperation(
             [s EXCEPT !.status = [k \in Key |-> IF k \in secrets THEN "succeeded" ELSE @[k]],
                       !.hashes = [k \in Key |-> IF k \in secrets THEN snapshot[k] ELSE @[k]]])
      ELSE s

RecordNeedsReconciliation(s, secrets) ==
    IF \A k \in secrets : k \in s.owned /\ s.status[k] # "succeeded"
      THEN [s EXCEPT !.phase  = "needs_reconciliation",
                     !.status = [k \in Key |-> IF k \in secrets THEN "needs_reconciliation"
                                                                ELSE @[k]]]
      ELSE s

\* Faulty variant: only a recorded failure is ambiguous, a crash is not.
RequiresReconciliation_onlyFailed(s) == s.phase = "needs_reconciliation"

\* Faulty variant: only an interrupted operation is ambiguous.
RequiresReconciliation_onlyPending(s) ==
    s.phase = "pending" /\ \E k \in s.owned : s.status[k] # "succeeded"

RequiresReconciliation(s) ==
    /\ s.phase \notin {"", "succeeded"}
    /\ \/ s.phase = "needs_reconciliation"
       \/ \E k \in s.owned : s.status[k] # "succeeded"

\* The one recoverable interruption: every key of the open operation is
\* acknowledged and only the final save is missing.
syncStateNeedsRecovery(s) ==
    /\ s.phase = "pending"
    /\ s.owned # {}
    /\ \A k \in s.owned : s.status[k] = "succeeded"

FilterUnchanged(s, secrets, snapshot) == {k \in secrets : s.hashes[k] # snapshot[k]}
=============================================================================
