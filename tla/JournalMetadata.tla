--------------------------- MODULE JournalMetadata ---------------------------
(***************************************************************************)
(* Operations of the sync journal that carry generation metadata: keys     *)
(* acknowledged by the target keep their generation and envelope           *)
(* references until the canary and the postconditions have passed, and an  *)
(* ambiguous target needs the owner's approval first.  Plain operations    *)
(* run on the same journal.  Any caller may call any operation at any      *)
(* time, with the current operation's id; every call that does not fail    *)
(* is followed by a save.                                                  *)
(***************************************************************************)
EXTENDS Integers, FiniteSets, FiniteSetsExt, Sequences, SequencesExt

CONSTANTS JournalKeys,
          Hashes,            \* keyed hashes of secret values
          Capabilities,      \* of "cas", "exclusive", "owner_risk", "blocked"
          MaxOperations

VARIABLES journal,     \* the SyncState
          ephemeral,   \* the hash key is process-random
          late         \* the operation's deadline has passed

jmVars == <<journal, ephemeral, late>>

NoAck == "none"
NoOutcome == [status |-> "none", op |-> 0, meta |-> FALSE, cap |-> "cas", promoted |-> FALSE,
              rec |-> "", canary |-> "pending", post |-> "pending", ack |-> NoAck]

MetadataInit ==
  /\ journal = [op |-> 0, phase |-> "", outs |-> [k \in JournalKeys |-> NoOutcome],
                cached |-> [k \in JournalKeys |-> NoAck]]
  /\ ephemeral \in BOOLEAN
  /\ late = FALSE

Owned(s) == {k \in JournalKeys : s.outs[k].op = s.op /\ s.op # 0}

-----------------------------------------------------------------------------
(* Predicates on one outcome. *)

verificationPassed(o) == o.canary = "passed" /\ o.post = "passed"
verificationFailed(o) == o.canary = "failed" \/ o.post = "failed"
ownerRiskApproved(o) == o.meta /\ o.cap = "owner_risk" /\ o.rec = "approved"
reconciliationStateFor(cap) == IF cap = "owner_risk" THEN "owner_risk_required" ELSE "pending"

(* validatePersisted: what an outcome with metadata may look like.  The    *)
(* retained references are those of an outcome that is not promoted.       *)
validatePersisted(o) ==
  o.meta =>
    /\ o.canary # "passed" => o.post = "pending"
    /\ o.promoted => o.status = "succeeded" /\ verificationPassed(o)
    /\ ~o.promoted /\ o.status = "pending" => o.canary = "pending"
    /\ CASE o.rec = ""                    -> ~(o.cap = "owner_risk" /\ o.status = "needs_reconciliation")
         [] o.rec = "pending"             -> o.cap # "owner_risk" /\ o.status = "needs_reconciliation"
         [] o.rec = "owner_risk_required" -> o.cap = "owner_risk" /\ o.status = "needs_reconciliation"
         [] o.rec = "approved"            -> o.cap = "owner_risk" /\ o.status # "pending"
    /\ ~(o.cap = "blocked" /\ o.status = "succeeded")

(* What LoadSyncState and SaveSyncState require of the whole journal.      *)
validatePersistedOperationMetadata(s) ==
  /\ \A k \in JournalKeys :
       LET o == s.outs[k] IN
       /\ ~o.meta => o.ack = NoAck
       /\ validatePersisted(o)
       /\ o.meta /\ ~o.promoted => o.op = s.op
       /\ o.meta /\ o.op = s.op =>
            CASE s.phase = "succeeded" -> o.promoted /\ o.ack = NoAck
              [] s.phase = "awaiting_verification" ->
                   o.status = "succeeded" /\ ~o.promoted /\ o.ack # NoAck /\ ~verificationFailed(o)
              [] OTHER -> ~o.promoted
  /\ s.phase = "awaiting_verification" => \E k \in Owned(s) : s.outs[k].meta

Ambiguous(o) ==
  [o EXCEPT !.status = "needs_reconciliation",
            !.rec = IF o.meta THEN reconciliationStateFor(o.cap) ELSE @]

-----------------------------------------------------------------------------
(* The operations, as functions of the journal. *)

operationPending(s) ==
  s.op # 0 /\ (\/ s.phase \in {"pending", "awaiting_verification"}
               \/ \E k \in Owned(s) : s.outs[k].status = "pending")

(* Faulty variant: an operation whose verification failed may be replaced. *)
hasRetainedMetadataOperation_running(s) ==
  operationPending(s) /\ \E k \in Owned(s) : s.outs[k].meta /\ ~s.outs[k].promoted

hasRetainedMetadataOperation(s) ==
  s.op # 0 /\ s.phase # "succeeded" /\ \E k \in Owned(s) : s.outs[k].meta /\ ~s.outs[k].promoted

Begun(s, keys, meta, cap) ==
  LET settled == [k \in JournalKeys |->
                    IF operationPending(s) /\ k \in Owned(s) /\ s.outs[k].status = "pending"
                    THEN Ambiguous(s.outs[k]) ELSE s.outs[k]]
      fresh == [NoOutcome EXCEPT !.status = "pending", !.op = s.op + 1, !.meta = meta,
                                 !.cap = IF meta THEN cap ELSE @]
  IN  [s EXCEPT !.op = @ + 1, !.phase = "pending",
                !.outs = [k \in JournalKeys |-> IF k \in keys THEN fresh ELSE settled[k]]]

rejectCapability(s, k) ==
  IF s.outs[k].status = "needs_reconciliation" THEN s
  ELSE [s EXCEPT !.outs[k] = Ambiguous(s.outs[k]), !.phase = "needs_reconciliation"]

(* recordKeySuccess: whether the call fails, and the journal after it.     *)
recordKeySuccess(s, k, h) ==
  LET o == s.outs[k]
      refused == o.meta /\ (late \/ o.cap = "blocked" \/ (o.cap = "owner_risk" /\ ~ownerRiskApproved(o)))
      done == [o EXCEPT !.status = "succeeded", !.ack = IF o.meta THEN h ELSE @]
  IN
  CASE k \notin Owned(s) \/ ~validatePersisted(o) -> [err |-> TRUE, s |-> s]
    [] k \in Owned(s) /\ validatePersisted(o) /\ o.status = "succeeded" ->
         IF ~o.meta \/ o.ack = h THEN [err |-> FALSE, s |-> s]
         ELSE IF ephemeral THEN [err |-> FALSE, s |-> [s EXCEPT !.outs[k].ack = h]]
         ELSE [err |-> TRUE, s |-> s]
    [] OTHER ->
         IF refused THEN [err |-> TRUE, s |-> rejectCapability(s, k)]
         ELSE IF o.status = "needs_reconciliation" /\ ~ownerRiskApproved(o) THEN [err |-> TRUE, s |-> s]
         ELSE [err |-> FALSE,
               s |-> [s EXCEPT !.outs[k] = done, !.cached[k] = IF o.meta THEN @ ELSE h]]

outcomeCapabilityAllowsSuccess(o) ==
  ~o.meta \/ o.cap \in {"cas", "exclusive"} \/ ownerRiskApproved(o)

promoteMetadata(o) ==
  [o EXCEPT !.promoted = TRUE, !.ack = NoAck, !.rec = IF o.cap = "owner_risk" THEN @ ELSE ""]

(* Faulty variant: the keys that were verified are promoted, whatever the  *)
(* others wait for.                                                        *)
FinalizeOperation_each(s) ==
  LET own   == Owned(s)
      ready == {k \in own : s.outs[k].meta /\ s.outs[k].status = "succeeded" /\ ~verificationFailed(s.outs[k])}
  IN
  IF own = {} THEN s
  ELSE [s EXCEPT !.phase = IF ready = own THEN "succeeded" ELSE "pending",
                 !.cached = [k \in JournalKeys |-> IF k \in ready THEN s.outs[k].ack ELSE @[k]],
                 !.outs = [k \in JournalKeys |-> IF k \in ready THEN promoteMetadata(s.outs[k]) ELSE @[k]]]

(* FinalizeOperation: the phase follows from the owned outcomes; only when *)
(* all have succeeded and all are verified are the acknowledged hashes     *)
(* taken into the drift cache and the generations promoted.                *)
FinalizeOperation(s) ==
  LET own      == Owned(s)
      meta     == {k \in own : s.outs[k].meta}
      invalid  == \E k \in meta : \/ ~validatePersisted(s.outs[k])
                                  \/ s.outs[k].status = "succeeded" /\ ~s.outs[k].promoted /\ s.outs[k].ack = NoAck
      unfit    == {k \in own : s.outs[k].status = "succeeded" /\ ~outcomeCapabilityAllowsSuccess(s.outs[k])}
      outs     == [k \in JournalKeys |-> IF k \in unfit THEN Ambiguous(s.outs[k]) ELSE s.outs[k]]
      some(st) == \E k \in own : outs[k].status = st
      after(p) == [s EXCEPT !.outs = outs, !.phase = p]
  IN
  CASE invalid \/ own = {} \/ (meta # {} /\ meta # own) -> s
    [] ~invalid /\ own # {} /\ meta \in {{}, own}
         /\ (some("needs_reconciliation") \/ \E k \in meta : verificationFailed(s.outs[k]))
         -> after("needs_reconciliation")
    [] OTHER ->
         IF some("pending") THEN after("pending")
         ELSE IF meta # {} /\ \E k \in meta : ~verificationPassed(s.outs[k]) THEN after("awaiting_verification")
         ELSE IF s.phase = "succeeded" THEN after("succeeded")
         ELSE [s EXCEPT !.phase = "succeeded",
                        !.cached = [k \in JournalKeys |-> IF k \in meta THEN outs[k].ack ELSE @[k]],
                        !.outs = [k \in JournalKeys |-> IF k \in meta THEN promoteMetadata(outs[k]) ELSE outs[k]]]

validateBatch(s, keys, status) ==
  /\ keys # {} /\ keys \subseteq Owned(s)
  /\ \A k \in keys :
       /\ status = "succeeded" /\ s.outs[k].status = "needs_reconciliation" => ownerRiskApproved(s.outs[k])
       /\ status = "needs_reconciliation" => s.outs[k].status # "succeeded"

-----------------------------------------------------------------------------
(* The calls. *)

Saves(s) == journal' = s /\ UNCHANGED ephemeral

beginOperation ==
  /\ journal.op < MaxOperations /\ ~hasRetainedMetadataOperation(journal)
  /\ \E keys \in SUBSET JournalKeys, meta \in BOOLEAN, cap \in Capabilities :
       Saves(Begun(journal, keys, meta, cap))
  /\ late' = FALSE

RecordKeySuccess ==
  /\ \E k \in JournalKeys, h \in Hashes : Saves(recordKeySuccess(journal, k, h).s)
  /\ UNCHANGED late

(* RecordSuccess stops at the first key that fails, with the keys before   *)
(* it recorded; otherwise the operation is finalized.                      *)
RecordSuccess ==
  /\ \E order \in SetToAllKPermutations(JournalKeys), h \in Hashes :
       /\ validateBatch(journal, ToSet(order), "succeeded")
       /\ LET r == FoldLeft(LAMBDA acc, k : IF acc.err THEN acc ELSE recordKeySuccess(acc.s, k, h),
                            [err |-> FALSE, s |-> journal], order)
          IN  Saves(IF r.err THEN r.s ELSE FinalizeOperation(r.s))
  /\ UNCHANGED late

(* One key or, with RecordNeedsReconciliation, a batch of them.            *)
RecordNeedsReconciliation ==
  /\ \E keys \in SUBSET JournalKeys :
       /\ validateBatch(journal, keys, "needs_reconciliation")
       /\ \A k \in keys : validatePersisted(journal.outs[k])
       /\ Saves([journal EXCEPT
                     !.outs = [k \in JournalKeys |-> IF k \in keys /\ @[k].status = "pending"
                                                     THEN Ambiguous(@[k]) ELSE @[k]],
                     !.phase = IF \E k \in keys : journal.outs[k].status = "pending"
                               THEN "needs_reconciliation" ELSE @])
  /\ UNCHANGED late

ApproveOwnerRiskReconciliation ==
  /\ \E k \in Owned(journal) :
       LET o == journal.outs[k] IN
       /\ o.meta /\ o.status = "needs_reconciliation" /\ o.cap = "owner_risk" /\ validatePersisted(o)
       /\ Saves([journal EXCEPT !.outs[k].rec = "approved"])
  /\ UNCHANGED late

(* RecordOperationVerification: past the deadline nothing passes.          *)
RecordOperationVerification ==
  /\ journal.phase = "awaiting_verification"
  /\ Owned(journal) # {}
  /\ \A k \in Owned(journal) : journal.outs[k].status = "succeeded" /\ journal.outs[k].meta
                               /\ journal.outs[k].ack # NoAck
  /\ \E canary, post \in BOOLEAN :
       LET c  == canary /\ ~late
           p  == post /\ ~late
           verified(o) == [o EXCEPT !.canary = IF c THEN "passed" ELSE "failed",
                                    !.post = IF ~c THEN "pending" ELSE IF p THEN "passed" ELSE "failed"]
           s  == [journal EXCEPT !.outs = [k \in JournalKeys |->
                    IF k \notin Owned(journal) THEN @[k]
                    ELSE IF c /\ p THEN verified(@[k]) ELSE Ambiguous(verified(@[k]))]]
       IN  Saves(IF c /\ p THEN FinalizeOperation(s) ELSE [s EXCEPT !.phase = "needs_reconciliation"])
  /\ UNCHANGED late

Finalize == Saves(FinalizeOperation(journal)) /\ UNCHANGED late

DeadlinePasses == late' = TRUE /\ UNCHANGED <<journal, ephemeral>>

MetadataNext ==
  \/ beginOperation \/ RecordKeySuccess \/ RecordSuccess \/ RecordNeedsReconciliation
  \/ ApproveOwnerRiskReconciliation \/ RecordOperationVerification \/ Finalize \/ DeadlinePasses

-----------------------------------------------------------------------------
(* Properties. *)

(* Whatever sequence of calls built it, the journal passes the validation  *)
(* that the next save and the next load run on it: no legal call leads to  *)
(* a state file that locks its owner out.  (With a process-random hash key *)
(* see EphemeralReack.)                                                    *)
JournalStaysLoadable ==
  ~ephemeral => validatePersistedOperationMetadata(journal)

(* Repeating an acknowledgement under a process-random key does not make   *)
(* the journal fail.  It does not hold: the journal it leaves does not     *)
(* pass the validation of the next save.                                   *)
EphemeralReack == validatePersistedOperationMetadata(journal)

(* The generations of one operation are promoted together, after every one *)
(* of its keys was acknowledged and the canary and the postconditions      *)
(* passed within the deadline, and never for a blocked target or one whose *)
(* owner has not approved.                                                 *)
PromotionIsWhole ==
  \A k \in JournalKeys :
    journal.outs[k].meta /\ journal.outs[k].promoted =>
      /\ verificationPassed(journal.outs[k])
      /\ outcomeCapabilityAllowsSuccess(journal.outs[k])
      /\ \A j \in JournalKeys : journal.outs[j].op = journal.outs[k].op => journal.outs[j].promoted

(* The journal of metadata operations is always loadable and promotes an   *)
(* operation as a whole.                                                   *)
JournalIsSound == JournalStaysLoadable /\ PromotionIsWhole
=============================================================================
