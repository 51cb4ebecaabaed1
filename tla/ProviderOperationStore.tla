----------------------- MODULE ProviderOperationStore -----------------------
(***************************************************************************)
(* The transactions of DurableProviderOperationStore                       *)
(* (hub/src/provider-operation-store.ts) as operators on the stored state. *)
(* A store is a record of                                                  *)
(*   op        the operation records, NoOperation where there is none      *)
(*   fence     per target, the operation that holds it                     *)
(*   outcome   the write-once outcome of each invocation                   *)
(*   consumed  the control decisions that were applied                     *)
(*   last      per target, the newest last-success record                  *)
(* A request stands for all the fields of ProviderOperationStart.  The     *)
(* watchdog visits the active index and a listing of every record, so the  *)
(* index itself has no effect and is left out, as are failure codes and    *)
(* the timestamps nobody reads.  Dropped and unknown responses have the    *)
(* same effect and are both "unknown".                                     *)
(***************************************************************************)
EXTENDS Naturals, FiniteSets

CONSTANTS Request,      \* records [id, target, capability, deadline, source]
          Invocation,   \* numbers
          Nonce,        \* nonces of signed control decisions
          None

Operation == {r.id : r \in Request}

Target == {r.target : r \in Request}

\* The source of a request is a version of a parameter; gen stands for the
\* parameter together with the lifecycle label, the operation's generation.
SourceGeneration == {r.source.gen : r \in Request}

ProviderOperationCapability ==
    {"native_cas", "enforced_exclusive", "owner_risk_gate", "blocked"}

\* What is assumed of the constants.
StoreConstants ==
    /\ \A r \in Request : /\ r.capability \in ProviderOperationCapability
                          /\ r.deadline \in Nat /\ r.source.version \in Nat
    /\ Invocation \subseteq Nat
    /\ None \notin Nat \cup Nonce \cup Operation

ProviderControlAction ==
    {"cancel", "replay_once", "confirm_applied", "confirm_not_applied", "supersede"}

Terminal == {"succeeded", "failed", "cancelled", "superseded"}

ProviderOperationStatus ==
    {"prepared", "dispatching", "awaiting_verification", "cancel_requested",
     "needs_reconciliation", "cancel_needs_reconciliation"} \cup Terminal

StateOID == Nat \cup {None}

\* promoted: current_generation_ref names the intended generation.
ProviderOperationRecord ==
    [req : Request, status : ProviderOperationStatus, inv : Invocation \cup {None},
     attempt : Nat, oid : StateOID, promoted : BOOLEAN]

NoOperation == [status |-> "none"]

\* passed: both the canary and the postconditions.
ProviderDispatchResponse ==
    [status : {"committed", "rejected", "unknown"}, oid : StateOID, passed : BOOLEAN]

Consumption == [id : Operation, action : ProviderControlAction, nonce : Nonce]

Store == [op       : [Operation -> ProviderOperationRecord \cup {NoOperation}],
          fence    : [Target -> Operation \cup {None}],
          outcome  : [Operation -> [Invocation -> ProviderDispatchResponse \cup {None}]],
          consumed : SUBSET Consumption,
          last     : [Target -> Operation \cup {None}]]

EmptyStore == [op       |-> [o \in Operation |-> NoOperation],
               fence    |-> [t \in Target |-> None],
               outcome  |-> [o \in Operation |-> [i \in Invocation |-> None]],
               consumed |-> {},
               last     |-> [t \in Target |-> None]]

Known(s, o) == s.op[o].status # "none"

unresolved(s, o) == Known(s, o) /\ s.op[o].status \notin Terminal

\* A call answers with a token and leaves a store.
Answer(status, s) == [status |-> status, store |-> s]

releaseFence(fence, t, o) == [fence EXCEPT ![t] = IF @ = o THEN None ELSE @]

\* Faulty variant: the fence is never given up.
Put_keepsFence(s, o, rec) == [s EXCEPT !.op[o] = rec]

\* Store the record of o and, when it is terminal, give up the fence.
Put(s, o, rec) ==
    [s EXCEPT !.op[o]  = rec,
              !.fence = IF rec.status \in Terminal
                        THEN releaseFence(@, rec.req.target, o)
                        ELSE @]

-----------------------------------------------------------------------------
(* start and claim *)

\* The caller names the generation that is current before the operation; a
\* success replaces it in the record.
sameStart(rec, r) == rec.req = r /\ ~rec.promoted

NewOperation(r) == [req |-> r, status |-> "prepared", inv |-> None, attempt |-> 0,
                    oid |-> None, promoted |-> FALSE]

\* Faulty variant: only an operation in flight holds its target.
Fenced_inFlight(s, r) ==
    /\ s.fence[r.target] # None
    /\ s.op[s.fence[r.target]].status \in {"prepared", "dispatching", "cancel_requested"}

Fenced(s, r) == s.fence[r.target] # None /\ unresolved(s, s.fence[r.target])

start(s, r) ==
    CASE Known(s, r.id) ->
             Answer(IF sameStart(s.op[r.id], r) THEN "existing" ELSE "conflict", s)
      [] ~Known(s, r.id) /\ Fenced(s, r) -> Answer("fenced", s)
      [] OTHER -> Answer("prepared", [s EXCEPT !.op[r.id] = NewOperation(r),
                                               !.fence[r.target] = r.id])

\* Faulty variant: an operation whose claim was lost is claimed again.
claim_again(s, o, i, now) ==
    LET rec == s.op[o]
    IN  IF rec.status \in {"prepared", "dispatching"} /\ now < rec.req.deadline
        THEN Answer("claimed", Put(s, o, [rec EXCEPT !.status = "dispatching", !.inv = i,
                                                     !.attempt = @ + 1]))
        ELSE Answer("none", s)

claim(s, o, i, now) ==
    LET rec == s.op[o]
    IN  CASE rec.status # "prepared" -> Answer("none", s)
          [] /\ rec.status = "prepared"
             /\ rec.req.capability = "blocked" \/ now >= rec.req.deadline ->
                 Answer("none", Put(s, o, [rec EXCEPT !.status = "failed"]))
          [] OTHER ->
                 Answer("claimed", Put(s, o, [rec EXCEPT !.status = "dispatching", !.inv = i,
                                                         !.attempt = @ + 1]))

-----------------------------------------------------------------------------
(* recordOutcome *)

\* Faulty variant: a commit is believed although the owner cancelled.
OutcomeStatus_commitWins(rec, response, now) ==
    CASE response.status = "rejected" ->
             IF rec.status = "cancel_requested" THEN "cancelled" ELSE "failed"
      [] response.status = "committed" /\ now < rec.req.deadline -> "awaiting_verification"
      [] OTHER -> "needs_reconciliation"

OutcomeStatus(rec, response, now) ==
    CASE response.status = "rejected" ->
             IF rec.status = "cancel_requested" THEN "cancelled" ELSE "failed"
      [] response.status # "rejected" /\ rec.status = "cancel_requested" ->
             "cancel_needs_reconciliation"
      [] /\ response.status = "committed" /\ rec.status # "cancel_requested"
         /\ now < rec.req.deadline -> "awaiting_verification"
      [] OTHER -> "needs_reconciliation"

\* Faulty variant: a second answer for an invocation replaces the first.
recordOutcome_overwrite(s, o, i, response, now) ==
    IF s.op[o].inv # i THEN Answer("mismatch", s)
    ELSE Answer("recorded",
                Put([s EXCEPT !.outcome[o][i] = response], o,
                    [s.op[o] EXCEPT !.status = OutcomeStatus(s.op[o], response, now),
                                    !.inv    = None]))

recordOutcome(s, o, i, response, now) ==
    LET rec   == s.op[o]
        known == s.outcome[o][i]
    IN  CASE known # None -> Answer(IF known = response THEN "recorded" ELSE "conflict", s)
          [] /\ known = None
             /\ rec.inv # i \/ rec.status \notin {"dispatching", "cancel_requested"} ->
                 Answer("mismatch", s)
          [] OTHER ->
                 Answer("recorded",
                        Put([s EXCEPT !.outcome[o][i] = response], o,
                            [rec EXCEPT !.status = OutcomeStatus(rec, response, now),
                                        !.inv    = None,
                                        !.oid    = IF response.oid # None
                                                   THEN response.oid ELSE @]))

-----------------------------------------------------------------------------
(* applyDecision.  A decision is signed for one operation and one observed *)
(* state; it is presented within its validity.                             *)

Decision == [id : Operation, action : ProviderControlAction, oid : StateOID,
             nonce : Nonce, approval : Nonce \cup {None}]

validateDecisionBinding(rec, d) ==
    \/ d.oid = rec.oid
    \/ d.action = "confirm_applied" /\ rec.oid = None /\ d.oid # None

Approved(rec, d) ==
    IF rec.req.capability = "owner_risk_gate"
    THEN d.action # "cancel" => d.approval = d.nonce
    ELSE d.approval = None

Unused(s, d) == \A c \in s.consumed : c.nonce # d.nonce

\* The status the decision leads to; None when it is rejected.
applyCancelDecision(status) ==
    CASE status = "prepared" -> "cancelled"
      [] status \in {"dispatching", "awaiting_verification"} -> "cancel_requested"
      [] status = "needs_reconciliation" -> "cancel_needs_reconciliation"
      [] status \in Terminal -> None
      [] OTHER -> status

applyDecisionTransition(rec, d) ==
    CASE d.action = "cancel" -> applyCancelDecision(rec.status)
      [] /\ d.action = "replay_once" /\ rec.status = "needs_reconciliation"
         /\ rec.req.capability \in {"enforced_exclusive", "owner_risk_gate"} -> "prepared"
      [] /\ d.action = "confirm_applied" /\ rec.status = "needs_reconciliation"
         /\ rec.req.capability \in {"native_cas", "owner_risk_gate"}
         /\ d.oid # None -> "awaiting_verification"
      [] /\ d.action = "confirm_not_applied"
         /\ rec.req.capability \in {"native_cas", "owner_risk_gate"}
         /\ rec.status = "needs_reconciliation" -> "failed"
      [] /\ d.action = "confirm_not_applied"
         /\ rec.req.capability \in {"native_cas", "owner_risk_gate"}
         /\ rec.status = "cancel_needs_reconciliation" -> "cancelled"
      [] /\ d.action = "supersede"
         /\ rec.status \in {"needs_reconciliation", "cancel_needs_reconciliation"} ->
             "superseded"
      [] OTHER -> None

Accepts(s, d) ==
    /\ Known(s, d.id)
    /\ validateDecisionBinding(s.op[d.id], d)
    /\ Unused(s, d)
    /\ Approved(s.op[d.id], d)
    /\ applyDecisionTransition(s.op[d.id], d) # None

applyDecision(s, d) ==
    LET rec == s.op[d.id]
    IN  Put([s EXCEPT !.consumed = @ \cup {[id |-> d.id, action |-> d.action,
                                            nonce |-> d.nonce]}],
            d.id,
            [rec EXCEPT !.status = applyDecisionTransition(rec, d),
                        !.inv    = IF d.action = "cancel" THEN @ ELSE None,
                        !.oid    = IF d.action = "confirm_applied" THEN d.oid ELSE @])

-----------------------------------------------------------------------------
(* verify and watchdog *)

\* Faulty variant: the provider's acknowledgement is taken for the verification.
VerifiedStatus_unchecked(rec, v, now) ==
    IF rec.status = "cancel_requested" THEN "cancel_needs_reconciliation"
    ELSE IF now >= rec.req.deadline THEN "needs_reconciliation" ELSE "succeeded"

VerifiedStatus(rec, v, now) ==
    CASE rec.status = "cancel_requested" -> "cancel_needs_reconciliation"
      [] /\ rec.status # "cancel_requested"
         /\ now >= rec.req.deadline \/ ~v.passed -> "needs_reconciliation"
      [] OTHER -> "succeeded"

\* Whether verify gets as far as judging; a terminal record is only returned.
Verifiable(rec, v) ==
    /\ rec.status \in {"awaiting_verification", "cancel_requested"}
    /\ rec.oid # None => rec.oid = v.oid

verify(s, o, v, now) ==
    LET rec      == s.op[o]
        status   == VerifiedStatus(rec, v, now)
        verified == Put(s, o, [rec EXCEPT !.status   = status,
                                          !.inv      = None,
                                          !.oid      = v.oid,
                                          !.promoted = (status = "succeeded")])
    IN  IF ~Verifiable(rec, v) THEN s
        ELSE IF status = "succeeded"
             THEN [verified EXCEPT !.last[rec.req.target] = o]
             ELSE verified

\* An operation that waits for reconciliation waits past its deadline.
Overdue(s, o, now) ==
    /\ s.op[o].status \in {"prepared", "dispatching", "awaiting_verification",
                           "cancel_requested"}
    /\ now >= s.op[o].req.deadline

\* Faulty variant: a claimed operation past its deadline is failed as well.
WatchdogStatus_fails(status) ==
    CASE status \in {"prepared", "dispatching"} -> "failed"
      [] status = "awaiting_verification" -> "needs_reconciliation"
      [] status = "cancel_requested" -> "cancel_needs_reconciliation"

WatchdogStatus(status) ==
    CASE status = "prepared" -> "failed"
      [] status \in {"dispatching", "awaiting_verification"} -> "needs_reconciliation"
      [] status = "cancel_requested" -> "cancel_needs_reconciliation"

Expires(s, o, now) == Overdue(s, o, now) /\ WatchdogStatus(s.op[o].status) = "failed"

watchdog(s, now) ==
    [s EXCEPT !.op = [o \in Operation |->
                          IF Overdue(s, o, now)
                          THEN [s.op[o] EXCEPT !.status = WatchdogStatus(@), !.inv = None]
                          ELSE s.op[o]],
              !.fence = [t \in Target |->
                            IF \E o \in Operation : s.fence[t] = o /\ Expires(s, o, now)
                            THEN None ELSE s.fence[t]]]

\* The deadlines the watchdog still has to wait for.
Awaited(s, now) ==
    {s.op[o].req.deadline : o \in {p \in Operation : unresolved(s, p) /\ now < s.op[p].req.deadline}}
=============================================================================
