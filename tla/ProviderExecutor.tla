-------------------------- MODULE ProviderExecutor --------------------------
(***************************************************************************)
(* Provider operations end to end: the handlers that dispatch a write to a *)
(* target (executeProviderDispatchBody of hub/src/provider-executor.ts and *)
(* ProviderOperationCoordinator.run), the verification role, the owner's   *)
(* control decisions and the alarm of the object that keeps the store.     *)
(* Every call to the store is a step of its own and a handler may die      *)
(* between two of them.  A write, once sent, lands at any later time or    *)
(* never, whatever became of its sender.                                   *)
(***************************************************************************)
EXTENDS ProviderOperationStore, FiniteSetsExt

CONSTANTS Handler,    \* invocations of a dispatch handler
          Route,      \* "worker": the signed dispatch body; "coordinator"
          MaxTime     \* bound on the clock

ExecutorConstants ==
    /\ StoreConstants
    /\ None \notin Handler
    /\ Route \subseteq {"worker", "coordinator"}
    /\ MaxTime \in Nat

VARIABLES store,      \* the provider operation store
          clock,
          alarm,      \* time of the object's alarm, None if not set
          hand,       \* the dispatch handlers
          target,     \* per target, its state id and the operation that wrote it
          label,      \* per generation, the version its parameter has labelled, or None
          envelope,   \* operations with a retained envelope
          seen,       \* per operation, what the verifier last read at the target
          cleaning    \* progress of the envelope clean-up after a success

vars == <<store, clock, alarm, hand, target, label, envelope, seen, cleaning>>

Idle == [pc |-> "idle", wire |-> "none"]

Unknown == [status |-> "unknown", oid |-> None, passed |-> FALSE]

OpOf(h) == hand[h].req.id

TargetOf(h) == hand[h].req.target

Sent(h) == hand[h].wire # "none"

TypeOK ==
    /\ store \in Store
    /\ clock \in 0 .. MaxTime
    /\ alarm \in Nat \cup {None}
    /\ \A h \in Handler :
          hand[h] = Idle
          \/ hand[h] \in [pc : {"start", "claim", "prepare", "send", "wait", "record",
                                "verify", "done"},
                          route : Route, req : Request, inv : Invocation, time : Nat,
                          wire : {"none", "sent", "landed", "lost"}, oid : StateOID,
                          response : ProviderDispatchResponse]
    /\ target \in [Target -> [oid : Nat, holder : Operation \cup {None}]]
    /\ label \in [SourceGeneration -> StateOID] /\ envelope \subseteq Operation
    /\ seen \in [Operation -> [oid : Nat, passed : BOOLEAN] \cup {None}]
    /\ cleaning \in [Operation -> {"no", "unlabel", "delete"}]

Init ==
    /\ store = EmptyStore
    /\ clock = 0
    /\ alarm = None
    /\ hand = [h \in Handler |-> Idle]
    /\ target = [t \in Target |-> [oid |-> 0, holder |-> None]]
    /\ label = [g \in SourceGeneration |-> None] /\ envelope = {}
    /\ seen = [o \in Operation |-> None]
    /\ cleaning = [o \in Operation |-> "no"]

-----------------------------------------------------------------------------
(* The object: each call that leaves an open operation sets the alarm. *)

later(a, b) == IF a < b THEN b ELSE a

\* The alarm never lies beyond the end of modelled time.
Instant(t) == IF t <= MaxTime THEN t ELSE MaxTime

scheduleAlarmAt(current, t) ==
    IF current = None THEN Instant(t)
    ELSE IF Instant(t) < current THEN Instant(t) ELSE current

\* Faulty variant: only the start of an operation sets the alarm.
scheduleProviderWatchdog_startOnly(s, o, now) ==
    IF unresolved(s, o) /\ s.op[o].attempt = 0
    THEN scheduleAlarmAt(alarm, later(now + 1, s.op[o].req.deadline))
    ELSE alarm

scheduleProviderWatchdog(s, o, now) ==
    IF unresolved(s, o) THEN scheduleAlarmAt(alarm, later(now + 1, s.op[o].req.deadline))
    ELSE alarm

Alarm ==
    /\ alarm # None /\ alarm <= clock
    /\ store' = watchdog(store, clock)
    /\ alarm' = IF Awaited(store', clock) = {} THEN None
                ELSE Instant(later(clock + 1, Min(Awaited(store', clock))))
    /\ UNCHANGED <<clock, hand, target, label, envelope, seen, cleaning>>

Tick ==
    /\ clock < MaxTime
    /\ clock' = clock + 1
    /\ UNCHANGED <<store, alarm, hand, target, label, envelope, seen, cleaning>>

-----------------------------------------------------------------------------
(* A dispatch handler *)

\* The executor takes only owner-gated operations whose deadline lies ahead,
\* and reads the clock once.
Receive(h, route, r, i) ==
    /\ hand[h].pc = "idle"
    /\ clock < r.deadline
    /\ route = "worker" => r.capability = "owner_risk_gate"
    /\ hand' = [hand EXCEPT ![h] = [pc |-> "start", route |-> route, req |-> r, inv |-> i,
                                    time |-> clock, wire |-> "none", oid |-> None,
                                    response |-> Unknown]]
    /\ UNCHANGED <<store, clock, alarm, target, label, envelope, seen, cleaning>>

\* The coordinator names the invocation after the attempt it is about to make.
HandlerStart(h) ==
    /\ hand[h].pc = "start"
    /\ LET answer  == start(store, hand[h].req)
           rec     == answer.store.op[OpOf(h)]
           goes    == /\ answer.status \in {"prepared", "existing"}
                      /\ rec.status = "prepared"
           attempt == IF goes /\ hand[h].route = "coordinator"
                      THEN rec.attempt + 1 ELSE hand[h].inv
           owner   == IF answer.status = "fenced" THEN store.fence[TargetOf(h)] ELSE OpOf(h)
       IN  /\ attempt \in Invocation
           /\ store' = answer.store
           /\ alarm' = IF answer.status = "conflict" THEN alarm
                       ELSE scheduleProviderWatchdog(store', owner, hand[h].time)
           /\ hand' = [hand EXCEPT ![h].pc  = IF goes THEN "claim" ELSE "done",
                                   ![h].inv = attempt]
    /\ UNCHANGED <<clock, target, label, envelope, seen, cleaning>>

HandlerClaim(h) ==
    /\ hand[h].pc = "claim"
    /\ LET answer == claim(store, OpOf(h), hand[h].inv, hand[h].time)
           next   == IF hand[h].route = "worker" THEN "prepare" ELSE "send"
       IN  /\ store' = answer.store
           /\ alarm' = IF answer.status = "claimed"
                       THEN scheduleAlarmAt(alarm, later(hand[h].time + 1,
                                                         hand[h].req.deadline))
                       ELSE alarm
           /\ hand' = [hand EXCEPT ![h].pc = IF answer.status = "claimed"
                                             THEN next ELSE "done"]
    /\ UNCHANGED <<clock, target, label, envelope, seen, cleaning>>

\* labelExact: a label already on this version is taken as it is, one on another
\* version is an error.
labelExact(source) == [label EXCEPT ![source.gen] = source.version]

Labels(h) ==
    /\ OpOf(h) \notin envelope
    /\ label[hand[h].req.source.gen] \in {None, hand[h].req.source.version}

\* A retained envelope is used; otherwise the source version is labelled and
\* its envelope stored.
Prepare(h) ==
    /\ hand[h].pc = "prepare"
    /\ \/ OpOf(h) \in envelope /\ UNCHANGED label
       \/ Labels(h) /\ label' = labelExact(hand[h].req.source)
    /\ envelope' = envelope \cup {OpOf(h)}
    /\ hand'     = [hand EXCEPT ![h].pc = "send"]
    /\ UNCHANGED <<store, clock, alarm, target, seen, cleaning>>

\* The source, the key service or the envelope store fails, before or after
\* the label is set.
PrepareFails(h) ==
    /\ hand[h].pc = "prepare"
    /\ \/ UNCHANGED label
       \/ Labels(h) /\ label' = labelExact(hand[h].req.source)
    /\ hand' = [hand EXCEPT ![h].pc = "record", ![h].response = Unknown]
    /\ UNCHANGED <<store, clock, alarm, target, envelope, seen, cleaning>>

Send(h) ==
    /\ hand[h].pc = "send"
    /\ hand' = [hand EXCEPT ![h].pc = "wait", ![h].wire = "sent"]
    /\ UNCHANGED <<store, clock, alarm, target, label, envelope, seen, cleaning>>

\* The write reaches the target.
Land(h) ==
    /\ hand[h].wire = "sent"
    /\ target' = [target EXCEPT ![TargetOf(h)] = [oid |-> @.oid + 1, holder |-> OpOf(h)]]
    /\ hand' = [hand EXCEPT ![h].wire = "landed", ![h].oid = target'[TargetOf(h)].oid]
    /\ UNCHANGED <<store, clock, alarm, label, envelope, seen, cleaning>>

\* The provider answers.  Only a coordinator's dispatcher reports checks of its
\* own, or that the provider refused the write.
ReplyCommitted(h) ==
    /\ hand[h].pc = "wait" /\ hand[h].wire = "landed"
    /\ LET passed == /\ hand[h].route = "coordinator"
                     /\ target[TargetOf(h)].holder = OpOf(h)
       IN  hand' = [hand EXCEPT ![h].pc = "record",
                                ![h].response = [status |-> "committed",
                                                 oid |-> hand[h].oid, passed |-> passed]]
    /\ UNCHANGED <<store, clock, alarm, target, label, envelope, seen, cleaning>>

ReplyRejected(h) ==
    /\ hand[h].pc = "wait" /\ hand[h].wire = "sent" /\ hand[h].route = "coordinator"
    /\ hand' = [hand EXCEPT ![h].pc = "record", ![h].wire = "lost",
                            ![h].response = [Unknown EXCEPT !.status = "rejected"]]
    /\ UNCHANGED <<store, clock, alarm, target, label, envelope, seen, cleaning>>

\* The answer is lost, ambiguous or late; the write may still be under way.
ReplyUnknown(h) ==
    /\ hand[h].pc = "wait"
    /\ hand' = [hand EXCEPT ![h].pc = "record", ![h].response = Unknown]
    /\ UNCHANGED <<store, clock, alarm, target, label, envelope, seen, cleaning>>

\* The worker passes the time it read at the start, the coordinator reads the
\* clock again; the latter verifies what its dispatcher already checked.
Record(h) ==
    /\ hand[h].pc = "record"
    /\ LET time   == IF hand[h].route = "worker" THEN hand[h].time ELSE clock
           answer == recordOutcome(store, OpOf(h), hand[h].inv, hand[h].response, time)
           checks == /\ hand[h].route = "coordinator" /\ answer.status = "recorded"
                     /\ answer.store.op[OpOf(h)].status = "awaiting_verification"
                     /\ hand[h].response.status = "committed" /\ hand[h].response.passed
       IN  /\ store' = answer.store
           /\ alarm' = IF answer.status = "recorded"
                       THEN scheduleProviderWatchdog(store', OpOf(h), time) ELSE alarm
           /\ hand' = [hand EXCEPT ![h].pc   = IF checks THEN "verify" ELSE "done",
                                   ![h].time = time]
    /\ UNCHANGED <<clock, target, label, envelope, seen, cleaning>>

CoordinatorVerify(h) ==
    /\ hand[h].pc = "verify"
    /\ store' = verify(store, OpOf(h), hand[h].response, hand[h].time)
    /\ alarm' = IF Verifiable(store.op[OpOf(h)], hand[h].response)
                THEN scheduleProviderWatchdog(store', OpOf(h), hand[h].time) ELSE alarm
    /\ hand' = [hand EXCEPT ![h].pc = "done"]
    /\ UNCHANGED <<clock, target, label, envelope, seen, cleaning>>

\* The handler is evicted, or a call to the store fails.
Crash(h) ==
    /\ hand[h].pc \notin {"idle", "done"}
    /\ hand' = [hand EXCEPT ![h].pc = "done"]
    /\ UNCHANGED <<store, clock, alarm, target, label, envelope, seen, cleaning>>

-----------------------------------------------------------------------------
(* The verification role reads the target and reports later, any number of *)
(* times.  After a success the label goes first, then the envelope.        *)

Observe(o) ==
    /\ unresolved(store, o)
    /\ LET t == target[store.op[o].req.target]
       IN  seen' = [seen EXCEPT ![o] = [oid |-> t.oid, passed |-> t.holder = o]]
    /\ seen' # seen
    /\ UNCHANGED <<store, clock, alarm, hand, target, label, envelope, cleaning>>

\* Faulty variant: a failed verification releases the envelope as well.
Verification_cleans(o) ==
    /\ seen[o] # None /\ cleaning[o] = "no"
    /\ store' = verify(store, o, seen[o], clock)
    /\ alarm' = IF Verifiable(store.op[o], seen[o])
                THEN scheduleProviderWatchdog(store', o, clock) ELSE alarm
    /\ cleaning' = [cleaning EXCEPT ![o] = IF o \in envelope THEN "unlabel" ELSE "no"]
    /\ UNCHANGED <<clock, hand, target, label, envelope, seen>>

Verification(o) ==
    /\ seen[o] # None /\ cleaning[o] = "no"
    /\ store' = verify(store, o, seen[o], clock)
    /\ alarm' = IF Verifiable(store.op[o], seen[o])
                THEN scheduleProviderWatchdog(store', o, clock) ELSE alarm
    /\ cleaning' = [cleaning EXCEPT
                       ![o] = IF /\ store'.op[o].status = "succeeded"
                                 /\ seen[o].passed /\ o \in envelope
                              THEN "unlabel" ELSE "no"]
    /\ UNCHANGED <<clock, hand, target, label, envelope, seen>>

\* unlabelExact takes the label off the source version, whichever operations of
\* that generation still rely on it; a label on another version is an error.
Cleanup(o) ==
    LET source == store.op[o].req.source IN
    /\ \/ /\ cleaning[o] = "unlabel" /\ label[source.gen] \in {None, source.version}
          /\ label' = [label EXCEPT ![source.gen] = None] /\ UNCHANGED envelope
          /\ cleaning' = [cleaning EXCEPT ![o] = "delete"]
       \/ cleaning[o] = "delete" /\ envelope' = envelope \ {o} /\ UNCHANGED label
          /\ cleaning' = [cleaning EXCEPT ![o] = "no"]
    /\ UNCHANGED <<store, clock, alarm, hand, target, seen>>

\* Unlabelling fails or the handler dies: the envelope stays.
CleanupFails(o) ==
    /\ cleaning[o] # "no"
    /\ cleaning' = [cleaning EXCEPT ![o] = "no"]
    /\ UNCHANGED <<store, clock, alarm, hand, target, label, envelope, seen>>

\* An owner presents a signed decision, perhaps one already used.
Decide(d) ==
    /\ Accepts(store, d)
    /\ store' = applyDecision(store, d)
    /\ alarm' = scheduleProviderWatchdog(store', d.id, clock)
    /\ UNCHANGED <<clock, hand, target, label, envelope, seen, cleaning>>

-----------------------------------------------------------------------------
Decisions == [id : Operation, action : ProviderControlAction, nonce : Nonce,
              oid : {target[t].oid : t \in Target} \cup {store.op[o].oid :
                         o \in {p \in Operation : Known(store, p)}} \cup {None},
              approval : Nonce \cup {None}]

Next ==
    \/ Tick
    \/ Alarm
    \/ \E h \in Handler :
         \/ \E route \in Route, r \in Request, i \in Invocation : Receive(h, route, r, i)
         \/ HandlerStart(h) \/ HandlerClaim(h) \/ Prepare(h) \/ PrepareFails(h)
         \/ Send(h) \/ Land(h)
         \/ ReplyCommitted(h) \/ ReplyRejected(h) \/ ReplyUnknown(h)
         \/ Record(h) \/ CoordinatorVerify(h) \/ Crash(h)
    \/ \E o \in Operation : Observe(o) \/ Verification(o) \/ Cleanup(o) \/ CleanupFails(o)
    \/ \E d \in Decisions : Decide(d)

Spec == Init /\ [][Next]_vars

\* Time passes and the platform delivers a due alarm; nothing is asked of
\* handlers, verifiers or owners.
FairSpec == Spec /\ WF_vars(Tick) /\ WF_vars(Alarm)

-----------------------------------------------------------------------------
(* Properties *)

\* The fence of a target names exactly its one unresolved operation
\* (releaseFence accompanies every terminal write), so the branch of start that
\* deletes a stale fence is never taken.
FenceExact ==
    /\ \A o \in Operation : unresolved(store, o) => store.fence[store.op[o].req.target] = o
    /\ \A t \in Target : store.fence[t] # None =>
          /\ unresolved(store, store.fence[t])
          /\ store.op[store.fence[t]].req.target = t

Replays(o) == {c \in store.consumed : c.id = o /\ c.action = "replay_once"}

\* An operation is claimed once and once more for each replay the owner signed,
\* whatever handlers retry or die (claim, applyDecision).
ClaimsAreLicensed ==
    \A o \in Operation : Known(store, o) =>
       store.op[o].attempt <= Cardinality(Replays(o)) +
                              (IF store.op[o].status = "prepared" THEN 0 ELSE 1)

\* The owner let go of an operation at t whose write might be under way.
Ruled(t) ==
    \E c \in store.consumed : /\ c.action \in {"replay_once", "confirm_not_applied", "supersede"}
                              /\ store.op[c.id].req.target = t

\* Two writes are under way at one target only if the owner ruled there.
WritesDoNotRace ==
    \A g, h \in Handler :
       (g # h /\ hand[g].wire = "sent" /\ hand[h].wire = "sent" /\ TargetOf(g) = TargetOf(h))
          => Ruled(TargetOf(g))

\* While a target is free of fences, it holds what its last success recorded,
\* unless the owner ruled there (verify, readLastSuccess).
LastSuccessHolds ==
    \A t \in Target :
       (store.fence[t] = None /\ store.last[t] # None /\ ~Ruled(t))
          => target[t].holder = store.last[t]

\* An operation whose cancellation was accepted is never promoted, failed for
\* another reason or dispatched again (applyCancelDecision, recordOutcome, verify).
CancelIsKept ==
    \A c \in store.consumed : c.action = "cancel" =>
       store.op[c.id].status \in {"cancel_requested", "cancel_needs_reconciliation",
                                  "cancelled", "superseded"}

\* Until a write is verified its envelope is retained, so that it can be
\* replayed or recovered ("ambiguous write responses retain the source
\* envelope", docs github-actions), and its source version stays labelled,
\* unless another operation of the same generation succeeded: the label is the
\* generation's, and that one's cleanup takes it off for all.
SourceIsRetained ==
    \A h \in Handler :
       (Sent(h) /\ hand[h].route = "worker" /\ store.op[OpOf(h)].status # "succeeded") =>
          LET source == hand[h].req.source
          IN  /\ OpOf(h) \in envelope
              /\ \/ label[source.gen] = source.version
                 \/ \E o \in Operation : /\ store.op[o].status = "succeeded"
                                         /\ store.op[o].req.source.gen = source.gen

\* The fence admits one write at a time: it is exact, claims are licensed, and
\* the writes it guards do not race (start, claim, releaseFence).
WritesAreFenced == FenceExact /\ ClaimsAreLicensed /\ WritesDoNotRace

\* What the records say of a target is so: a recorded success is there, a
\* cancelled operation stays so, and an unverified write can be recovered.
OutcomesHold == LastSuccessHolds /\ CancelIsKept /\ SourceIsRetained

\* A finished operation and a recorded outcome never change.
RecordsAreFinal ==
    [][\A o \in Operation :
         /\ (Known(store, o) /\ ~unresolved(store, o)) => store'.op[o] = store.op[o]
         /\ \A i \in Invocation :
               store.outcome[o][i] # None => store'.outcome[o][i] = store.outcome[o][i]]_vars

\* Operations past their deadlines come to rest, ended or waiting for the owner,
\* as often as the owner sets one going again.
OperationsRest ==
    []<>(\A o \in Operation : Known(store, o) =>
           store.op[o].status \in Terminal \cup {"needs_reconciliation",
                                                 "cancel_needs_reconciliation"})
=============================================================================
