-------------------------- MODULE MetadataExecutor --------------------------
(***************************************************************************)
(* The security executor Worker (hub/src/security-executor.ts): concurrent *)
(* requests with a signed envelope pass the verifier, consume their nonce  *)
(* in the replay store and run executeMetadataMigration against the        *)
(* operation store; the cron trigger sweeps the replay rows and runs the   *)
(* watchdog.                                                               *)
(*                                                                         *)
(* The Worker and the two Durable Objects exchange calls.  A call may fail *)
(* before or after it took effect, and the caller cannot tell which.  An   *)
(* envelope may be delivered any number of times; its signature and its    *)
(* bindings hold, so what is left of its verification is time.             *)
(***************************************************************************)
EXTENDS ExecutorOperationStore, FiniteSetsExt

CONSTANTS Handler,          \* requests being served
          requestOf(_),     \* what an envelope (an Invocation) asks for
          notAfter,         \* end of the client authority
          Ttl,              \* lifetime of an envelope
          SweepLimit,       \* rows one sweep inspects
          MaxHandling,      \* bound: time a request may take
          MaxTime, MaxFaults

\* What is assumed of the bounds.
ExecutorBounds ==
    {notAfter, Ttl, SweepLimit, MaxHandling, MaxTime, MaxFaults} \subseteq Nat

VARIABLES store,
          rows,         \* replay rows: expiry of a consumed envelope or None
          clock,
          pc, env,      \* per handler: next step (idle, consume, begin, complete, fail), envelope
          seen,         \* per handler: requestNow
          starts,       \* history: per operation, how often it was executed
          acked,        \* history: operations acknowledged to a client
          faults

vars == <<store, rows, clock, pc, env, seen, starts, acked, faults>>

Init ==
    /\ store = EmptyStore
    /\ rows = [e \in Invocation |-> None]
    /\ clock = 0
    /\ pc = [h \in Handler |-> "idle"]
    /\ env = [h \in Handler |-> None]
    /\ seen = [h \in Handler |-> 0]
    /\ starts = [o \in Op |-> 0]
    /\ acked = {}
    /\ faults = 0

\* Every envelope is signed for the time span that ends at Ttl.
expiresAt == Ttl

Go(h, step) == pc' = [pc EXCEPT ![h] = step]

\* The response is sent, whatever its status.
Respond(h) ==
    /\ Go(h, "idle")
    /\ env' = [env EXCEPT ![h] = None]
    /\ seen' = [seen EXCEPT ![h] = 0]

Stay == UNCHANGED <<env, seen>>

Fault == faults < MaxFaults /\ faults' = faults + 1

validateExecutorEnvelope(t) == t < expiresAt /\ expiresAt - t <= Ttl

\* handlePrivateExecutorEnvelope up to the signature: authority and envelope
\* are in date when the request arrives.
Receive(h, e) ==
    /\ pc[h] = "idle"
    /\ clock < notAfter
    /\ validateExecutorEnvelope(clock)
    /\ Go(h, "consume")
    /\ env' = [env EXCEPT ![h] = e]
    /\ seen' = [seen EXCEPT ![h] = clock]
    /\ UNCHANGED <<store, rows, clock, starts, acked, faults>>

Accepts(e, t) == rows[e] # None => rows[e] <= t

\* The nonce is consumed as of the arrival of the request.
Consume(h) ==
    LET e == env[h]
    IN  /\ pc[h] = "consume"
        /\ \/ /\ Accepts(e, seen[h])
              /\ rows' = [rows EXCEPT ![e] = expiresAt]
              /\ \/ Go(h, "begin") /\ Stay /\ UNCHANGED faults
                 \/ Respond(h) /\ Fault
           \/ ~Accepts(e, seen[h]) /\ Respond(h) /\ UNCHANGED <<rows, faults>>
           \/ Respond(h) /\ Fault /\ UNCHANGED rows
        /\ UNCHANGED <<store, clock, starts, acked>>

\* Faulty variant: an operation somebody else started is executed as well.
Executes_coalesced(answer) == answer.status \in {"started", "coalesced", "existing"}

Executes(answer) == answer.status = "started"

deadlineAt(t) == IF notAfter <= t + Lifetime THEN notAfter ELSE t + Lifetime

\* executeMetadataMigration: open the operation, or answer with the stored
\* result of an earlier execution.
Begin(h) ==
    LET r == requestOf(env[h])
        answer == begin(store, r, env[h], deadlineAt(clock), clock)
    IN  /\ pc[h] = "begin"
        /\ \/ /\ store' = answer.store
              /\ IF Executes(answer)
                   THEN /\ starts' = [starts EXCEPT ![r.op] = @ + 1]
                        /\ Go(h, "complete") /\ Stay
                        /\ UNCHANGED acked
                   ELSE /\ acked' = IF answer.status = "existing" /\ readResult(store, r.op)
                                      THEN acked \cup {r.op} ELSE acked
                        /\ Respond(h)
                        /\ UNCHANGED starts
              /\ UNCHANGED faults
           \/ store' = answer.store /\ Respond(h) /\ Fault /\ UNCHANGED <<starts, acked>>
           \/ Respond(h) /\ Fault /\ UNCHANGED <<store, starts, acked>>
        /\ UNCHANGED <<rows, clock>>

\* Faulty variant: the acknowledgement is sent although the call failed.
Complete_acksFailure(h) ==
    LET r == requestOf(env[h])
        answer == complete(store, r.op, env[h], "succeeded", TRUE)
    IN  /\ pc[h] = "complete"
        /\ \/ store' = answer.store /\ UNCHANGED faults
           \/ UNCHANGED store /\ Fault
        /\ acked' = acked \cup {r.op}
        /\ Respond(h)
        /\ UNCHANGED <<rows, clock, starts>>

\* The redacted result is stored with the success.  The record that complete
\* returns is not looked at: only an exception prevents the acknowledgement.
Complete(h) ==
    LET r == requestOf(env[h])
        answer == complete(store, r.op, env[h], "succeeded", TRUE)
    IN  /\ pc[h] = "complete"
        /\ \/ /\ answer.status # "mismatch"
              /\ store' = answer.store
              /\ acked' = acked \cup {r.op}
              /\ Respond(h)
              /\ UNCHANGED faults
           \/ store' = answer.store /\ Go(h, "fail") /\ Stay /\ Fault /\ UNCHANGED acked
           \/ /\ Go(h, "fail") /\ Stay /\ UNCHANGED <<store, acked>>
              /\ IF answer.status = "mismatch" THEN UNCHANGED faults ELSE Fault
        /\ UNCHANGED <<rows, clock, starts>>

\* After an exception the operation is recorded as failed, if that works; the
\* client gets an error in any case.
CompleteFailed(h) ==
    LET r == requestOf(env[h])
        answer == complete(store, r.op, env[h], "failed", FALSE)
    IN  /\ pc[h] = "fail"
        /\ \/ store' = answer.store /\ UNCHANGED faults
           \/ UNCHANGED store /\ Fault
        /\ Respond(h)
        /\ UNCHANGED <<rows, clock, starts, acked>>

\* The Worker is evicted or the client goes away.
Evict(h) ==
    /\ pc[h] # "idle"
    /\ Fault
    /\ Respond(h)
    /\ UNCHANGED <<store, rows, clock, starts, acked>>

\* The sweep inspects the first rows of the prefix, in the order of the hashed
\* nonces, which is any order, and deletes the expired ones among them.
sweep(inspected) ==
    [e \in Invocation |->
       IF e \in inspected /\ rows[e] # None /\ rows[e] <= clock THEN None ELSE rows[e]]

Scheduled ==
    LET present == {e \in Invocation : rows[e] # None}
    IN  \E inspected \in SUBSET present :
          /\ inspected # present => Cardinality(inspected) = SweepLimit
          /\ rows' = sweep(inspected)
          /\ store' = watchdog(store, clock)
          /\ UNCHANGED <<clock, pc, env, seen, starts, acked, faults>>

Tick ==
    /\ clock < MaxTime
    /\ \A h \in Handler : pc[h] = "idle" \/ clock < seen[h] + MaxHandling
    /\ clock' = clock + 1
    /\ UNCHANGED <<store, rows, pc, env, seen, starts, acked, faults>>

Handle(h) == Consume(h) \/ Begin(h) \/ Complete(h) \/ CompleteFailed(h)

Next ==
    \/ \E h \in Handler, e \in Invocation : Receive(h, e)
    \/ \E h \in Handler : Handle(h) \/ Evict(h)
    \/ Scheduled
    \/ Tick

Spec == Init /\ [][Next]_vars

-----------------------------------------------------------------------------
(* Safety *)

\* An operation is executed at most once, by one request, however often its
\* envelopes are delivered, calls are lost, rows are swept and clients retry
\* with new envelopes: begin answers "started" once.
ExecutedOnce == \A o \in Op : starts[o] <= 1

\* "never report a false acknowledgement" (executeMetadataMigration): what a
\* client was told is accepted is a stored success with its result.  That fails
\* in one case, which is why the comment claims too much: when the watchdog gave
\* the operation up before complete arrived, complete answers with that record
\* instead of an exception, and the client is told "accepted" of an operation
\* that needs reconciliation.
AckIsDurable ==
    \A o \in acked : \/ store.op[o].status = "succeeded" /\ o \in store.result
                     \/ store.op[o].status = "needs_reconciliation"

=============================================================================
