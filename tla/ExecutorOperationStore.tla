----------------------- MODULE ExecutorOperationStore -----------------------
(***************************************************************************)
(* The transactions of DurableExecutorOperationStore                       *)
(* (hub/src/executor-operation-store.ts) as operators on the stored state. *)
(* A store is a record of                                                  *)
(*   op       the operation records, NoOperation where there is none       *)
(*   active   the index of operations the watchdog visits                  *)
(*   queue    the index of operations waiting for their lane               *)
(*   lane     per schedule digest, the exclusive operation that holds it   *)
(*   outcome  the write-once outcome of each invocation                    *)
(*   result   the operations with a stored redacted result                 *)
(* Both indexes are sets: duplicates are removed on reading and the order  *)
(* in which they are visited has no effect.  A request is compared as a    *)
(* whole, its fingerprint standing for the digests behind it; attempts,    *)
(* alerts and the timestamps nobody reads are left out.                    *)
(***************************************************************************)
EXTENDS Naturals, FiniteSets

CONSTANTS Request,      \* records [op, lane, exclusive, fingerprint]
          Invocation,   \* ids; the signed request behind an id names one operation
          None,
          MaxActive,    \* MAX_ACTIVE_OPERATIONS
          Lifetime      \* MAX_OPERATION_LIFETIME_MS

Op == {r.op : r \in Request}

Lane == {r.lane : r \in Request}

ASSUME RequestAssumption ==
    /\ Op \subseteq Nat      \* ids are ordered
    /\ \A r \in Request : r.exclusive \in BOOLEAN
ASSUME NoneAssumption ==
    None \notin Invocation \cup Op /\ None \notin {"timed_out", "succeeded", "failed"}
ASSUME StoreBounds == MaxActive \in Nat /\ Lifetime \in Nat \ {0}

\* The declared cancel_needs_reconciliation is never stored.
ExecutorOperationStatus ==
    {"active", "queued", "timed_out", "succeeded", "failed", "needs_reconciliation",
     "cancel_requested"}

Terminal == {"succeeded", "failed", "needs_reconciliation"}

ExecutorOperationRecord ==
    [req : Request, status : ExecutorOperationStatus, created : Nat, deadline : Nat,
     inv : Invocation \cup {None}]

NoOperation == [status |-> "none"]

Store == [op      : [Op -> ExecutorOperationRecord \cup {NoOperation}],
          active  : SUBSET Op,
          queue   : SUBSET Op,
          lane    : [Lane -> Op \cup {None}],
          outcome : [Invocation -> {None, "timed_out", "succeeded", "failed"}],
          result  : SUBSET Op]

EmptyStore == [op      |-> [o \in Op |-> NoOperation],
               active  |-> {},
               queue   |-> {},
               lane    |-> [l \in Lane |-> None],
               outcome |-> [i \in Invocation |-> None],
               result  |-> {}]

Known(s, o) == s.op[o].status # "none"

holdsExecutionLane(status) == status \in {"active", "timed_out", "cancel_requested"}

\* A call answers with a token and leaves a store.
Answer(status, s) == [status |-> status, store |-> s]

-----------------------------------------------------------------------------
(* begin *)

\* An operation whose promotion left it without an invocation is taken over.
Resumed(s, o, i) ==
    [s EXCEPT !.op[o]  = [@ EXCEPT !.status = "active", !.inv = i],
              !.lane[s.op[o].req.lane] = IF s.op[o].req.exclusive THEN o ELSE @,
              !.active = @ \cup {o}]

beginExisting(s, r, i) ==
    LET existing == s.op[r.op]
    IN  IF existing.req # r THEN Answer("conflict", s)
        ELSE IF existing.status \notin {"active", "timed_out"} THEN Answer("existing", s)
        ELSE IF existing.inv = i THEN Answer("coalesced", s)
        ELSE IF existing.inv = None THEN Answer("started", Resumed(s, r.op, i))
        ELSE Answer("existing", s)

\* Faulty variant: the lane is not looked at.
LaneFree_always(s, r) == TRUE

\* A lane whose holder is gone or finished is free.
LaneFree(s, r) ==
    \/ ~r.exclusive
    \/ s.lane[r.lane] = None
    \/ ~holdsExecutionLane(s.op[s.lane[r.lane]].status)

\* Faulty variant: the bound counts the running operations only.
Full_activeOnly(s) == Cardinality(s.active) >= MaxActive

Full(s) == Cardinality(s.active) + Cardinality(s.queue) >= MaxActive

NewOperation(r, status, i, deadline, t) ==
    [req |-> r, status |-> status, created |-> t, deadline |-> deadline, inv |-> i]

beginNew(s, r, i, deadline, t) ==
    IF Full(s) THEN Answer("unavailable", s)
    ELSE IF LaneFree(s, r)
    THEN Answer("started",
           [s EXCEPT !.op[r.op]     = NewOperation(r, "active", i, deadline, t),
                     !.active       = @ \cup {r.op},
                     !.lane[r.lane] = IF r.exclusive THEN r.op ELSE @])
    ELSE Answer("queued",
           [s EXCEPT !.op[r.op] = NewOperation(r, "queued", None, deadline, t),
                     !.queue    = @ \cup {r.op}])

validateStart(deadline, t) == t < deadline /\ deadline <= t + Lifetime

begin(s, r, i, deadline, t) ==
    IF ~validateStart(deadline, t) THEN Answer("invalid", s)
    ELSE IF Known(s, r.op) THEN beginExisting(s, r, i)
    ELSE beginNew(s, r, i, deadline, t)

-----------------------------------------------------------------------------
(* recordInvocationTimeout, complete, requestCancel, readResult *)

writeInvocationOutcome(s, i, status) ==
    [s EXCEPT !.outcome[i] = IF @ = None THEN status ELSE @]

recordInvocationTimeout(s, o, i) ==
    LET written == writeInvocationOutcome(s, i, "timed_out")
    IN  IF s.op[o].status = "active" /\ s.op[o].inv = i
          THEN [written EXCEPT !.op[o].status = "timed_out"]
          ELSE written

\* The waiting operations of a lane, and the oldest of them.
Candidates(s, l) ==
    {o \in s.queue \ s.active : s.op[o].status = "queued" /\ s.op[o].req.lane = l}

Oldest(s, ops) ==
    CHOOSE o \in ops : \A p \in ops :
        \/ s.op[o].created < s.op[p].created
        \/ s.op[o].created = s.op[p].created /\ o <= p

\* Faulty variant: the lane is handed over but the operation is not indexed.
Released_unindexed(s, lanes, ended) ==
    LET next(l) == IF Candidates(s, l) = {} THEN None ELSE Oldest(s, Candidates(s, l))
        promoted == {next(l) : l \in lanes} \ {None}
    IN  [s EXCEPT !.lane  = [l \in Lane |-> IF l \in lanes THEN next(l) ELSE @[l]],
                  !.queue = @ \ promoted,
                  !.op    = [o \in Op |-> IF o \in promoted THEN [@[o] EXCEPT !.status = "active"]
                                                            ELSE @[o]]]

\* The lanes the ended operations held pass to promoteNextQueued, which nobody
\* executes until the client asks again.  A lane has one holder, so at most
\* one operation is promoted per lane.
Released(s, lanes, ended) ==
    LET next(l) == IF Candidates(s, l) = {} THEN None ELSE Oldest(s, Candidates(s, l))
        promoted == {next(l) : l \in lanes} \ {None}
    IN  [s EXCEPT !.lane   = [l \in Lane |-> IF l \in lanes
                                THEN IF next(l) # None \/ @[l] \in ended THEN next(l) ELSE @[l]
                                ELSE @[l]],
                  !.active = @ \cup promoted,
                  !.queue  = @ \ promoted,
                  !.op     = [o \in Op |-> IF o \in promoted THEN [@[o] EXCEPT !.status = "active"]
                                                             ELSE @[o]]]

HeldLanes(s, ops) == {s.op[o].req.lane : o \in {x \in ops : s.op[x].req.exclusive}}

\* Faulty variant: an operation that was given up can still be completed.
complete_late(s, o, i, status, stored) ==
    IF s.op[o].status \in {"succeeded", "failed"} THEN Answer("current", s)
    ELSE Answer("finished",
           [writeInvocationOutcome(s, i, status) EXCEPT
              !.op[o] = [@ EXCEPT !.status = status, !.inv = None], !.active = @ \ {o},
              !.result = IF stored THEN @ \cup {o} ELSE @])

\* Faulty variant: the outcome is written before the status is looked at.
complete_writesFirst(s, o, i, status, stored) ==
    LET written == writeInvocationOutcome(s, i, status)
    IN  IF s.op[o].status \in Terminal THEN Answer("current", written)
        ELSE IF s.op[o].inv # i THEN Answer("mismatch", s)
        ELSE Answer("finished", [written EXCEPT !.op[o] = [@ EXCEPT !.status = status, !.inv = None],
                                                !.active = @ \ {o}])

complete(s, o, i, status, stored) ==
    IF s.op[o].status \in Terminal THEN Answer("current", s)
    ELSE IF s.op[o].inv # i \/ ~holdsExecutionLane(s.op[o].status) THEN Answer("mismatch", s)
    ELSE LET finished == [writeInvocationOutcome(s, i, status) EXCEPT
                            !.op[o]  = [@ EXCEPT !.status = status, !.inv = None],
                            !.active = @ \ {o},
                            !.result = IF stored THEN @ \cup {o} ELSE @]
         IN  Answer("finished", Released(finished, HeldLanes(s, {o}), {o}))

readResult(s, o) == s.op[o].status = "succeeded" /\ o \in s.result

requestCancel(s, o) ==
    IF s.op[o].status \in {"active", "timed_out"}
      THEN [s EXCEPT !.op[o].status = "cancel_requested"]
      ELSE s

-----------------------------------------------------------------------------
(* watchdog *)

terminalDeadline(s, o) == s.op[o].deadline + Lifetime

\* Faulty variant: an overdue operation is given up at its first deadline.
GivenUp_atDeadline(s, t) ==
    {o \in s.active : /\ s.op[o].status \in {"active", "timed_out", "cancel_requested"}
                      /\ t >= s.op[o].deadline}

GivenUp(s, t) ==
    {o \in s.active : /\ s.op[o].status \in {"timed_out", "cancel_requested"}
                      /\ t >= terminalDeadline(s, o)}

Overdue(s, t) == {o \in s.active : s.op[o].status = "active" /\ t >= s.op[o].deadline}

watchdog(s, t) ==
    LET overdue   == Overdue(s, t)
        givenUp   == GivenUp(s, t)
        remaining == {o \in s.active \ givenUp : holdsExecutionLane(s.op[o].status)}
        marked == [s EXCEPT
          !.active = remaining,
          !.op = [o \in Op |->
            IF o \in givenUp THEN [@[o] EXCEPT !.status = "needs_reconciliation", !.inv = None]
            ELSE IF o \in overdue THEN [@[o] EXCEPT !.status = "timed_out"] ELSE @[o]]]
    IN  Released(marked, HeldLanes(s, givenUp), givenUp)

operationAlarmAt(s, o) ==
    IF s.op[o].status = "active" THEN s.op[o].deadline ELSE terminalDeadline(s, o)

=============================================================================
