------------------------- MODULE ExecutorOperations -------------------------
(***************************************************************************)
(* The Durable Object SecurityExecutorOperations: the operation store, the *)
(* object's alarm and the cron watchdog, called by any number of clients.  *)
(*                                                                         *)
(* A call carries the time at which its caller read the clock, up to       *)
(* MaxDelay before it is served.  Its transaction and the alarm it sets    *)
(* are one step, because the object serves one event at a time; setting    *)
(* the alarm may fail, which the code only logs.                           *)
(***************************************************************************)
EXTENDS ExecutorOperationStore, FiniteSetsExt

CONSTANTS opOf(_),    \* the operation an invocation was signed for
          MaxDelay,   \* bound: age of the time stamp of a call
          MaxStart,   \* bound: last time an operation is begun
          MaxTime,    \* bound: the clock
          MaxFaults   \* bound: failed alarm registrations and alarm runs

ASSUME ClockBounds == {MaxDelay, MaxStart, MaxTime, MaxFaults} \subseteq Nat
ASSUME SignedAssumption == \A i \in Invocation : opOf(i) \in Op

VARIABLES store, clock,
          alarm,      \* time of the object's alarm, None if not set
          faults

vars == <<store, clock, alarm, faults>>

TypeOK ==
    /\ store \in Store
    /\ clock \in Nat
    /\ alarm \in Nat \cup {None}
    /\ faults \in Nat

Init ==
    /\ store = EmptyStore
    /\ clock = 0
    /\ alarm = None
    /\ faults = 0

CallTimes == {t \in 0..clock : t + MaxDelay >= clock}

\* An earlier alarm stays.
scheduleAlarmAt(current, t) == IF current = None \/ t < current THEN t ELSE current

later(a, b) == IF a >= b THEN a ELSE b

\* The last tick stands for every later time.
Instant(t) == IF t <= MaxTime THEN t ELSE MaxTime

NextAlarm(s, t) == Instant(later(t + 1, Min({operationAlarmAt(s, o) : o \in s.active})))

scheduleNextAlarm(current, s, t) ==
    IF s.active = {} THEN current ELSE scheduleAlarmAt(current, NextAlarm(s, t))

Fault == faults < MaxFaults /\ faults' = faults + 1

\* Commit s and set the alarm after it.
Commit(s, current, t) ==
    /\ store' = s
    /\ UNCHANGED clock
    /\ \/ alarm' = scheduleNextAlarm(current, s, t) /\ UNCHANGED faults
       \/ alarm' = current /\ Fault

Begin(r, i, t) ==
    /\ r.op = opOf(i)
    /\ clock <= MaxStart
    /\ \E deadline \in t..t + Lifetime :
         LET answer == begin(store, r, i, deadline, t)
         IN  /\ answer.status \notin {"invalid", "unavailable"}
             /\ Commit(answer.store, alarm, t)

RecordInvocationTimeout(i, t) ==
    /\ Known(store, opOf(i))
    /\ Commit(recordInvocationTimeout(store, opOf(i), i), alarm, t)

Complete(i, t) ==
    /\ Known(store, opOf(i))
    /\ \E status \in {"succeeded", "failed"}, stored \in BOOLEAN :
         /\ stored => status = "succeeded"
         /\ LET answer == complete(store, opOf(i), i, status, stored)
            IN  answer.status # "mismatch" /\ Commit(answer.store, alarm, t)

RequestCancel(o, t) ==
    /\ Known(store, o)
    /\ Commit(requestCancel(store, o), alarm, t)

\* The cron trigger of the Worker.
Scheduled(t) == Commit(watchdog(store, t), alarm, t)

\* Faulty variant: the alarm is not set again.
Alarm_once ==
    /\ alarm # None /\ alarm <= clock
    /\ store' = watchdog(store, clock)
    /\ alarm' = None
    /\ UNCHANGED <<clock, faults>>

\* The alarm fires: it is no longer set while its handler runs.  A watchdog
\* that throws is run again after WATCHDOG_INTERVAL_MS.
Alarm ==
    /\ alarm # None /\ alarm <= clock
    /\ \/ Commit(watchdog(store, clock), None, clock)
       \/ Fault /\ alarm' = Instant(clock + 1) /\ UNCHANGED <<store, clock>>

Tick ==
    /\ clock < MaxTime
    /\ clock' = clock + 1
    /\ UNCHANGED <<store, alarm, faults>>

Next ==
    \/ \E t \in CallTimes :
         \/ \E r \in Request, i \in Invocation : Begin(r, i, t)
         \/ \E i \in Invocation : RecordInvocationTimeout(i, t) \/ Complete(i, t)
         \/ \E o \in Op : RequestCancel(o, t)
         \/ Scheduled(t)
    \/ Alarm
    \/ Tick

Spec == Init /\ [][Next]_vars

\* Time passes and the platform delivers the alarm; nothing is asked of the
\* clients or of the cron trigger.
FairSpec == Spec /\ WF_vars(Tick) /\ WF_vars(Alarm)

-----------------------------------------------------------------------------
(* Safety *)

Holds(o) == holdsExecutionLane(store.op[o].status)

\* Two exclusive operations of one schedule never run at once, although lanes
\* change hands in complete, in the watchdog and when a client comes back.
LaneExclusive ==
    \A o, p \in Op :
      /\ Holds(o) /\ Holds(p) /\ o # p
      /\ store.op[o].req.exclusive /\ store.op[p].req.exclusive
      => store.op[o].req.lane # store.op[p].req.lane

\* No operation is forgotten: the watchdog's index lists whatever runs, and a
\* queued operation waits behind a running one whose end will promote it.
NothingForgotten ==
    \A o \in Op :
      /\ Holds(o) => o \in store.active
      /\ store.op[o].status = "queued" =>
           /\ o \in store.queue
           /\ \E p \in store.active : /\ Holds(p) /\ store.op[p].req.exclusive
                                      /\ store.op[p].req.lane = store.op[o].req.lane

\* The outcome of an invocation, written once, and the operation's status
\* agree: success and failure are reported by one invocation only, and never
\* for an operation that was given up.  A stored result belongs to a success.
OutcomesAgree ==
    /\ \A i \in Invocation : store.outcome[i] \in {"succeeded", "failed"}
                               => store.outcome[i] = store.op[opOf(i)].status
    /\ \A o \in store.result : store.op[o].status = "succeeded"

\* The bound on the two indexes together survives promotion and resumption.
Bounded == Cardinality(store.active) + Cardinality(store.queue) <= MaxActive

\* An operation is given up only when a whole lifetime has passed since its
\* deadline, whatever the time stamps of the calls.
PatientWatchdog ==
    \A o \in Op : store.op[o].status = "needs_reconciliation"
                    => clock >= store.op[o].deadline + Lifetime

\* What clients are told is so: outcomes agree with the record, and only a
\* patient watchdog gives an operation up.
AnswersAgree == OutcomesAgree /\ PatientWatchdog

\* Lanes stay orderly: one holder each, nobody forgotten in them, and the two
\* indexes together within the bound.
LaneDiscipline == LaneExclusive /\ NothingForgotten /\ Bounded

\* A finished operation never changes again: its status is what every later
\* call reports.
TerminalIsFinal ==
    [][\A o \in Op : store.op[o].status \in Terminal => store'.op[o] = store.op[o]]_vars

-----------------------------------------------------------------------------
(* Liveness *)

\* Every accepted operation ends, running or queued, through the alarm alone:
\* the chain of alarms never breaks while an operation is open.  (A known
\* operation stays known, and begins are bounded.)
OperationsEnd ==
    []<>(\A o \in Op : Known(store, o) => store.op[o].status \in Terminal)

=============================================================================
