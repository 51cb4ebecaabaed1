---------------------------- MODULE SyncContainer ----------------------------
(***************************************************************************)
(* The Durable Object that keeps the sync planner running                  *)
(* (hub/src/container.ts).  A cron delivery calls ensurePlannerReady; the  *)
(* container runtime calls onStart and onStop.  Each of them is a coroutine *)
(* that can be overtaken by the others at every await, and an awaited call *)
(* that is given up on after its time limit goes on by itself.             *)
(*                                                                         *)
(* Storage executes transactions one at a time in the order they were      *)
(* issued; one may fail, and the one that is awaited may be given up on.   *)
(* A single read answers at once or fails.  An object reset loses every    *)
(* coroutine, flag and transaction that was not executed; the planner      *)
(* process and the stored state survive it.                                *)
(***************************************************************************)
EXTENDS SyncRunStore, Sequences, FiniteSets

CONSTANTS
    UnknownRun,     \* a pointer whose read failed
    Call,        \* the onStop calls that can be under way at once
    MaxExits,    \* planner processes that end by themselves
    MaxPlannerFaults,   \* failed or timed-out calls
    MaxResets,   \* resets of the object
    MaxPlannerClock,    \* last instant
    Threshold    \* age at which a success is stale

ASSUME SyncContainerAssumption ==
    /\ Run # {} /\ Call # {} /\ NoRun # UnknownRun /\ {NoRun, UnknownRun} \cap Run = {}
    /\ MaxExits \in Nat /\ MaxPlannerFaults \in Nat /\ MaxResets \in Nat
    /\ MaxPlannerClock \in Nat /\ Threshold \in Nat \ {0}

VARIABLES
    runStore,    \* the stored state, see SyncRunStore
    queue,    \* transactions issued and not executed
    mem,      \* plannerReadinessCleanup, plannerStopPending, plannerStopUncertain
    ready,    \* the readiness coroutine behind plannerStartInFlight
    calls,    \* the onStop coroutines
    runtime,  \* the container runtime: status, process number, exit code, exits
              \* so far, and (history) the processes this object sent SIGKILL
    plannerClock,
    plannerFaults,
    resets,
    owner     \* history: the process a run was started for

plannerVars == <<runStore, queue, mem, ready, calls, runtime,
                 plannerClock, plannerFaults, resets, owner>>

NoCall == [pc |-> "free", by |-> "nobody", cleanup |-> FALSE, run |-> NoRun,
           code |-> 0, reason |-> "exit"]
IdlePlanner == [pc |-> "idle", ctx |-> "start", stopped |-> FALSE, active |-> NoRun,
           attempted |-> FALSE]
Flags(c, p, u) == [cleanup |-> c, pending |-> p, uncertain |-> u]

PlannerInit ==
    /\ runStore = NoRuns
    /\ queue = <<>>
    /\ mem = Flags(FALSE, FALSE, FALSE)
    /\ ready = IdlePlanner
    /\ calls = [c \in Call |-> NoCall]
    /\ runtime = [status |-> "stopped", proc |-> 0, code |-> 0, exits |-> 0, killed |-> {}]
    /\ plannerClock = 0 /\ plannerFaults = 0 /\ resets = 0
    /\ owner = [r \in Run |-> 0]

-----------------------------------------------------------------------------
(* Transactions *)

StopWrite(next, force, by) == [op |-> "stop", next |-> next, force |-> force, by |-> by]
Completion(c, call) ==
    [op |-> "complete", run |-> call.run, code |-> call.code,
     reason |-> IF call.cleanup THEN "runtime_signal" ELSE call.reason,
     at |-> plannerClock, by |-> c]
StartWrite == [op |-> "ensure", by |-> "ready"]

Fresh == CHOOSE r \in Run : runStore.runs[r].status = "absent"

Effect(t) ==
    CASE t.op = "stop"     -> writePlannerStopState(runStore, t.next, t.force)
      [] t.op = "complete" -> completeSyncRun(runStore, t.run, t.code, t.reason, t.at)
      [] t.op = "ensure"   -> ensureStartedSyncRun(runStore, Fresh)

\* The oldest transaction of the queue is executed for the coroutine by.
AtHead(by) == queue # <<>> /\ Head(queue).by = by
Commits(by) ==
    /\ AtHead(by)
    /\ runStore' = Effect(Head(queue))

\* The oldest transaction fails and leaves the stored state alone.
PlannerFault == plannerFaults < MaxPlannerFaults /\ plannerFaults' = plannerFaults + 1
Rejects(by) ==
    /\ AtHead(by)
    /\ PlannerFault
    /\ UNCHANGED runStore

\* The coroutine stops waiting; its transaction stays in the queue.
Orphaned(by) ==
    [i \in DOMAIN queue |-> IF queue[i].by = by THEN [queue[i] EXCEPT !.by = "nobody"]
                            ELSE queue[i]]
TimesOut == PlannerFault /\ UNCHANGED runStore

\* A transaction nobody waits for any more is executed, or fails.
OrphanSettles ==
    /\ AtHead("nobody")
    /\ queue' = Tail(queue)
    /\ \/ runStore' = Effect(Head(queue)) /\ UNCHANGED plannerFaults
       \/ UNCHANGED runStore /\ PlannerFault
    /\ UNCHANGED <<mem, ready, calls, runtime, plannerClock, resets, owner>>

\* markPlannerStopUncertain: the flag at once, the marker when storage can.
Uncertain(m) == [m EXCEPT !.uncertain = TRUE]
UncertainMarker == StopWrite("uncertain", FALSE, "nobody")

-----------------------------------------------------------------------------
(* ensurePlannerReady *)

NotRunning == runtime.status \in {"stopped", "stopped_with_code"}

Loop(ctx) == [IdlePlanner EXCEPT !.pc = "loop", !.ctx = ctx]

\* A delivery that finds a readiness promise in flight only waits for it.
\* The others start here: an unresolved stop, in memory, stored, or shown by
\* a stopped planner with an active run, is reconciled before any start.
EnsurePlannerReady ==
    /\ ready.pc = "idle"
    /\ LET stored   == runStore.stop \in {"pending", "uncertain"}
           stopping == /\ runtime.status \in {"stopping", "stopped", "stopped_with_code"}
                       /\ runStore.active # NoRun
       IN  \/ /\ mem.pending
              /\ ready' = Loop("start") /\ UNCHANGED mem
           \/ /\ ~mem.pending /\ stored
              /\ mem' = Flags(TRUE, TRUE, runStore.stop = "uncertain")
              /\ ready' = Loop("start")
           \/ /\ ~mem.pending /\ ~stored /\ stopping
              /\ mem' = [mem EXCEPT !.cleanup = TRUE, !.pending = TRUE]
              /\ ready' = Loop("start")
           \/ /\ ~mem.pending /\ ~stored /\ ~stopping
              /\ ready' = [IdlePlanner EXCEPT !.pc = "starting"] /\ UNCHANGED mem
    /\ UNCHANGED <<runStore, queue, calls, runtime, plannerClock, plannerFaults, resets, owner>>

\* startAndWaitForPorts settles the runtime's own pending stop first; it then
\* starts a process unless one is running, and calls onStart.
StartPlanner ==
    /\ ready.pc = "starting"
    /\ \/ /\ runtime.status = "stopped"
          /\ runtime' = [runtime EXCEPT !.status = "running", !.proc = @ + 1, !.code = 0]
       \/ /\ runtime.status \in {"running", "stopping"}
          /\ UNCHANGED runtime
    /\ queue' = Append(queue, StartWrite)
    /\ ready' = [ready EXCEPT !.pc = "onstart"]
    /\ UNCHANGED <<runStore, mem, calls, plannerClock, plannerFaults, resets, owner>>

\* onStart has its started run; a new one belongs to the current process.
OnStart ==
    /\ ready.pc = "onstart"
    /\ Commits("ready")
    /\ queue' = Tail(queue)
    /\ owner' = IF reusesActiveRun(runStore) THEN owner
                ELSE [owner EXCEPT ![Fresh] = runtime.proc]
    /\ mem' = [mem EXCEPT !.cleanup = FALSE]
    /\ ready' = [ready EXCEPT !.pc = "ports"]
    /\ UNCHANGED <<calls, runtime, plannerClock, plannerFaults, resets>>

PlannerReady ==
    /\ ready.pc = "ports" /\ runtime.status = "running"
    /\ ready' = IdlePlanner
    /\ mem' = [mem EXCEPT !.cleanup = FALSE]
    /\ UNCHANGED <<runStore, queue, calls, runtime, plannerClock, plannerFaults, resets, owner>>

PendingAfter(q) == queue' = Append(q, StopWrite("pending", FALSE, "ready"))

\* The start fails: before a process runs, in onStart, or because the port is
\* never ready.  The pending marker is issued before the planner is stopped.
StartFails ==
    /\ \/ ready.pc = "starting" /\ PlannerFault /\ PendingAfter(queue)
       \/ /\ ready.pc = "ports" /\ PendingAfter(queue)
          /\ IF runtime.status = "running" THEN PlannerFault ELSE UNCHANGED plannerFaults
       \/ ready.pc = "onstart" /\ AtHead("ready") /\ PlannerFault /\ PendingAfter(Tail(queue))
    /\ mem' = [mem EXCEPT !.cleanup = TRUE, !.pending = TRUE]
    /\ ready' = [ready EXCEPT !.pc = "marking"]
    /\ UNCHANGED <<runStore, calls, runtime, plannerClock, resets, owner>>

\* The marker is stored, or its write failed or took too long.
PendingMarked ==
    /\ ready.pc = "marking"
    /\ \/ /\ Commits("ready") /\ queue' = Tail(queue)
          /\ ready' = [ready EXCEPT !.pc = "killing", !.ctx = "cleanup"]
          /\ UNCHANGED <<mem, plannerFaults>>
       \/ /\ \/ Rejects("ready") /\ queue' = Append(Tail(queue), UncertainMarker)
             \/ TimesOut /\ queue' = Append(Orphaned("ready"), UncertainMarker)
          /\ ready' = [ready EXCEPT !.pc = "killing", !.ctx = "unmarked"]
          /\ mem' = Uncertain(mem)
    /\ UNCHANGED <<calls, runtime, plannerClock, resets, owner>>

\* stop("SIGKILL"): a running planner is on its way down.  A stop that fails or
\* takes too long may have reached it all the same.
Signalled ==
    IF runtime.status = "running"
    THEN [runtime EXCEPT !.status = "stopping", !.killed = @ \cup {runtime.proc}]
    ELSE runtime

KillUnready ==
    /\ ready.pc = "killing"
    /\ \/ runtime' = Signalled /\ UNCHANGED plannerFaults
       \/ runtime' \in {runtime, Signalled} /\ PlannerFault
    /\ IF ready.ctx = "cleanup"
       THEN ready' = Loop("cleanup") /\ UNCHANGED mem
       ELSE ready' = IdlePlanner /\ mem' = [mem EXCEPT !.pending = TRUE]
    /\ UNCHANGED <<runStore, queue, calls, plannerClock, resets, owner>>

-----------------------------------------------------------------------------
(* waitForPlannerStopReconciliation *)

\* Reads that fail make the stop uncertain.
Reads(okState, okActive) ==
    IF okState /\ okActive THEN UNCHANGED <<mem, queue, plannerFaults>>
    ELSE /\ PlannerFault
         /\ mem' = Uncertain(mem)
         /\ queue' = Append(queue, UncertainMarker)

ReadState ==
    /\ ready.pc = "loop"
    /\ \E okState, okActive \in BOOLEAN :
          LET stopped == okState /\ NotRunning
              active  == IF okActive THEN runStore.active ELSE UnknownRun
              retry   == ~ready.attempted \/ ~stopped \/ active # NoRun
          IN  /\ Reads(okState, okActive)
              /\ ready' = [ready EXCEPT !.pc = IF retry THEN "stop" ELSE "settle",
                                        !.stopped = stopped, !.active = active]
    /\ UNCHANGED <<runStore, calls, runtime, plannerClock, resets, owner>>

\* The stop is sent again, unless the last one is too recent; the active run
\* is read again after it.
SendStop ==
    /\ ready.pc = "stop"
    /\ \/ /\ ready.attempted
          /\ ready' = [ready EXCEPT !.pc = "settle"]
          /\ UNCHANGED <<mem, queue, runtime, plannerFaults>>
       \/ \E okStop, okActive \in BOOLEAN :
             /\ Reads(okStop, okActive)
             /\ runtime' \in IF okStop THEN {Signalled} ELSE {runtime, Signalled}
             /\ ready' = [ready EXCEPT !.pc = "settle", !.attempted = TRUE,
                             !.active = IF okActive THEN runStore.active ELSE UnknownRun]
    /\ UNCHANGED <<runStore, calls, plannerClock, resets, owner>>

\* onStop begins: the flag and the active run are read now and used later.
Begun(by, cleanup, code, reason) ==
    [pc |-> IF runStore.active = NoRun THEN "clearing" ELSE "completing", by |-> by,
     cleanup |-> cleanup, run |-> runStore.active, code |-> code, reason |-> reason]
FirstWrite(c, call) ==
    IF call.pc = "clearing" THEN StopWrite("clear", TRUE, c) ELSE Completion(c, call)

StateCode == IF runtime.status = "stopped_with_code" THEN runtime.code ELSE 0

\* A planner known to be stopped has its active run terminalized explicitly.
\* Faulty variant: the planner need not be stopped.
Terminalize_any(c) ==
    /\ ready.pc = "settle" /\ ready.active \in Run
    /\ calls[c].pc = "free"
    /\ mem' = [mem EXCEPT !.cleanup = TRUE]
    /\ LET call == Begun("ready", TRUE, StateCode, "runtime_signal")
       IN  /\ calls' = [calls EXCEPT ![c] = call]
           /\ queue' = Append(queue, FirstWrite(c, call))
    /\ ready' = [ready EXCEPT !.pc = "terminal"]
    /\ UNCHANGED <<runStore, runtime, plannerClock, plannerFaults, resets, owner>>
Terminalize(c) ==
    /\ ready.pc = "settle" /\ ready.stopped /\ ready.active \in Run
    /\ calls[c].pc = "free"
    /\ mem' = [mem EXCEPT !.cleanup = TRUE]
    /\ LET call == Begun("ready", TRUE, StateCode, "runtime_signal")
       IN  /\ calls' = [calls EXCEPT ![c] = call]
           /\ queue' = Append(queue, FirstWrite(c, call))
    /\ ready' = [ready EXCEPT !.pc = "terminal"]
    /\ UNCHANGED <<runStore, runtime, plannerClock, plannerFaults, resets, owner>>

\* The explicit onStop returned, threw, or is left to finish by itself.
Terminalized(c) ==
    /\ ready.pc = "terminal" /\ calls[c].by = "ready"
    /\ \E okActive \in BOOLEAN :
          /\ \/ /\ calls[c].pc = "done"
                /\ Reads(TRUE, okActive)
                /\ calls' = [calls EXCEPT ![c] = NoCall]
             \/ /\ calls[c].pc = "failed"
                /\ mem' = Uncertain(mem) /\ queue' = Append(queue, UncertainMarker)
                /\ IF okActive THEN UNCHANGED plannerFaults ELSE PlannerFault
                /\ calls' = [calls EXCEPT ![c] = NoCall]
             \/ /\ calls[c].pc \in {"completing", "clearing"}
                /\ Reads(FALSE, okActive)
                /\ calls' = [calls EXCEPT ![c].by = "nobody"]
          /\ ready' = [ready EXCEPT !.pc = "finish",
                          !.active = IF okActive THEN runStore.active ELSE UnknownRun]
    /\ UNCHANGED <<runStore, runtime, plannerClock, resets, owner>>

\* The wait returns to its caller: a failed start throws with the stop still
\* pending, any other caller starts the planner if nothing is pending.
Returned(m) ==
    IF ready.ctx = "cleanup"
    THEN ready' = IdlePlanner /\ mem' = [m EXCEPT !.pending = TRUE]
    ELSE /\ mem' = m
         /\ ready' = IF m.pending THEN IdlePlanner ELSE [IdlePlanner EXCEPT !.pc = "starting"]

Settle ==
    /\ \/ ready.pc = "settle" /\ ~(ready.stopped /\ ready.active \in Run)
       \/ ready.pc = "finish"
    /\ \/ /\ ready.stopped /\ ready.active = NoRun /\ mem.uncertain
          /\ Returned(mem) /\ UNCHANGED queue
       \/ /\ ready.stopped /\ ready.active = NoRun /\ ~mem.uncertain
          /\ queue' = Append(queue, StopWrite("clear", FALSE, "ready"))
          /\ ready' = [ready EXCEPT !.pc = "clearing"]
          /\ UNCHANGED mem
       \/ /\ ~(ready.stopped /\ ready.active = NoRun)
          /\ ready' = [ready EXCEPT !.pc = "loop"]
          /\ UNCHANGED <<mem, queue>>
    /\ UNCHANGED <<runStore, calls, runtime, plannerClock, plannerFaults, resets, owner>>

StopCleared ==
    /\ ready.pc = "clearing"
    /\ \/ /\ Commits("ready") /\ queue' = Tail(queue)
          /\ Returned([mem EXCEPT !.pending = FALSE])
          /\ UNCHANGED plannerFaults
       \/ /\ \/ Rejects("ready") /\ queue' = Append(Tail(queue), UncertainMarker)
             \/ TimesOut /\ queue' = Append(Orphaned("ready"), UncertainMarker)
          /\ mem' = Uncertain(mem)
          /\ ready' = [ready EXCEPT !.pc = "loop"]
    /\ UNCHANGED <<calls, runtime, plannerClock, resets, owner>>

\* The five seconds are over.
Deadline ==
    /\ ready.pc \in {"loop", "stop", "settle", "finish"}
    /\ Returned(mem)
    /\ UNCHANGED <<runStore, queue, calls, runtime, plannerClock, plannerFaults, resets, owner>>

-----------------------------------------------------------------------------
(* onStop *)

\* The runtime reports a planner that ended: one report at a time, and not
\* before the onStart it is calling has returned.
\* Faulty variant: the cleanup flag is ignored.
OnStop_unflagged(c, reason) ==
    /\ runtime.status = "stopped_with_code" /\ ready.pc # "onstart"
    /\ calls[c].pc = "free"
    /\ \A d \in Call : calls[d].by # "runtime"
    /\ LET call == Begun("runtime", FALSE, runtime.code, reason)
       IN  /\ calls' = [calls EXCEPT ![c] = call]
           /\ queue' = Append(queue, FirstWrite(c, call))
    /\ UNCHANGED <<runStore, mem, ready, runtime, plannerClock, plannerFaults, resets, owner>>
OnStop(c, reason) ==
    /\ runtime.status = "stopped_with_code" /\ ready.pc # "onstart"
    /\ calls[c].pc = "free"
    /\ \A d \in Call : calls[d].by # "runtime"
    /\ LET call == Begun("runtime", mem.cleanup, runtime.code, reason)
       IN  /\ calls' = [calls EXCEPT ![c] = call]
           /\ queue' = Append(queue, FirstWrite(c, call))
    /\ UNCHANGED <<runStore, mem, ready, runtime, plannerClock, plannerFaults, resets, owner>>

\* The run is terminal: the stop marker is cleared whatever it says.
RunCompleted(c) ==
    /\ calls[c].pc = "completing"
    /\ Commits(c)
    /\ queue' = Append(Tail(queue), StopWrite("clear", TRUE, c))
    /\ calls' = [calls EXCEPT ![c].pc = "clearing"]
    /\ UNCHANGED <<mem, ready, runtime, plannerClock, plannerFaults, resets, owner>>

\* The caller of onStop takes its result.  The runtime knows the planner as
\* stopped once onStop returned, and reports the stop again if it threw.
Finished(c, result) ==
    IF calls[c].by = "ready"
    THEN calls' = [calls EXCEPT ![c].pc = result] /\ UNCHANGED runtime
    ELSE /\ calls' = [calls EXCEPT ![c] = NoCall]
         /\ runtime' = IF calls[c].by = "runtime" /\ result = "done"
                       THEN [runtime EXCEPT !.status = "stopped"] ELSE runtime

MarkerCleared(c) ==
    /\ calls[c].pc = "clearing"
    /\ Commits(c)
    /\ queue' = Tail(queue)
    /\ mem' = Flags(FALSE, FALSE, FALSE)
    /\ Finished(c, "done")
    /\ UNCHANGED <<ready, plannerClock, plannerFaults, resets, owner>>

\* Faulty variant: an error is not passed on to the caller.
OnStopThrows_swallowed(c) ==
    /\ calls[c].pc \in {"completing", "clearing"}
    /\ Rejects(c) /\ queue' = Tail(queue)
    /\ Finished(c, "done")
    /\ UNCHANGED <<mem, ready, plannerClock, resets, owner>>
OnStopThrows(c) ==
    /\ calls[c].pc \in {"completing", "clearing"}
    /\ \/ Rejects(c) /\ queue' = Tail(queue)
       \/ calls[c].pc = "clearing" /\ TimesOut /\ queue' = Orphaned(c)
    /\ Finished(c, "failed")
    /\ UNCHANGED <<mem, ready, plannerClock, resets, owner>>

-----------------------------------------------------------------------------
(* The environment *)

Ended(code) == [runtime EXCEPT !.status = "stopped_with_code", !.code = code]

PlannerExits(code) ==
    /\ \/ runtime.status = "stopping" /\ runtime' = Ended(code)
       \/ /\ runtime.status = "running" /\ runtime.exits < MaxExits
          /\ runtime' = [Ended(code) EXCEPT !.exits = @ + 1]
    /\ UNCHANGED <<runStore, queue, mem, ready, calls, plannerClock, plannerFaults, resets, owner>>

ObjectReset ==
    /\ resets < MaxResets
    /\ resets' = resets + 1
    /\ queue' = <<>>
    /\ mem' = Flags(FALSE, FALSE, FALSE)
    /\ ready' = IdlePlanner
    /\ calls' = [c \in Call |-> NoCall]
    /\ runtime' = [runtime EXCEPT !.killed = {}]
    /\ UNCHANGED <<runStore, plannerClock, plannerFaults, owner>>

PlannerTick ==
    /\ plannerClock < MaxPlannerClock
    /\ plannerClock' = plannerClock + 1
    /\ UNCHANGED <<runStore, queue, mem, ready, calls, runtime, plannerFaults, resets, owner>>

Readiness ==
    \/ StartPlanner \/ OnStart \/ PlannerReady \/ StartFails
    \/ PendingMarked \/ KillUnready \/ ReadState \/ SendStop \/ Settle
    \/ StopCleared \/ \E c \in Call : Terminalize(c) \/ Terminalized(c)

Stops(c) == RunCompleted(c) \/ MarkerCleared(c) \/ OnStopThrows(c)

PlannerNext ==
    \/ EnsurePlannerReady \/ Readiness \/ Deadline
    \/ \E c \in Call : Stops(c)
    \/ \E c \in Call, reason \in {"exit", "runtime_signal"} : OnStop(c, reason)
    \/ \E code \in {0, 1} : PlannerExits(code)
    \/ OrphanSettles \/ ObjectReset \/ PlannerTick

PlannerSpec == PlannerInit /\ [][PlannerNext]_plannerVars

\* Storage answers, calls return, a wait does not always end at its deadline,
\* the runtime reports a stop, a planner that was sent SIGKILL dies, and the
\* cron fires again.
PlannerFairSpec ==
    /\ PlannerSpec
    /\ WF_plannerVars(OrphanSettles)
    /\ WF_plannerVars(Readiness)
    /\ SF_plannerVars(ReadState) /\ SF_plannerVars(SendStop)
    /\ SF_plannerVars(Settle) /\ SF_plannerVars(StopCleared)
    /\ \A c \in Call : SF_plannerVars(Terminalize(c)) /\ SF_plannerVars(Terminalized(c))
    /\ WF_plannerVars(EnsurePlannerReady)
    /\ \A c \in Call : WF_plannerVars(Stops(c))
    /\ WF_plannerVars(\E c \in Call : OnStop(c, "exit"))
    /\ WF_plannerVars(runtime.status = "stopping" /\ PlannerExits(1))

-----------------------------------------------------------------------------
(* Properties *)

Coroutine == Call \cup {"ready", "nobody"}

PlannerTypeOK ==
    /\ runStore.active \in Run \cup {NoRun}
    /\ runStore.lastCompletion \in Run \cup {NoRun}
    /\ runStore.lastSuccess \in Run \cup {NoRun}
    /\ runStore.runs \in [Run -> Records]
    /\ runStore.seq \in Nat
    /\ runStore.stop \in {"clear", "pending", "uncertain"}
    /\ \A i \in DOMAIN queue : queue[i].by \in Coroutine
    /\ mem \in [cleanup : BOOLEAN, pending : BOOLEAN, uncertain : BOOLEAN]
    /\ ready.pc \in {"idle", "loop", "stop", "settle", "terminal", "finish", "clearing",
                     "starting", "onstart", "ports", "marking", "killing"}
    /\ ready.active \in Run \cup {NoRun, UnknownRun}
    /\ \A c \in Call : calls[c].pc \in {"free", "completing", "clearing", "done", "failed"}
    /\ runtime.status \in {"running", "stopping", "stopped", "stopped_with_code"}
    /\ owner \in [Run -> Nat]

Alive == runtime.status \in {"running", "stopping"}

\* A run record becomes terminal only after the planner it was started for has
\* ended: neither a readiness timeout nor a late stop report finishes the run
\* of a live planner.
TerminalMeansEnded ==
    \A r \in Run : TerminalRun(runStore.runs[r]) => ~(Alive /\ owner[r] = runtime.proc)

\* A started planner never inherits the run of its predecessor: while a
\* planner lives, the active run is its own.
RunIsItsOwn ==
    Alive /\ runStore.active # NoRun => owner[runStore.active] = runtime.proc

\* last-completion and last-success name the newest finished and the newest
\* clean run, whatever was reported twice or late.
Newest(S) == IF S = {} THEN NoRun
             ELSE CHOOSE r \in S : \A q \in S : runStore.runs[q].seq <= runStore.runs[r].seq
PointersAreNewest ==
    /\ runStore.lastCompletion = Newest({r \in Run : TerminalRun(runStore.runs[r])})
    /\ runStore.lastSuccess = Newest({r \in Run : isCleanSuccess(runStore.runs[r])})

\* A planner killed because it was not ready is never recorded as a clean run,
\* even if the runtime reports exit code 0 for it (unless the object was reset
\* in between, which loses the flag).
ForcedStopIsFailure ==
    \A r \in Run : owner[r] \in runtime.killed => ~isCleanSuccess(runStore.runs[r])

\* The health projection says "healthy" only if the run that finished last was
\* clean and is younger than the threshold.
HealthyMeansLastRunClean ==
    getOperatorSyncHealth(runStore, plannerClock, Threshold) = "healthy" =>
        LET last == Newest({r \in Run : TerminalRun(runStore.runs[r])})
        IN  /\ isCleanSuccess(runStore.runs[last])
            /\ plannerClock - runStore.runs[last].ended < Threshold

\* A run record is about its own planner: it ends only after that planner did,
\* a new planner does not inherit it, and the pointers name the newest runs.
RunsAreTold == TerminalMeansEnded /\ RunIsItsOwn /\ PointersAreNewest

\* Health is not flattered: a killed planner is no clean run, and "healthy"
\* means that the run that finished last was clean and recent.
HealthIsEarned == ForcedStopIsFailure /\ HealthyMeansLastRunClean

\* Once storage and the runtime work again, the planner comes back.
PlannerComesBack == []<>(runtime.status = "running")
=============================================================================
