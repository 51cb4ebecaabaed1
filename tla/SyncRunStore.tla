---------------------------- MODULE SyncRunStore ----------------------------
(***************************************************************************)
(* The durable sync-run records of the hub (hub/src/store.ts): one record  *)
(* per planner run, the pointer to the active run, and the pointers to the *)
(* last completion and to the last success.  Every operator is the body of *)
(* one storage transaction, from the stored state before it to the stored  *)
(* state after it.  The metadata of a run (digest, fingerprint, count) is  *)
(* left out: no transition reads it.                                       *)
(***************************************************************************)
EXTENDS Integers

CONSTANTS
    Run,    \* the run identifiers crypto.randomUUID can draw
    NoRun   \* an absent pointer

Absent == [status |-> "absent", class |-> "none", ended |-> 0, seq |-> 0]

Records ==
    [status : {"absent", "started", "succeeded", "failed"},
     class  : {"none", "started", "clean_exit", "nonzero_exit", "runtime_signal"},
     ended  : Nat,
     seq    : Nat]

NoRuns ==
    [active |-> NoRun, runs |-> [r \in Run |-> Absent], lastCompletion |-> NoRun,
     lastSuccess |-> NoRun, seq |-> 0, stop |-> "clear"]

TerminalRun(rec) == rec.status \in {"succeeded", "failed"}

isCleanSuccess(rec) == rec.status = "succeeded"

\* The later end wins; completions of the same instant are ordered by the
\* durable completion sequence.
\* Faulty variant: completions of one instant are not ordered.
isCompletionNewer_byTime(c, d) == c.ended > d.ended
isCompletionNewer(c, d) ==
    c.ended > d.ended \/ (c.ended = d.ended /\ c.seq > d.seq)

\* Faulty variant: only a clean run counts as a completion.
advanceLastCompletion_onSuccess(s, r) ==
    LET current == s.lastCompletion
        behind  == \/ current = NoRun
                   \/ isCompletionNewer(s.runs[r], s.runs[current])
    IN  IF isCleanSuccess(s.runs[r]) /\ behind THEN [s EXCEPT !.lastCompletion = r] ELSE s
advanceLastCompletion(s, r) ==
    LET current == s.lastCompletion
        behind  == \/ current = NoRun
                   \/ ~TerminalRun(s.runs[current])
                   \/ isCompletionNewer(s.runs[r], s.runs[current])
    IN  IF behind THEN [s EXCEPT !.lastCompletion = r] ELSE s

advanceLastSuccess(s, r) ==
    LET current == s.lastSuccess
        behind  == \/ current = NoRun
                   \/ ~isCleanSuccess(s.runs[current])
                   \/ isCompletionNewer(s.runs[r], s.runs[current])
    IN  IF isCleanSuccess(s.runs[r]) /\ behind THEN [s EXCEPT !.lastSuccess = r] ELSE s

clearActiveRun(s, r) == IF s.active = r THEN [s EXCEPT !.active = NoRun] ELSE s

\* Pointers of a run that is already terminal are brought up to date again.
repairTerminalRun(s, r) ==
    clearActiveRun(advanceLastSuccess(advanceLastCompletion(s, r), r), r)

finishedRecord(code, reason, at, seq) ==
    LET clean == reason = "exit" /\ code = 0
    IN  [status |-> IF clean THEN "succeeded" ELSE "failed",
         class  |-> IF reason = "runtime_signal" THEN "runtime_signal"
                    ELSE IF clean THEN "clean_exit" ELSE "nonzero_exit",
         ended  |-> at,
         seq    |-> seq]

\* A second completion of a finished run only repairs the pointers.
completeSyncRun(s, r, code, reason, at) ==
    CASE s.runs[r].status = "absent" -> s
      [] TerminalRun(s.runs[r])         -> repairTerminalRun(s, r)
      [] s.runs[r].status = "started" ->
             repairTerminalRun(
                 [s EXCEPT !.seq = @ + 1,
                           !.runs[r] = finishedRecord(code, reason, at, s.seq + 1)], r)

\* The run onStart uses: the active one while it is started, else a new one.
reusesActiveRun(s) == s.active # NoRun /\ s.runs[s.active].status = "started"

newStartedSyncRunRecord ==
    [status |-> "started", class |-> "started", ended |-> 0, seq |-> 0]

ensureStartedSyncRun(s, fresh) ==
    IF reusesActiveRun(s) THEN s
    ELSE [s EXCEPT !.runs[fresh] = newStartedSyncRunRecord, !.active = fresh]

\* A clear that is not forced never erases an uncertain stop.
writePlannerStopState(s, next, force) ==
    IF next = "clear" /\ ~force /\ s.stop = "uncertain" THEN s
    ELSE [s EXCEPT !.stop = next]

(***************************************************************************)
(* The health projection.  stale compares the age of the last success with *)
(* the threshold; the fingerprint comparison is left out (no fingerprint   *)
(* is configured).                                                         *)
(***************************************************************************)
healthStatus(active, hasSuccess, stale, nonzero) ==
    CASE active      -> "active"
      [] ~active /\ ~hasSuccess -> "unknown"
      [] ~active /\ hasSuccess /\ stale -> "stale"
      [] ~active /\ hasSuccess /\ ~stale /\ nonzero -> "degraded"
      [] OTHER       -> "healthy"

getOperatorSyncHealth(s, now, threshold) ==
    LET active  == reusesActiveRun(s)
        success == s.lastSuccess # NoRun /\ isCleanSuccess(s.runs[s.lastSuccess])
        failed  == s.lastCompletion # NoRun /\ s.runs[s.lastCompletion].status = "failed"
        stale   == success => now - s.runs[s.lastSuccess].ended >= threshold
    IN  healthStatus(active, success, stale, failed)
=============================================================================
