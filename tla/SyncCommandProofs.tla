-------------------------- MODULE SyncCommandProofs --------------------------
(***************************************************************************)
(* Proofs about SyncCommand for any set of processes, keys and values, any *)
(* kind of target and any bounds.                                          *)
(***************************************************************************)
EXTENDS SyncCommand, TLAPS

-----------------------------------------------------------------------------
(* The inductive invariant *)

\* The process that is past acquireTargetLock is the holder of the lock, and
\* runs without state exist on whole-file targets only.
LockInv ==
    /\ \A p \in Proc : pc[p] \in Locked <=> lock = p
    /\ \A p \in Proc : pc[p] = "stateless" => ~journalByDefault

InOperation(p) ==
    \/ pc[p] \in {"sync_key", "ack_key", "fail_key"}
    \/ pc[p] \in {"sync_all", "ack_all", "fail_all"} /\ todo[p] # {}

\* While its operation is open a process has exactly the saved journal in
\* memory, in which the keys left to write are pending and the others done.
OperationOK(p) ==
    InOperation(p) =>
      /\ mem[p] = disk
      /\ disk.phase = "pending"
      /\ todo[p] \subseteq disk.owned
      /\ \A k \in disk.owned : disk.status[k] = IF k \in todo[p] THEN "pending" ELSE "succeeded"

\* A loaded journal is the saved one, or empty because the saved one belongs
\* to another hash key.
LoadedOK(p) ==
    pc[p] \in Locked \ {"loading"} =>
      \/ mem[p] = disk
      \/ disk.domain # mem[p].domain /\ mem[p] = EmptyState(mem[p].domain)

\* The current key is one that is left to write, and an accepted request stays
\* applied until it is recorded.
AcceptedOK(p) ==
    /\ pc[p] \in {"ack_key", "fail_key"} => cur[p] \in todo[p]
    /\ journalByDefault /\ pc[p] = "ack_key" => remote[cur[p]] = snap[p][cur[p]]
    /\ journalByDefault /\ pc[p] = "ack_all" => \A k \in todo[p] : remote[k] = snap[p][k]

ProcessInv == \A p \in Proc : OperationOK(p) /\ LoadedOK(p) /\ AcceptedOK(p)

IInv == TypeOK /\ LockInv /\ ProcessInv /\ CacheTruthful

-----------------------------------------------------------------------------
(* Operators of the journal: each returns a journal *)

\* A new journal is a journal.
LEMMA EmptyStateType == \A d \in Nat : EmptyState(d) \in Journal
BY DEF EmptyState, Journal

\* So is what LoadSyncState returns, of either branch.
LEMMA LoadType == \A s \in Journal, d \in Nat : LoadSyncState(s, d) \in Journal
BY EmptyStateType DEF LoadSyncState

\* So is what BeginOperation makes of one.
LEMMA BeginType ==
    ASSUME NEW s \in Journal, NEW K \in SUBSET Key
    PROVE  BeginOperation(s, K) \in Journal
<1>1. \A k \in Key : ReplacedStatus(s, k) \in OutcomeStatus \cup {"none"}
  BY DEF ReplacedStatus, Journal, OutcomeStatus
<1> QED BY <1>1 DEF BeginOperation, Journal, OperationPhase, OutcomeStatus

\* So are the results of recording one key.
LEMMA RecordKeyType ==
    ASSUME NEW s \in Journal, NEW k \in Key, NEW v \in Value \cup {None}
    PROVE  /\ RecordKeySuccess(s, k, v) \in Journal
           /\ RecordKeyNeedsReconciliation(s, k) \in Journal
BY DEF RecordKeySuccess, RecordKeyNeedsReconciliation, Journal, OperationPhase, OutcomeStatus

\* So is a finalized one.
LEMMA FinalizeType == \A s \in Journal : FinalizeOperation(s) \in Journal
BY DEF FinalizeOperation, Journal, OperationPhase

\* So are the results of recording a whole batch.
LEMMA RecordBatchType ==
    ASSUME NEW s \in Journal, NEW K \in SUBSET Key, NEW v \in Secrets
    PROVE  /\ RecordSuccess(s, K, v) \in Journal
           /\ RecordNeedsReconciliation(s, K) \in Journal
<1>1. RecordNeedsReconciliation(s, K) \in Journal
  BY DEF RecordNeedsReconciliation, Journal, OperationPhase, OutcomeStatus
<1> DEFINE t == [s EXCEPT !.status = [k \in Key |-> IF k \in K THEN "succeeded" ELSE @[k]],
                          !.hashes = [k \in Key |-> IF k \in K THEN v[k] ELSE @[k]]]
<1>2. t \in Journal
  BY DEF Journal, OutcomeStatus, Secrets
<1>3. RecordSuccess(s, K, v) = IF \A k \in K : k \in s.owned /\ s.status[k] # "needs_reconciliation"
                                 THEN FinalizeOperation(t) ELSE s
  BY DEF RecordSuccess
<1> QED BY <1>1, <1>2, <1>3, FinalizeType
-----------------------------------------------------------------------------
(* Results of the targets *)

\* A request writes its key or nothing, and writes it when it succeeds.
LEMMA SyncKeyResult ==
    ASSUME NEW t \in Secrets, NEW k \in Key, NEW v \in Value \cup {None},
           NEW result \in SyncKeyResults(t, k, v)
    PROVE  /\ result.target \in Secrets
           /\ result.ok => result.target[k] = v
           /\ \A j \in Key \ {k} : result.target[j] = t[j]
<1> DEFINE after == [t EXCEPT ![k] = v]
<1>1. result \in {Result(FALSE, t)} \cup doMutation(t, after)
  BY DEF SyncKeyResults, putSecret, putVariable, putWorkerSecret
<1>2. after \in Secrets /\ after[k] = v /\ \A j \in Key \ {k} : after[j] = t[j]
  BY DEF Secrets
<1> HIDE DEF after
<1>3. result.target \in {t, after} /\ (result.ok => result.target = after)
  BY <1>1 DEF doMutation, Result
<1> QED BY <1>2, <1>3

\* A batch that succeeds is written; an API target keeps every other key.
LEMMA SyncResult ==
    ASSUME NEW t \in Secrets, NEW K \in SUBSET Key, NEW v \in Secrets,
           NEW result \in SyncResults(t, K, v)
    PROVE  /\ result.target \in Secrets
           /\ result.ok => \A j \in K : result.target[j] = v[j]
           /\ journalByDefault => \A j \in Key \ K : result.target[j] = t[j]
<1>1. CASE journalByDefault
  <2>1. \/ result \in {Result(TRUE, t)} /\ K = {}
        \/ result \in doMutation(t, Merged(t, K, v))
    BY <1>1 DEF journalByDefault, SyncResults, syncPages
  <2>2. Merged(t, K, v) \in Secrets /\ \A j \in Key : Merged(t, K, v)[j] = IF j \in K THEN v[j] ELSE t[j]
    BY DEF Merged, Secrets
  <2>3. /\ result.target \in {t, Merged(t, K, v)}
        /\ result.ok => K = {} \/ result.target = Merged(t, K, v)
    BY <2>1 DEF doMutation, Result
  <2> QED BY <2>2, <2>3
<1>2. CASE ~journalByDefault
  <2>1. result \in atomicWrite(t, Replaced(t, K, v))
    BY <1>2, TargetAssumption DEF journalByDefault, SyncResults, DotenvSync, TerraformSync, K8sSync
  <2>2. Replaced(t, K, v) \in Secrets /\ \A j \in K : Replaced(t, K, v)[j] = v[j]
    BY DEF Replaced, Secrets
  <2>3. /\ result.target \in {t, Replaced(t, K, v)}
        /\ result.ok => result.target = Replaced(t, K, v)
    BY <2>1 DEF atomicWrite, Result
  <2> QED BY <1>2, <2>2, <2>3
<1> QED BY <1>1, <1>2
-----------------------------------------------------------------------------
(* Type correctness *)

\* A process that ends, however it does, leaves well-typed state.
LEMMA LeaveType ==
    ASSUME TypeOK, NEW p \in Proc, Leave(p)
    PROVE  /\ pc' \in [Proc -> Step] /\ lock' \in Proc \cup {NoProc}
           /\ mode' \in [Proc -> Modes \cup {""}] /\ snap' \in [Proc -> Secrets]
           /\ todo' \in [Proc -> SUBSET Key] /\ cur' \in [Proc -> Key \cup {None}]
           /\ mem' \in [Proc -> Journal]
<1>1. EmptyState(0) \in Journal
  BY EmptyStateType
<1>2. NoSecrets \in Secrets
  BY DEF NoSecrets, Secrets
<1> QED BY <1>1, <1>2 DEF Leave, TypeOK, Step

\* The counters that bound the model stay natural numbers.
LEMMA CounterType ==
    /\ faults \in Nat /\ Fault => faults' \in Nat
    /\ \A k, v : edits \in Nat /\ EditSource(k, v) => edits' \in Nat
    /\ domain \in Nat /\ ChangeHashKey => domain' \in Nat
BY DEF Fault, EditSource, ChangeHashKey

\* Every initial state is well typed.
LEMMA TypeInit == Init => TypeOK
<1> SUFFICES ASSUME Init PROVE TypeOK
  OBVIOUS
<1>1. EmptyState(0) \in Journal
  BY EmptyStateType
<1>2. NoSecrets \in Secrets
  BY DEF NoSecrets, Secrets
<1>3. /\ pc \in [Proc -> Step] /\ mode \in [Proc -> Modes \cup {""}]
      /\ todo \in [Proc -> SUBSET Key] /\ cur \in [Proc -> Key \cup {None}]
  BY DEF Init, Step
<1>4. snap \in [Proc -> Secrets] /\ mem \in [Proc -> Journal] /\ disk \in Journal
  BY <1>1, <1>2 DEF Init
<1> QED BY <1>3, <1>4 DEF Init, TypeOK

\* Every step keeps the types.
LEMMA TypeNext == TypeOK /\ ProcessInv /\ [Next]_vars => TypeOK'
<1> SUFFICES ASSUME TypeOK, ProcessInv, [Next]_vars PROVE TypeOK'
  OBVIOUS
<1> USE DEF TypeOK
<1>1. ASSUME NEW p \in Proc, NEW m \in Modes, List(p, m) PROVE TypeOK'
  BY <1>1 DEF List, Go, Step, Present
<1>2. ASSUME NEW p \in Proc, acquireTargetLock(p) PROVE TypeOK'
  BY <1>2 DEF acquireTargetLock, Step, local
<1>3. ASSUME NEW p \in Proc, Load(p) PROVE TypeOK'
  <2>1. LoadSyncState(disk, domain) \in Journal
    BY LoadType
  <2>2. \A s : Filtered(p, s) \in SUBSET Key
    BY DEF Filtered, FilterUnchanged, FilterAbsent
  <2> QED BY <1>3, <2>1, <2>2 DEF Load, Go, Step
<1>4. ASSUME NEW p \in Proc, Refuse(p) PROVE TypeOK'
  BY <1>4, LeaveType DEF Refuse
<1>5. ASSUME NEW p \in Proc, Recover(p) PROVE TypeOK'
  BY <1>5, FinalizeType DEF Recover, Save, FilterUnchanged
<1>6. ASSUME NEW p \in Proc, Begin(p) PROVE TypeOK'
  <2>1. BeginOperation(mem[p], todo[p]) \in Journal
    BY BeginType
  <2> QED BY <1>6, <2>1 DEF Begin, Save, Go, Step
<1>7. ASSUME NEW p \in Proc, NEW k \in Key, SyncKey(p, k) PROVE TypeOK'
  <2>1. snap[p][k] \in Value \cup {None}
    BY DEF Secrets
  <2>3. remote' \in Secrets
    <3>1. PICK result \in SyncKeyResults(remote, k, snap[p][k]) : remote' = result.target
      BY <1>7 DEF SyncKey
    <3> QED BY <2>1, <3>1, SyncKeyResult
  <2>5. faults' \in Nat
    BY <1>7, CounterType DEF SyncKey
  <2>4. pc' \in [Proc -> Step] /\ lock' = lock
    BY <1>7 DEF SyncKey, Go, Step
  <2> QED BY <1>7, <2>3, <2>4, <2>5 DEF SyncKey
<1>8. ASSUME NEW p \in Proc, RecordKey(p) PROVE TypeOK'
  <2>1. cur[p] \in Key
    BY <1>8 DEF RecordKey, ProcessInv, AcceptedOK
  <2>2. snap[p][cur[p]] \in Value \cup {None}
    <3>1. snap[p] \in Secrets
      OBVIOUS
    <3> QED BY <2>1, <3>1 DEF Secrets
  <2>3. RecordKeySuccess(mem[p], cur[p], snap[p][cur[p]]) \in Journal
    BY <2>1, <2>2, RecordKeyType
  <2> QED BY <1>8, <2>3 DEF RecordKey, Save, Go, Step
<1>9. ASSUME NEW p \in Proc, FailKey(p) PROVE TypeOK'
  <2>1. cur[p] \in Key
    BY <1>9 DEF FailKey, ProcessInv, AcceptedOK
  <2>2. RecordKeyNeedsReconciliation(mem[p], cur[p]) \in Journal
    BY <2>1, RecordKeyType, NoneAssumption
  <2> QED BY <1>9, <2>2, LeaveType DEF FailKey
<1>10. ASSUME NEW p \in Proc, FinishKeys(p) PROVE TypeOK'
  BY <1>10, FinalizeType, LeaveType DEF FinishKeys
<1>11. ASSUME NEW p \in Proc, SyncAll(p) PROVE TypeOK'
  <2>2. remote' \in Secrets
    <3>1. PICK result \in SyncResults(remote, todo[p], snap[p]) : remote' = result.target
      BY <1>11 DEF SyncAll
    <3> QED BY <3>1, SyncResult
  <2>4. faults' \in Nat
    BY <1>11, CounterType DEF SyncAll
  <2>3. pc' \in [Proc -> Step] /\ lock' = lock
    BY <1>11 DEF SyncAll, Go, Step
  <2> QED BY <1>11, <2>2, <2>3, <2>4 DEF SyncAll, local
<1>12. ASSUME NEW p \in Proc, RecordAll(p) PROVE TypeOK'
  <2>1. RecordSuccess(mem[p], todo[p], snap[p]) \in Journal
    BY RecordBatchType
  <2> QED BY <1>12, <2>1, LeaveType DEF RecordAll
<1>13. ASSUME NEW p \in Proc, FailAll(p) PROVE TypeOK'
  <2>1. RecordNeedsReconciliation(mem[p], todo[p]) \in Journal
    BY RecordBatchType
  <2> QED BY <1>13, <2>1, LeaveType DEF FailAll
<1>14. ASSUME NEW p \in Proc, SyncStateless(p) PROVE TypeOK'
  <2>1. remote' \in Secrets
    <3>1. PICK result \in SyncResults(remote, todo[p], snap[p]) : remote' = result.target
      BY <1>14 DEF SyncStateless
    <3> QED BY <3>1, SyncResult
  <2>2. faults' \in Nat
    BY <1>14, CounterType DEF SyncStateless
  <2> QED BY <1>14, <2>1, <2>2, LeaveType DEF SyncStateless
<1>15. ASSUME NEW p \in Proc, Exit(p) PROVE TypeOK'
  BY <1>15, LeaveType, CounterType DEF Exit
<1>16. ASSUME NEW k \in Key, NEW v \in Value \cup {None}, EditSource(k, v) PROVE TypeOK'
  <2>1. edits' \in Nat
    BY <1>16, CounterType
  <2>2. source' \in Secrets
    BY <1>16 DEF EditSource, Secrets
  <2> QED BY <1>16, <2>1, <2>2 DEF EditSource, local
<1>17. CASE ChangeHashKey
  <2>1. domain' \in Nat
    BY <1>17, CounterType
  <2> QED BY <1>17, <2>1 DEF ChangeHashKey, local
<1>18. CASE UNCHANGED vars
  BY <1>18 DEF vars
<1> QED
  BY <1>1, <1>2, <1>3, <1>4, <1>5, <1>6, <1>7, <1>8, <1>9, <1>10, <1>11, <1>12, <1>13,
     <1>14, <1>15, <1>16, <1>17, <1>18 DEF Next, Command

-----------------------------------------------------------------------------
(* What the operators of the journal change *)

\* A new journal knows no hash and owns no key.
LEMMA EmptyEffect ==
    \A d : LET e == EmptyState(d)
          IN  /\ e.domain = d /\ e.phase = "" /\ e.owned = {}
              /\ e.hashes = [k \in Key |-> None] /\ e.status = [k \in Key |-> "none"]
BY DEF EmptyState

\* BeginOperation opens exactly the given keys and keeps every hash.
LEMMA BeginEffect ==
    ASSUME NEW s \in Journal, NEW K \in SUBSET Key
    PROVE  LET b == BeginOperation(s, K)
           IN  /\ b.phase = "pending" /\ b.owned = K
               /\ b.hashes = s.hashes /\ b.domain = s.domain
               /\ \A k \in K : b.status[k] = "pending"
BY DEF BeginOperation, Journal

\* Journal r is s with key k confirmed at v.
KeyConfirmed(r, s, k, v) ==
    /\ r.phase = s.phase /\ r.owned = s.owned /\ r.domain = s.domain
    /\ \A j \in Key : r.status[j] = IF j = k THEN "succeeded" ELSE s.status[j]
    /\ \A j \in Key : r.hashes[j] = IF j = k THEN v ELSE s.hashes[j]

\* Journal r is s with the keys K confirmed at v.
BatchConfirmed(r, s, K, v) ==
    /\ r.owned = s.owned /\ r.domain = s.domain
    /\ \A j \in Key : r.status[j] = IF j \in K THEN "succeeded" ELSE s.status[j]
    /\ \A j \in Key : r.hashes[j] = IF j \in K THEN v[j] ELSE s.hashes[j]

\* A confirmed key gets its hash; no other key changes.
LEMMA RecordKeySuccessEffect ==
    ASSUME NEW s \in Journal, NEW k \in Key, NEW v \in Value \cup {None},
           k \in s.owned, s.status[k] = "pending"
    PROVE  KeyConfirmed(RecordKeySuccess(s, k, v), s, k, v)
BY DEF RecordKeySuccess, Journal, KeyConfirmed

\* A failed key marks itself and the operation, and keeps the hash it had.
LEMMA RecordKeyNeedsReconciliationEffect ==
    ASSUME NEW s \in Journal, NEW k \in Key, k \in s.owned, s.status[k] = "pending"
    PROVE  LET r == RecordKeyNeedsReconciliation(s, k)
           IN  /\ r.phase = "needs_reconciliation" /\ r.owned = s.owned /\ r.domain = s.domain
               /\ \A j \in Key : r.status[j] = IF j = k THEN "needs_reconciliation" ELSE s.status[j]
               /\ r.hashes = s.hashes
BY DEF RecordKeyNeedsReconciliation, Journal

\* FinalizeOperation changes the phase alone.
LEMMA FinalizeEffect ==
    ASSUME NEW s \in Journal
    PROVE  LET f == FinalizeOperation(s)
           IN  /\ f.owned = s.owned /\ f.domain = s.domain
               /\ f.status = s.status /\ f.hashes = s.hashes
               /\ f.owned # {} => f.phase # ""
               /\ f.owned # {} /\ f.phase # "needs_reconciliation" =>
                    \A k \in s.owned : s.status[k] # "needs_reconciliation"
BY DEF FinalizeOperation, Journal

\* A confirmed batch gets the hashes of its keys; no other key changes.
LEMMA RecordSuccessEffect ==
    ASSUME NEW s \in Journal, NEW K \in SUBSET Key, NEW v \in Secrets,
           \A k \in K : k \in s.owned /\ s.status[k] = "pending"
    PROVE  BatchConfirmed(RecordSuccess(s, K, v), s, K, v)
<1> DEFINE t == [s EXCEPT !.status = [k \in Key |-> IF k \in K THEN "succeeded" ELSE @[k]],
                          !.hashes = [k \in Key |-> IF k \in K THEN v[k] ELSE @[k]]]
<1>1. t \in Journal
  BY DEF Journal, OutcomeStatus, Secrets
<1>2. RecordSuccess(s, K, v) = FinalizeOperation(t)
  BY DEF RecordSuccess
<1>3. /\ t.owned = s.owned /\ t.domain = s.domain
      /\ t.status = [k \in Key |-> IF k \in K THEN "succeeded" ELSE s.status[k]]
      /\ t.hashes = [k \in Key |-> IF k \in K THEN v[k] ELSE s.hashes[k]]
  BY DEF Journal
<1>5. /\ \A j \in Key : t.status[j] = IF j \in K THEN "succeeded" ELSE s.status[j]
      /\ \A j \in Key : t.hashes[j] = IF j \in K THEN v[j] ELSE s.hashes[j]
  BY <1>3
<1> HIDE DEF t
<1>4. LET f == FinalizeOperation(t)
      IN  /\ f.owned = t.owned /\ f.domain = t.domain /\ f.status = t.status /\ f.hashes = t.hashes
  BY <1>1, FinalizeEffect
<1> QED BY <1>2, <1>3, <1>4, <1>5 DEF BatchConfirmed

\* A failed batch marks its keys and the operation, and keeps every hash.
LEMMA RecordNeedsReconciliationEffect ==
    ASSUME NEW s \in Journal, NEW K \in SUBSET Key,
           \A k \in K : k \in s.owned /\ s.status[k] = "pending"
    PROVE  LET r == RecordNeedsReconciliation(s, K)
           IN  /\ r.phase = "needs_reconciliation" /\ r.owned = s.owned /\ r.domain = s.domain
               /\ \A j \in Key : r.status[j] = IF j \in K THEN "needs_reconciliation" ELSE s.status[j]
               /\ r.hashes = s.hashes
<1>1. RecordNeedsReconciliation(s, K) =
        [s EXCEPT !.phase  = "needs_reconciliation",
                  !.status = [k \in Key |-> IF k \in K THEN "needs_reconciliation" ELSE @[k]]]
  BY DEF RecordNeedsReconciliation
<1>2. LET r == RecordNeedsReconciliation(s, K)
      IN  /\ r.phase = "needs_reconciliation" /\ r.owned = s.owned /\ r.domain = s.domain
          /\ r.status = [k \in Key |-> IF k \in K THEN "needs_reconciliation" ELSE s.status[k]]
          /\ r.hashes = s.hashes
  BY <1>1 DEF Journal
<1> QED BY <1>2

-----------------------------------------------------------------------------
(* The invariant is inductive *)

\* Two processes never hold the target lock.
LEMMA LockExclusive ==
    ASSUME LockInv, NEW p \in Proc, NEW q \in Proc, pc[p] \in Locked, pc[q] \in Locked
    PROVE  p = q
BY DEF LockInv

\* Every initial state satisfies the invariant.
LEMMA IInvInit == Init => IInv
<1> SUFFICES ASSUME Init PROVE IInv
  OBVIOUS
<1>1. TypeOK
  BY TypeInit
<1>2. \A p \in Proc : pc[p] = "idle"
  BY DEF Init
<1>3. LockInv
  BY <1>2, NoProcAssumption DEF Init, LockInv, Locked
<1>4. ProcessInv
  BY <1>2 DEF ProcessInv, OperationOK, LoadedOK, AcceptedOK, InOperation, Locked
<1>5. CacheTruthful
  <2>1. \A k \in Key : disk.hashes[k] = None
    BY DEF Init, EmptyState
  <2> QED BY <2>1 DEF CacheTruthful
<1> QED BY <1>1, <1>3, <1>4, <1>5 DEF IInv

\* A process that leaves the command keeps the lock discipline.
LEMMA LockLeave ==
    ASSUME TypeOK, LockInv, NEW p \in Proc, Leave(p)
    PROVE  LockInv'
BY NoProcAssumption DEF TypeOK, LockInv, Leave, Locked, Step, journalByDefault

\* Every step keeps the lock with the process that works under it.
LEMMA LockNext == TypeOK /\ LockInv /\ [Next]_vars => LockInv'
<1> SUFFICES ASSUME TypeOK, LockInv, [Next]_vars PROVE LockInv'
  OBVIOUS
<1>1. ASSUME NEW p \in Proc, NEW step \in Locked, pc[p] \in Locked, Go(p, step) PROVE LockInv'
  BY <1>1 DEF TypeOK, LockInv, Go, Locked, Step, journalByDefault
<1>2. ASSUME NEW p \in Proc, NEW m \in Modes, List(p, m) PROVE LockInv'
  BY <1>2 DEF List, Go, TypeOK, LockInv, Locked, Step, UsesState, journalByDefault
<1>3. ASSUME NEW p \in Proc, acquireTargetLock(p) PROVE LockInv'
  BY <1>3, NoProcAssumption
     DEF acquireTargetLock, TypeOK, LockInv, Locked, Step, journalByDefault
<1>4. ASSUME NEW p \in Proc, Load(p) PROVE LockInv'
  BY <1>1, <1>4 DEF Load, Locked, Step
<1>5. ASSUME NEW p \in Proc, Begin(p) PROVE LockInv'
  BY <1>1, <1>5 DEF Begin, Locked, Step
<1>6. ASSUME NEW p \in Proc, NEW k \in Key, SyncKey(p, k) PROVE LockInv'
  BY <1>1, <1>6 DEF SyncKey, Locked, Step
<1>7. ASSUME NEW p \in Proc, RecordKey(p) PROVE LockInv'
  BY <1>1, <1>7 DEF RecordKey, Locked, Step
<1>8. ASSUME NEW p \in Proc, SyncAll(p) PROVE LockInv'
  BY <1>1, <1>8 DEF SyncAll, Locked, Step
<1>9. ASSUME NEW p \in Proc, Leave(p) PROVE LockInv'
  BY <1>9, LockLeave
<1>10. ASSUME UNCHANGED <<lock, pc>> PROVE LockInv'
  BY <1>10 DEF LockInv, journalByDefault
<1> QED
  BY <1>2, <1>3, <1>4, <1>5, <1>6, <1>7, <1>8, <1>9, <1>10
     DEF Next, Command, Refuse, Recover, FailKey, FinishKeys, RecordAll, FailAll,
         SyncStateless, Exit, EditSource, ChangeHashKey, vars


\* A step of a process that is inside the lock concerns no other process.
LEMMA OthersOK ==
    ASSUME TypeOK, LockInv, NEW p \in Proc, pc[p] \in Locked,
           NEW q \in Proc, q # p, pc'[q] = pc[q]
    PROVE  OperationOK(q)' /\ LoadedOK(q)' /\ AcceptedOK(q)'
<1>1. pc'[q] \notin Locked
  BY LockExclusive
<1> QED BY <1>1 DEF OperationOK, LoadedOK, AcceptedOK, InOperation, Locked, Step

\* A process that ended has nothing left to promise.
LEMMA LeaveOK ==
    ASSUME TypeOK, NEW p \in Proc, Leave(p)
    PROVE  /\ OperationOK(p)' /\ LoadedOK(p)' /\ AcceptedOK(p)'
           /\ \A q \in Proc \ {p} : pc'[q] = pc[q]
BY DEF TypeOK, Leave, OperationOK, LoadedOK, AcceptedOK, InOperation, Locked, Step

\* Nothing that the invariant of q speaks of has changed.
LEMMA FrameOK ==
    ASSUME TypeOK, ProcessInv, NEW q \in Proc, pc'[q] = pc[q], todo'[q] = todo[q],
           mem'[q] = mem[q], snap'[q] = snap[q], cur'[q] = cur[q], disk' = disk,
           remote' = remote \/ ~journalByDefault
    PROVE  OperationOK(q)' /\ LoadedOK(q)' /\ AcceptedOK(q)'
BY DEF ProcessInv, OperationOK, LoadedOK, AcceptedOK, InOperation, journalByDefault

\* Every step keeps what each process relies on.
LEMMA ProcessNext == IInv /\ [Next]_vars => ProcessInv'
<1> SUFFICES ASSUME IInv, [Next]_vars, NEW q \in Proc
             PROVE  OperationOK(q)' /\ LoadedOK(q)' /\ AcceptedOK(q)'
  BY DEF ProcessInv
<1> USE DEF IInv
<1> DEFINE OK == OperationOK(q)' /\ LoadedOK(q)' /\ AcceptedOK(q)'
<1>1. ASSUME NEW p \in Proc, NEW m \in Modes, List(p, m) PROVE OK
  <2>1. CASE q = p
    BY <1>1, <2>1 DEF List, Go, TypeOK, OperationOK, LoadedOK, AcceptedOK, InOperation, Locked, Step
  <2>2. CASE q # p
    BY <1>1, <2>2, FrameOK DEF List, Go, TypeOK
  <2> QED BY <2>1, <2>2
<1>2. ASSUME NEW p \in Proc, acquireTargetLock(p) PROVE OK
  <2>1. CASE q = p
    BY <1>2, <2>1 DEF acquireTargetLock, TypeOK, OperationOK, LoadedOK, AcceptedOK, InOperation,
                      Locked, Step
  <2>2. CASE q # p
    BY <1>2, <2>2, FrameOK DEF acquireTargetLock, TypeOK, local
  <2> QED BY <2>1, <2>2
<1>3. ASSUME NEW p \in Proc, Load(p) PROVE OK
  <2>1. CASE q = p
    <3>1. pc'[p] = "deciding" /\ mem'[p] = LoadSyncState(disk, domain) /\ disk' = disk
      BY <1>3 DEF Load, Go, TypeOK
    <3>2. \/ mem'[p] = disk
          \/ disk.domain # mem'[p].domain /\ mem'[p] = EmptyState(mem'[p].domain)
      BY <3>1, EmptyEffect DEF LoadSyncState
    <3> QED BY <2>1, <3>1, <3>2 DEF OperationOK, LoadedOK, AcceptedOK, InOperation, Locked
  <2>2. CASE q # p
    BY <1>3, <2>2, OthersOK DEF Load, Go, TypeOK, Locked, Step
  <2> QED BY <2>1, <2>2
<1>4. ASSUME NEW p \in Proc, pc[p] \in Locked, Leave(p) PROVE OK
  <2>1. CASE q = p
    BY <1>4, <2>1, LeaveOK
  <2>2. CASE q # p
    <3>1. pc'[q] = pc[q]
      BY <1>4, <2>2, LeaveOK
    <3> QED BY <1>4, <2>2, <3>1, OthersOK
  <2> QED BY <2>1, <2>2
<1>5. ASSUME NEW p \in Proc, Recover(p) PROVE OK
  <2>1. CASE q = p
    BY <1>5, <2>1 DEF Recover, Save, TypeOK, OperationOK, LoadedOK, AcceptedOK, InOperation
  <2>2. CASE q # p
    BY <1>5, <2>2, OthersOK DEF Recover, TypeOK, Locked, Step
  <2> QED BY <2>1, <2>2
<1>6. ASSUME NEW p \in Proc, Begin(p) PROVE OK
  <2>1. CASE q = p /\ todo[p] = {}
    <3>1. /\ pc[p] = "deciding" /\ pc'[p] = "sync_all"
          /\ mem' = mem /\ disk' = disk /\ todo' = todo
      BY <1>6, <2>1 DEF Begin, Go, TypeOK
    <3> QED BY <2>1, <3>1 DEF ProcessInv, OperationOK, LoadedOK, AcceptedOK, InOperation, Locked, Step
  <2>2. CASE q = p /\ todo[p] # {}
    <3>1. /\ disk' = BeginOperation(mem[p], todo[p]) /\ mem'[p] = disk' /\ todo' = todo
          /\ pc'[p] \in {"sync_key", "sync_all"}
      BY <1>6, <2>2 DEF Begin, Save, Go, TypeOK
    <3>2. /\ disk'.phase = "pending" /\ disk'.owned = todo[p]
          /\ \A k \in todo[p] : disk'.status[k] = "pending"
      <4>1. mem[p] \in Journal /\ todo[p] \in SUBSET Key
        BY DEF TypeOK
      <4>2. disk' = BeginOperation(mem[p], todo[p])
        BY <3>1
      <4> HIDE <3>1
      <4> QED BY ONLY <4>1, <4>2, BeginEffect
    <3> QED BY <2>2, <3>1, <3>2 DEF OperationOK, LoadedOK, AcceptedOK, InOperation, Locked
  <2>3. CASE q # p
    BY <1>6, <2>3, OthersOK DEF Begin, Go, TypeOK, Locked, Step
  <2> QED BY <2>1, <2>2, <2>3
<1>7. ASSUME NEW p \in Proc, NEW k \in Key, SyncKey(p, k) PROVE OK
  <2>1. CASE q = p
    <3>1. /\ pc[p] = "sync_key" /\ pc'[p] \in {"ack_key", "fail_key"} /\ k \in todo[p]
          /\ cur'[p] = k /\ disk' = disk /\ todo' = todo /\ mem' = mem /\ snap' = snap
      BY <1>7 DEF SyncKey, Go, TypeOK
    <3>2. pc'[p] = "ack_key" => remote'[k] = snap[p][k]
      <4>1. remote \in Secrets /\ snap[p][k] \in Value \cup {None} /\ k \in Key
        BY DEF TypeOK, Secrets
      <4>2. PICK result \in SyncKeyResults(remote, k, snap[p][k]) :
              remote' = result.target /\ (pc'[p] = "ack_key" => result.ok)
        BY <1>7 DEF SyncKey, Go, TypeOK
      <4> QED BY ONLY <4>1, <4>2, SyncKeyResult
    <3> QED BY <2>1, <3>1, <3>2 DEF ProcessInv, OperationOK, LoadedOK, AcceptedOK, InOperation, Locked, Step
  <2>2. CASE q # p
    BY <1>7, <2>2, OthersOK DEF SyncKey, Go, TypeOK, Locked, Step
  <2> QED BY <2>1, <2>2
<1>8. ASSUME NEW p \in Proc, RecordKey(p) PROVE OK
  <2>1. CASE q = p
    <3> DEFINE k == cur[p]
    <3>1. /\ pc[p] = "ack_key" /\ pc'[p] = "sync_key" /\ mem'[p] = disk'
          /\ todo'[p] = todo[p] \ {k}
          /\ disk' = RecordKeySuccess(mem[p], k, snap[p][k])
      BY <1>8 DEF RecordKey, Save, Go, TypeOK
    <3>2. /\ k \in todo[p] /\ mem[p] = disk /\ disk.phase = "pending" /\ todo[p] \subseteq disk.owned
          /\ \A j \in disk.owned : disk.status[j] = IF j \in todo[p] THEN "pending" ELSE "succeeded"
      BY <3>1 DEF ProcessInv, OperationOK, AcceptedOK, InOperation
    <3>3. k \in Key /\ snap[p][k] \in Value \cup {None} /\ disk \in Journal
      <4>1. k \in Key /\ snap[p] \in Secrets
        BY <3>2 DEF TypeOK
      <4> QED BY <4>1 DEF TypeOK, Secrets
    <3> HIDE DEF k
    <3>6. k \in disk.owned /\ disk.status[k] = "pending"
      BY <3>2
    <3>4. /\ disk'.phase = "pending" /\ disk'.owned = disk.owned
          /\ \A j \in Key : disk'.status[j] = IF j = k THEN "succeeded" ELSE disk.status[j]
      <4>1. PICK v \in Value \cup {None} : disk' = RecordKeySuccess(disk, k, v)
        BY <3>1, <3>2, <3>3
      <4>2. /\ disk'.phase = disk.phase /\ disk'.owned = disk.owned
            /\ \A j \in Key : disk'.status[j] = IF j = k THEN "succeeded" ELSE disk.status[j]
        <5>1. KeyConfirmed(disk', disk, k, v)
          BY ONLY <3>3, <3>6, <4>1, RecordKeySuccessEffect
        <5> QED BY ONLY <5>1 DEF KeyConfirmed
      <4> QED BY <3>2, <4>2
    <3>5. \A j \in disk.owned : disk'.status[j] = IF j \in todo[p] \ {k} THEN "pending" ELSE "succeeded"
      BY <3>2, <3>3, <3>4 DEF Journal
    <3> QED BY <2>1, <3>1, <3>2, <3>4, <3>5
            DEF OperationOK, LoadedOK, AcceptedOK, InOperation
  <2>2. CASE q # p
    BY <1>8, <2>2, OthersOK DEF RecordKey, Go, TypeOK, Locked, Step
  <2> QED BY <2>1, <2>2
<1>9. ASSUME NEW p \in Proc, SyncAll(p) PROVE OK
  <2>1. CASE q = p
    <3>1. /\ pc[p] = "sync_all" /\ pc'[p] \in {"ack_all", "fail_all"}
          /\ disk' = disk /\ todo' = todo /\ mem' = mem /\ snap' = snap
      BY <1>9 DEF SyncAll, Go, TypeOK, local
    <3>2. pc'[p] = "ack_all" => \A k \in todo[p] : remote'[k] = snap[p][k]
      <4>1. remote \in Secrets /\ todo[p] \in SUBSET Key /\ snap[p] \in Secrets
        BY DEF TypeOK
      <4>2. PICK result \in SyncResults(remote, todo[p], snap[p]) :
              remote' = result.target /\ (pc'[p] = "ack_all" => result.ok)
        BY <1>9 DEF SyncAll, Go, TypeOK
      <4> QED BY <4>1, <4>2, SyncResult
    <3> QED BY <2>1, <3>1, <3>2 DEF ProcessInv, OperationOK, LoadedOK, AcceptedOK, InOperation, Locked, Step
  <2>2. CASE q # p
    BY <1>9, <2>2, OthersOK DEF SyncAll, Go, TypeOK, Locked, Step
  <2> QED BY <2>1, <2>2
<1>10. ASSUME NEW p \in Proc, pc[p] \notin Locked, Leave(p), disk' = disk,
              remote' = remote \/ ~journalByDefault
       PROVE  OK
  <2>1. CASE q # p
    BY <1>10, <2>1, FrameOK DEF Leave, TypeOK
  <2> QED BY <1>10, <2>1, LeaveOK
<1>11. ASSUME UNCHANGED <<remote, disk, pc, local>> PROVE OK
  BY <1>11, FrameOK DEF local
<1>12. ASSUME NEW p \in Proc, SyncStateless(p) PROVE OK
  BY <1>10, <1>12 DEF SyncStateless, LockInv, Locked
<1>13. ASSUME NEW p \in Proc, Exit(p) PROVE OK
  BY <1>4, <1>10, <1>13 DEF Exit
<1>14. ASSUME NEW p \in Proc, Refuse(p) \/ FailKey(p) \/ FinishKeys(p) \/ RecordAll(p) \/ FailAll(p)
       PROVE  OK
  BY <1>4, <1>14 DEF Refuse, FailKey, FinishKeys, RecordAll, FailAll, Locked, Step
<1> HIDE DEF OK
<1>15. OK
  BY <1>1, <1>2, <1>3, <1>5, <1>6, <1>7, <1>8, <1>9, <1>11, <1>12, <1>13, <1>14
     DEF Next, Command, EditSource, ChangeHashKey, vars, local
<1> QED BY <1>15 DEF OK


\* A loaded journal claims nothing that the saved one does not.
LEMMA LoadedHashes ==
    ASSUME ProcessInv, NEW p \in Proc, pc[p] \in Locked \ {"loading"}, NEW k \in Key,
           mem[p].hashes[k] # None
    PROVE  mem[p].hashes[k] = disk.hashes[k]
<1>1. CASE mem[p] = disk
  BY <1>1
<1>2. CASE mem[p] = EmptyState(mem[p].domain)
  <2>1. \A d : EmptyState(d).hashes[k] = None
    BY DEF EmptyState
  <2> QED BY <1>2, <2>1
<1> QED BY <1>1, <1>2 DEF ProcessInv, LoadedOK

\* What an operation in progress knows of its journal and of its keys.
LEMMA OperationFacts ==
    ASSUME IInv, NEW p \in Proc, InOperation(p)
    PROVE  /\ mem[p] = disk /\ disk \in Journal /\ disk.phase = "pending"
           /\ todo[p] \in SUBSET Key /\ snap[p] \in Secrets
           /\ \A k \in todo[p] : k \in disk.owned /\ disk.status[k] = "pending"
           /\ \A k \in disk.owned : disk.status[k] \in {"pending", "succeeded"}
BY DEF IInv, ProcessInv, OperationOK, TypeOK

\* Every step keeps the cached hashes true.
LEMMA CacheNext == IInv /\ [Next]_vars => CacheTruthful'
<1> SUFFICES ASSUME IInv, [Next]_vars, journalByDefault, NEW k \in Key,
                    k \notin unknown', disk'.hashes[k] # None
             PROVE  remote'[k] = disk'.hashes[k]
  BY DEF CacheTruthful, journalByDefault
<1> DEFINE Good == remote'[k] = disk'.hashes[k]
<1>1. ASSUME k \notin unknown, disk'.hashes[k] = disk.hashes[k], remote'[k] = remote[k] PROVE Good
  BY <1>1 DEF IInv, CacheTruthful
<1>2. ASSUME NEW p \in Proc, Recover(p) PROVE Good
  <2>1. mem[p] \in Journal /\ mem[p].hashes[k] = disk'.hashes[k]
    BY <1>2, FinalizeEffect DEF Recover, Save, IInv, TypeOK
  <2> QED BY <1>1, <1>2, <2>1, LoadedHashes DEF Recover, IInv, Locked, Step
<1>3. ASSUME NEW p \in Proc, Begin(p) PROVE Good
  <2>1. CASE todo[p] = {}
    BY <1>1, <1>3, <2>1 DEF Begin
  <2>2. CASE todo[p] # {}
    <3>1. mem[p] \in Journal /\ todo[p] \in SUBSET Key /\ disk' = BeginOperation(mem[p], todo[p])
      BY <1>3, <2>2 DEF Begin, Save, IInv, TypeOK
    <3>2. disk'.hashes = mem[p].hashes
      BY <3>1, BeginEffect
    <3> QED BY <1>1, <1>3, <3>2, LoadedHashes DEF Begin, IInv, Locked, Step
  <2> QED BY <2>1, <2>2
<1>4. ASSUME NEW p \in Proc, NEW j \in Key, SyncKey(p, j) PROVE Good
  <2>1. k # j /\ k \notin unknown /\ disk' = disk
    BY <1>4 DEF SyncKey
  <2>2. remote'[k] = remote[k]
    <3>1. remote \in Secrets /\ snap[p] \in Secrets
      BY DEF IInv, TypeOK
    <3>3. snap[p][j] \in Value \cup {None}
      BY <3>1 DEF Secrets
    <3>2. PICK result \in SyncKeyResults(remote, j, snap[p][j]) : remote' = result.target
      BY <1>4 DEF SyncKey
    <3> QED BY <2>1, <3>1, <3>2, <3>3, SyncKeyResult
  <2> QED BY <1>1, <2>1, <2>2
<1>5. ASSUME NEW p \in Proc, RecordKey(p) PROVE Good
  <2>1. /\ InOperation(p) /\ cur[p] \in todo[p] /\ remote' = remote
        /\ remote[cur[p]] = snap[p][cur[p]] /\ unknown' = unknown \ {cur[p]}
        /\ disk' = RecordKeySuccess(mem[p], cur[p], snap[p][cur[p]])
    BY <1>5 DEF RecordKey, Save, InOperation, IInv, ProcessInv, AcceptedOK
  <2>2. mem[p] = disk /\ disk \in Journal /\ todo[p] \in SUBSET Key /\ snap[p] \in Secrets
    BY <2>1, OperationFacts
  <2>3. cur[p] \in Key /\ cur[p] \in disk.owned /\ disk.status[cur[p]] = "pending"
    BY <2>1, OperationFacts
  <2>4. PICK v \in Value \cup {None}, c \in Key : v = snap[p][cur[p]] /\ c = cur[p]
    BY <2>2, <2>3 DEF Secrets
  <2>5. /\ disk' = RecordKeySuccess(disk, c, v) /\ c \in disk.owned /\ disk.status[c] = "pending"
        /\ c \in Key /\ v \in Value \cup {None} /\ disk \in Journal
    BY <2>1, <2>2, <2>3, <2>4
  <2>6. \A j \in Key : disk'.hashes[j] = IF j = c THEN v ELSE disk.hashes[j]
    <3>1. KeyConfirmed(disk', disk, c, v)
      BY ONLY <2>5, RecordKeySuccessEffect
    <3> QED BY ONLY <3>1 DEF KeyConfirmed
  <2>7. CASE k = cur[p]
    BY <2>1, <2>2, <2>4, <2>6, <2>7 DEF Journal
  <2>8. CASE k # cur[p]
    BY <1>1, <2>1, <2>2, <2>4, <2>6, <2>8 DEF Journal
  <2> QED BY <2>7, <2>8
<1>6. ASSUME NEW p \in Proc, FailKey(p) PROVE Good
  <2>1. InOperation(p) /\ cur[p] \in todo[p] /\ disk' = RecordKeyNeedsReconciliation(mem[p], cur[p])
    BY <1>6 DEF FailKey, InOperation, IInv, ProcessInv, AcceptedOK
  <2>2. /\ mem[p] = disk /\ disk \in Journal
        /\ cur[p] \in Key /\ cur[p] \in disk.owned /\ disk.status[cur[p]] = "pending"
    BY <2>1, OperationFacts
  <2>3. disk'.hashes = disk.hashes
    BY <2>1, <2>2, RecordKeyNeedsReconciliationEffect
  <2> QED BY <1>1, <1>6, <2>3 DEF FailKey
<1>7. ASSUME NEW p \in Proc, FinishKeys(p) PROVE Good
  <2>1. InOperation(p) /\ disk' = FinalizeOperation(mem[p])
    BY <1>7 DEF FinishKeys, InOperation
  <2>2. disk'.hashes = disk.hashes
    BY <2>1, OperationFacts, FinalizeEffect
  <2> QED BY <1>1, <1>7, <2>2 DEF FinishKeys
<1>8. ASSUME NEW p \in Proc, SyncAll(p) PROVE Good
  <2>1. k \notin todo[p] /\ k \notin unknown /\ disk' = disk
    BY <1>8 DEF SyncAll
  <2>2. remote'[k] = remote[k]
    <3>1. remote \in Secrets /\ todo[p] \in SUBSET Key /\ snap[p] \in Secrets
      BY DEF IInv, TypeOK
    <3>2. PICK result \in SyncResults(remote, todo[p], snap[p]) : remote' = result.target
      BY <1>8 DEF SyncAll
    <3> QED BY <2>1, <3>1, <3>2, SyncResult
  <2> QED BY <1>1, <2>1, <2>2
<1>9. ASSUME NEW p \in Proc, RecordAll(p) PROVE Good
  <2>1. CASE todo[p] = {}
    <3>1. disk' = mem[p] /\ pc[p] \in Locked \ {"loading"} /\ remote' = remote /\ unknown' = unknown
      BY <1>9, <2>1 DEF RecordAll, Locked, Step
    <3> QED BY <1>1, <3>1, LoadedHashes DEF IInv
  <2>2. CASE todo[p] # {}
    <3>1. /\ InOperation(p) /\ remote' = remote /\ unknown' = unknown \ todo[p]
          /\ disk' = RecordSuccess(mem[p], todo[p], snap[p])
          /\ \A j \in todo[p] : remote[j] = snap[p][j]
      BY <1>9, <2>2 DEF RecordAll, InOperation, IInv, ProcessInv, AcceptedOK
    <3>2. \A j \in Key : disk'.hashes[j] = IF j \in todo[p] THEN snap[p][j] ELSE disk.hashes[j]
      <4>1. PICK K \in SUBSET Key, v \in Secrets :
              /\ K = todo[p] /\ v = snap[p] /\ disk' = RecordSuccess(disk, K, v) /\ disk \in Journal
              /\ \A j \in K : j \in disk.owned /\ disk.status[j] = "pending"
        BY <3>1, OperationFacts
      <4>2. BatchConfirmed(RecordSuccess(disk, K, v), disk, K, v)
        <5>1. disk \in Journal /\ K \in SUBSET Key /\ v \in Secrets
          BY <4>1
        <5>2. \A j \in K : j \in disk.owned /\ disk.status[j] = "pending"
          BY <4>1
        <5> HIDE <4>1
        <5> QED BY ONLY <5>1, <5>2, RecordSuccessEffect
      <4> QED BY <4>1, <4>2 DEF BatchConfirmed
    <3> QED BY <1>1, <3>1, <3>2
  <2> QED BY <2>1, <2>2
<1>10. ASSUME NEW p \in Proc, FailAll(p) PROVE Good
  <2>1. CASE todo[p] = {}
    BY <1>1, <1>10, <2>1 DEF FailAll
  <2>2. CASE todo[p] # {}
    <3>1. InOperation(p) /\ disk' = RecordNeedsReconciliation(mem[p], todo[p])
      BY <1>10, <2>2 DEF FailAll, InOperation
    <3>2. disk'.hashes = disk.hashes
      <4>1. PICK K \in SUBSET Key :
              /\ K = todo[p] /\ disk' = RecordNeedsReconciliation(disk, K) /\ disk \in Journal
              /\ \A j \in K : j \in disk.owned /\ disk.status[j] = "pending"
        BY <3>1, OperationFacts
      <4> QED BY <4>1, RecordNeedsReconciliationEffect
    <3> QED BY <1>1, <1>10, <3>2 DEF FailAll
  <2> QED BY <2>1, <2>2
<1>11. ASSUME UNCHANGED <<remote, disk, unknown>> PROVE Good
  BY <1>1, <1>11
<1>12. ASSUME NEW p \in Proc, SyncStateless(p) PROVE Good
  BY <1>12 DEF SyncStateless, IInv, LockInv
<1> HIDE DEF Good
<1>13. Good
  BY <1>2, <1>3, <1>4, <1>5, <1>6, <1>7, <1>8, <1>9, <1>10, <1>11, <1>12
     DEF Next, Command, List, acquireTargetLock, Load, Refuse, Exit, EditSource, ChangeHashKey, vars
<1> QED BY <1>13 DEF Good

\* The invariant holds in every reachable state.
THEOREM Invariance == Spec => []IInv
<1>1. Init => IInv
  BY IInvInit
<1>2. IInv /\ [Next]_vars => IInv'
  BY TypeNext, LockNext, ProcessNext, CacheNext DEF IInv
<1> QED BY <1>1, <1>2, PTL DEF Spec

\* Every variable keeps its type, whatever the processes, keys and values are.
THEOREM TypeCorrect == Spec => []TypeOK
<1>1. IInv => TypeOK
  BY DEF IInv
<1> QED BY <1>1, Invariance, PTL

\* The drift cache of a journaled target is truthful under any interleaving of
\* processes, crashes, ambiguous requests and changes of the hash key.
THEOREM CacheIsTruthful == Spec => []CacheTruthful
<1>1. IInv => CacheTruthful
  BY DEF IInv
<1> QED BY <1>1, Invariance, PTL
=============================================================================
