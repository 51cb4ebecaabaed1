-------------------------- MODULE SyncLedgerProofs --------------------------
(***************************************************************************)
(* What SyncCommand promises of requests whose effect is not known, for    *)
(* any set of processes, keys and values and any bounds: evidence of them  *)
(* is never lost, they are not repeated while the hash key is the first,   *)
(* and the runs then implement MutationLedger.                             *)
(***************************************************************************)
EXTENDS SyncCommandProofs

-----------------------------------------------------------------------------
(* The inductive invariants *)

\* The saved journal belongs to the first hash key or was never written; a key
\* that needs reconciliation marks the operation, and every unresolved request
\* is an open key of it.
JournalOK ==
    /\ disk.domain \in {0, 1}
    /\ disk.domain = 0 => disk.owned = {}
    /\ \A k \in disk.owned : disk.status[k] = "needs_reconciliation" =>
                               disk.phase = "needs_reconciliation"
    /\ \A k \in unknown : /\ k \in disk.owned
                          /\ disk.status[k] \in {"pending", "needs_reconciliation"}
                          /\ RequiresReconciliation(disk)

\* A process that may send a request has found nothing unresolved, and after
\* it only that request is.
RequestOK(p) ==
    /\ pc[p] \in Locked \ {"loading"} => mem[p].domain = 1
    /\ pc[p] \in {"sync_key", "sync_all"} => unknown = {}
    /\ pc[p] \in {"ack_key", "fail_key"} => unknown = {cur[p]}
    /\ pc[p] \in {"ack_all", "fail_all"} => unknown = todo[p]

FirstKey == journalByDefault /\ domain = 1

LedgerInv ==
    /\ domain >= 1
    /\ FirstKey => JournalOK /\ \A p \in Proc : RequestOK(p)

\* The keys that a --no-overwrite run has left to write are not at the target.
AbsentOK(p) ==
    mode[p] = "noov" =>
      /\ pc[p] \in {"deciding", "sync_key"} => \A k \in todo[p] : remote[k] = None
      /\ pc[p] = "ack_key" => \A k \in todo[p] \ {cur[p]} : remote[k] = None

AbsentInv == \A p \in Proc : AbsentOK(p)

-----------------------------------------------------------------------------
(* Requests of unknown effect *)

\* The journal a process loaded under the first hash key is the saved one, or
\* both are without an operation.
LEMMA LoadedUnderFirstKey ==
    ASSUME IInv, LedgerInv, FirstKey, NEW p \in Proc, pc[p] \in Locked \ {"loading"}
    PROVE  \/ mem[p] = disk
           \/ mem[p] = EmptyState(1) /\ disk.owned = {} /\ unknown = {}
<1>1. mem[p].domain = 1
  BY DEF LedgerInv, RequestOK
<1>2. CASE disk.domain # mem[p].domain /\ mem[p] = EmptyState(mem[p].domain)
  BY <1>1, <1>2 DEF LedgerInv, JournalOK
<1> QED BY <1>2 DEF IInv, ProcessInv, LoadedOK

\* A run that is not refused has found nothing unresolved.
LEMMA NotRefused ==
    ASSUME IInv, LedgerInv, FirstKey, NEW p \in Proc, pc[p] = "deciding", ~Refused(p)
    PROVE  unknown = {} /\ \A k \in disk.owned : disk.status[k] # "needs_reconciliation"
<1>1. \/ mem[p] = disk
      \/ mem[p] = EmptyState(1) /\ disk.owned = {} /\ unknown = {}
  BY LoadedUnderFirstKey DEF Locked, Step
<1>2. CASE mem[p] = disk
  BY <1>2 DEF Refused, RequiresReconciliation, LedgerInv, JournalOK, FirstKey
<1> QED BY <1>1, <1>2

\* Finishing an operation that needs only that changes its phase.
LEMMA RecoveredJournal ==
    ASSUME IInv, LedgerInv, FirstKey, NEW p \in Proc, Recover(p)
    PROVE  /\ unknown = {} /\ disk'.domain = 1
           /\ \A k \in disk'.owned : disk'.status[k] # "needs_reconciliation"
<1>1. mem[p] \in Journal /\ mem[p].domain = 1
  BY DEF Recover, IInv, TypeOK, LedgerInv, RequestOK, Locked, Step
<1>2. disk' = FinalizeOperation(mem[p])
  BY DEF Recover, Save
<1>3. disk'.domain = 1 /\ disk'.owned = mem[p].owned /\ disk'.status = mem[p].status
  BY <1>1, <1>2, FinalizeEffect
<1> QED BY <1>3, NotRefused DEF Recover, syncStateNeedsRecovery

\* A step that ends at most what it holds and leaves nothing unresolved.
LEMMA Resolved ==
    ASSUME unknown' = {}, disk'.domain = 1,
           \A k \in disk'.owned : disk'.status[k] # "needs_reconciliation"
    PROVE  JournalOK'
BY DEF JournalOK

\* A step of a process inside the lock concerns no other process.
LEMMA OthersRequestOK ==
    ASSUME TypeOK, LockInv, NEW p \in Proc, pc[p] \in Locked, NEW q \in Proc, q # p, pc'[q] = pc[q]
    PROVE  RequestOK(q)'
<1>1. pc'[q] \notin Locked
  BY LockExclusive
<1> QED BY <1>1 DEF RequestOK, Locked, Step

\* A process that ended sends no request.
LEMMA LeaveRequestOK ==
    ASSUME TypeOK, NEW p \in Proc, Leave(p)
    PROVE  RequestOK(p)' /\ \A q \in Proc \ {p} : pc'[q] = pc[q]
BY DEF TypeOK, Leave, RequestOK, Locked, Step

\* Every initial state satisfies the invariant.
LEMMA LedgerInit == Init => LedgerInv
<1> SUFFICES ASSUME Init PROVE LedgerInv
  OBVIOUS
<1>1. domain = 1 /\ unknown = {} /\ disk.domain = 0 /\ disk.owned = {}
  BY EmptyEffect DEF Init
<1>2. \A p \in Proc : pc[p] = "idle"
  BY DEF Init
<1> QED BY <1>1, <1>2 DEF LedgerInv, JournalOK, RequestOK, Locked

\* The hash key changes in one action only.
LEMMA OnlyChangeHashKey == [Next]_vars => domain' = domain \/ ChangeHashKey
BY DEF Next, Command, List, acquireTargetLock, Load, Refuse, Recover, Begin, SyncKey, RecordKey,
       FailKey, FinishKeys, SyncAll, RecordAll, FailAll, SyncStateless, Exit, EditSource, vars

\* Outside the first hash key nothing is claimed, and it does not come back.
LEMMA KeyOnlyGrows ==
    ASSUME TypeOK, LedgerInv, [Next]_vars
    PROVE  domain' >= 1 /\ (FirstKey' => FirstKey /\ ~ChangeHashKey)
<1>1. domain' = domain \/ ChangeHashKey
  BY OnlyChangeHashKey
<1>2. domain \in Nat /\ domain >= 1
  BY DEF TypeOK, LedgerInv
<1>3. journalByDefault' = journalByDefault
  BY DEF journalByDefault
<1> QED BY <1>1, <1>2, <1>3 DEF FirstKey, ChangeHashKey

\* Every step keeps unresolved requests in the journal.
LEMMA LedgerNext == IInv /\ LedgerInv /\ [Next]_vars => LedgerInv'
<1> SUFFICES ASSUME IInv, LedgerInv, [Next]_vars, FirstKey', FirstKey, ~ChangeHashKey
             PROVE  JournalOK' /\ \A q \in Proc : RequestOK(q)'
  BY KeyOnlyGrows DEF LedgerInv, IInv
<1> DEFINE OK == JournalOK' /\ \A q \in Proc : RequestOK(q)'
<1>0. TypeOK /\ LockInv /\ JournalOK /\ domain = 1 /\ journalByDefault /\ \A q \in Proc : RequestOK(q)
  BY DEF IInv, LedgerInv, FirstKey
\* A process moves on inside the lock.
<1>1. ASSUME NEW p \in Proc, pc[p] \in Locked, RequestOK(p)', JournalOK',
             \A q \in Proc \ {p} : pc'[q] = pc[q]
      PROVE  OK
  BY <1>0, <1>1, OthersRequestOK
\* A process leaves, from inside the lock or from outside it.
<1>2. ASSUME NEW p \in Proc, Leave(p), pc[p] \in Locked, JournalOK' PROVE OK
  BY <1>0, <1>1, <1>2, LeaveRequestOK
<1>3. ASSUME NEW p \in Proc, Leave(p), UNCHANGED <<disk, unknown>> PROVE OK
  <2>1. JournalOK'
    BY <1>0, <1>3 DEF JournalOK, RequiresReconciliation
  <2>2. ASSUME NEW q \in Proc \ {p} PROVE RequestOK(q)'
    BY <1>0, <1>3, <2>2 DEF Leave, TypeOK, RequestOK
  <2> QED BY <1>0, <1>3, <2>1, <2>2, LeaveRequestOK
\* A process that neither holds the lock nor gets past it.
<1>4. ASSUME NEW p \in Proc, pc'[p] \notin Locked \ {"loading"}, UNCHANGED <<disk, unknown>>,
             \A q \in Proc \ {p} : /\ pc'[q] = pc[q] /\ mem'[q] = mem[q]
                                   /\ cur'[q] = cur[q] /\ todo'[q] = todo[q]
      PROVE  OK
  <2>1. JournalOK'
    BY <1>0, <1>4 DEF JournalOK, RequiresReconciliation
  <2>2. RequestOK(p)'
    BY <1>4 DEF RequestOK, Locked, Step
  <2>3. ASSUME NEW q \in Proc \ {p} PROVE RequestOK(q)'
    BY <1>0, <1>4, <2>3 DEF RequestOK
  <2> QED BY <2>1, <2>2, <2>3
<1>5. ASSUME NEW p \in Proc, NEW m \in Modes, List(p, m) PROVE OK
  BY <1>0, <1>4, <1>5 DEF List, Go, TypeOK, Locked
<1>6. ASSUME NEW p \in Proc, acquireTargetLock(p) PROVE OK
  BY <1>0, <1>4, <1>6 DEF acquireTargetLock, TypeOK, local
<1>7. ASSUME NEW p \in Proc, Load(p) PROVE OK
  <2>1. pc'[p] = "deciding" /\ mem'[p] = LoadSyncState(disk, 1) /\ UNCHANGED <<disk, unknown>>
    BY <1>0, <1>7 DEF Load, Go, TypeOK
  <2>2. mem'[p].domain = 1
    BY <2>1, EmptyEffect DEF LoadSyncState
  <2>3. JournalOK'
    BY <1>0, <2>1 DEF JournalOK, RequiresReconciliation
  <2> QED BY <1>0, <1>1, <1>7, <2>1, <2>2, <2>3 DEF Load, Go, TypeOK, RequestOK, Locked, Step
<1>8. ASSUME NEW p \in Proc, Recover(p) PROVE OK
  <2>1. /\ unknown = {} /\ disk'.domain = 1
        /\ \A k \in disk'.owned : disk'.status[k] # "needs_reconciliation"
    BY <1>8, RecoveredJournal
  <2>2. pc[p] = "deciding" /\ pc' = pc /\ mem'[p] = disk' /\ unknown' = unknown
    BY <1>0, <1>8 DEF Recover, Save, TypeOK
  <2> QED BY <1>1, <2>1, <2>2, Resolved DEF RequestOK, Locked, Step
<1>9. ASSUME NEW p \in Proc, Begin(p) PROVE OK
  <2>1. unknown = {} /\ \A k \in disk.owned : disk.status[k] # "needs_reconciliation"
    BY <1>9, NotRefused DEF Begin
  <2>2. /\ pc[p] = "deciding" /\ pc'[p] \in {"sync_key", "sync_all"} /\ unknown' = unknown
        /\ \A q \in Proc \ {p} : pc'[q] = pc[q]
    BY <1>0, <1>9 DEF Begin, Go, TypeOK
  <2>3. mem[p].domain = 1 /\ mem[p] \in Journal /\ todo[p] \in SUBSET Key
    BY <1>0, <2>2 DEF RequestOK, Locked, Step, TypeOK
  <2>4. CASE todo[p] = {}
    <3>1. UNCHANGED <<disk, mem>>
      BY <1>9, <2>4 DEF Begin
    <3>2. JournalOK'
      BY <1>0, <2>1, <2>2, <3>1 DEF JournalOK
    <3> QED BY <1>1, <2>1, <2>2, <2>3, <3>1, <3>2 DEF RequestOK, Locked, Step
  <2>5. CASE todo[p] # {}
    <3>1. disk' = BeginOperation(mem[p], todo[p]) /\ mem'[p] = disk'
      BY <1>0, <1>9, <2>5 DEF Begin, Save, TypeOK
    <3>2. /\ disk'.domain = 1 /\ disk'.owned = todo[p]
          /\ \A k \in todo[p] : disk'.status[k] = "pending"
      BY <2>3, <3>1, BeginEffect
    <3>3. JournalOK'
      BY <2>1, <2>2, <3>2, Resolved
    <3> QED BY <1>1, <2>1, <2>2, <3>1, <3>2, <3>3 DEF RequestOK, Locked, Step
  <2> QED BY <2>4, <2>5
<1>10. ASSUME NEW p \in Proc, NEW k \in Key, SyncKey(p, k) PROVE OK
  <2>1. /\ pc[p] = "sync_key" /\ k \in todo[p] /\ cur'[p] = k /\ unknown' = {k}
        /\ pc'[p] \in {"ack_key", "fail_key"} /\ UNCHANGED <<disk, mem>>
        /\ \A q \in Proc \ {p} : pc'[q] = pc[q]
    BY <1>0, <1>10 DEF SyncKey, Go, TypeOK, RequestOK
  <2>2. k \in disk.owned /\ disk.status[k] = "pending" /\ disk.phase = "pending"
    BY <2>1, OperationFacts DEF InOperation
  <2>3. JournalOK'
    BY <1>0, <2>1, <2>2 DEF JournalOK, RequiresReconciliation
  <2> QED BY <1>0, <1>1, <2>1, <2>3 DEF RequestOK, Locked, Step
<1>11. ASSUME NEW p \in Proc, RecordKey(p) PROVE OK
  <2>1. /\ pc[p] = "ack_key" /\ pc'[p] = "sync_key" /\ mem'[p] = disk' /\ unknown' = {}
        /\ disk' = RecordKeySuccess(mem[p], cur[p], snap[p][cur[p]])
        /\ \A q \in Proc \ {p} : pc'[q] = pc[q]
    BY <1>0, <1>11 DEF RecordKey, Save, Go, TypeOK, RequestOK
  <2>2. /\ mem[p] = disk /\ disk \in Journal /\ snap[p] \in Secrets /\ todo[p] \in SUBSET Key
        /\ \A k \in todo[p] : k \in disk.owned /\ disk.status[k] = "pending"
        /\ \A k \in disk.owned : disk.status[k] \in {"pending", "succeeded"}
    BY <2>1, OperationFacts DEF InOperation
  <2>3. cur[p] \in todo[p]
    BY <2>1 DEF IInv, ProcessInv, AcceptedOK
  <2>4. PICK c \in Key, v \in Value \cup {None} : c = cur[p] /\ v = snap[p][cur[p]]
    BY <2>2, <2>3 DEF Secrets
  <2>5. disk' = RecordKeySuccess(disk, c, v) /\ c \in disk.owned /\ disk.status[c] = "pending"
    BY <2>1, <2>2, <2>3, <2>4
  <2>6. /\ disk'.domain = disk.domain /\ disk'.owned = disk.owned
        /\ \A j \in Key : disk'.status[j] = IF j = c THEN "succeeded" ELSE disk.status[j]
    <3>1. c \in Key /\ v \in Value \cup {None} /\ disk \in Journal
      BY <2>2, <2>4
    <3>2. KeyConfirmed(disk', disk, c, v)
      BY ONLY <2>5, <3>1, RecordKeySuccessEffect
    <3> QED BY ONLY <3>2 DEF KeyConfirmed
  <2>7. disk.domain = 1
    BY <1>0, <2>1, <2>2 DEF RequestOK, Locked, Step
  <2>8. \A j \in disk'.owned : disk'.status[j] # "needs_reconciliation"
    BY <2>2, <2>6 DEF Journal
  <2>9. JournalOK'
    BY <2>1, <2>6, <2>7, <2>8, Resolved
  <2> QED BY <1>1, <2>1, <2>6, <2>7, <2>9 DEF RequestOK, Locked, Step
<1>12. ASSUME NEW p \in Proc, FailKey(p) PROVE OK
  <2>1. /\ pc[p] = "fail_key" /\ unknown' = {cur[p]}
        /\ disk' = RecordKeyNeedsReconciliation(mem[p], cur[p]) /\ Leave(p)
    BY <1>0, <1>12 DEF FailKey, RequestOK
  <2>2. /\ mem[p] = disk /\ disk \in Journal /\ cur[p] \in Key
        /\ cur[p] \in disk.owned /\ disk.status[cur[p]] = "pending"
    BY <2>1, OperationFacts DEF InOperation, IInv, ProcessInv, AcceptedOK
  <2>3. /\ disk'.phase = "needs_reconciliation" /\ disk'.owned = disk.owned
        /\ disk'.domain = disk.domain
        /\ \A j \in Key : disk'.status[j] = IF j = cur[p] THEN "needs_reconciliation" ELSE disk.status[j]
    BY <2>1, <2>2, RecordKeyNeedsReconciliationEffect
  <2>4. JournalOK'
    <3>1. RequiresReconciliation(disk')
      BY <2>2, <2>3 DEF RequiresReconciliation
    <3>2. disk'.domain \in {0, 1} /\ (disk'.domain = 0 => disk'.owned = {})
      BY <1>0, <2>3 DEF JournalOK
    <3>3. \A k \in unknown' : k \in disk'.owned /\ disk'.status[k] = "needs_reconciliation"
      BY <2>1, <2>2, <2>3
    <3> QED BY <2>3, <3>1, <3>2, <3>3 DEF JournalOK
  <2> QED BY <1>2, <2>1, <2>4 DEF Locked, Step
<1>13. ASSUME NEW p \in Proc, FinishKeys(p) PROVE OK
  <2>1. pc[p] = "sync_key" /\ unknown' = {} /\ disk' = FinalizeOperation(mem[p]) /\ Leave(p)
    BY <1>0, <1>13 DEF FinishKeys, RequestOK
  <2>2. /\ mem[p] = disk /\ disk \in Journal /\ disk.domain = 1
        /\ \A k \in disk.owned : disk.status[k] \in {"pending", "succeeded"}
    BY <1>0, <2>1, OperationFacts DEF InOperation, RequestOK, Locked, Step
  <2>3. disk'.domain = disk.domain /\ disk'.owned = disk.owned /\ disk'.status = disk.status
    BY <2>1, <2>2, FinalizeEffect
  <2>4. JournalOK'
    BY <2>1, <2>2, <2>3, Resolved
  <2> QED BY <1>2, <2>1, <2>4 DEF Locked, Step
<1>14. ASSUME NEW p \in Proc, SyncAll(p) PROVE OK
  <2>1. /\ pc[p] = "sync_all" /\ unknown' = todo[p] /\ UNCHANGED <<disk, mem, todo>>
        /\ pc'[p] \in {"ack_all", "fail_all"} /\ \A q \in Proc \ {p} : pc'[q] = pc[q]
    BY <1>0, <1>14 DEF SyncAll, Go, TypeOK, RequestOK, local
  <2>2. \A k \in todo[p] : k \in disk.owned /\ disk.status[k] = "pending" /\ disk.phase = "pending"
    BY <2>1, OperationFacts DEF InOperation
  <2>3. JournalOK'
    BY <1>0, <2>1, <2>2 DEF JournalOK, RequiresReconciliation
  <2> QED BY <1>0, <1>1, <2>1, <2>3 DEF RequestOK, Locked, Step
<1>15. ASSUME NEW p \in Proc, RecordAll(p) PROVE OK
  <2>1. pc[p] = "ack_all" /\ unknown = todo[p] /\ unknown' = {} /\ Leave(p) /\ mem[p].domain = 1
    BY <1>0, <1>15 DEF RecordAll, RequestOK, Locked, Step
  <2>2. CASE todo[p] = {}
    <3>1. disk' = mem[p]
      BY <1>15, <2>2 DEF RecordAll
    <3>2. mem[p] = disk \/ mem[p] = EmptyState(1)
      BY <2>1, LoadedUnderFirstKey DEF Locked, Step
    <3>3. JournalOK'
      BY <1>0, <2>1, <3>1, <3>2, EmptyEffect DEF JournalOK
    <3> QED BY <1>2, <2>1, <3>3 DEF Locked, Step
  <2>3. CASE todo[p] # {}
    <3>1. PICK K \in SUBSET Key, v \in Secrets :
            /\ K = todo[p] /\ v = snap[p] /\ disk' = RecordSuccess(disk, K, v) /\ disk \in Journal
            /\ disk.domain = 1
            /\ \A j \in K : j \in disk.owned /\ disk.status[j] = "pending"
            /\ \A j \in disk.owned : disk.status[j] \in {"pending", "succeeded"}
      BY <1>15, <2>1, <2>3, OperationFacts DEF RecordAll, InOperation
    <3>3. BatchConfirmed(RecordSuccess(disk, K, v), disk, K, v)
      <4>1. disk \in Journal /\ K \in SUBSET Key /\ v \in Secrets
        BY <3>1
      <4>2. \A j \in K : j \in disk.owned /\ disk.status[j] = "pending"
        BY <3>1
      <4> HIDE <3>1
      <4> QED BY ONLY <4>1, <4>2, RecordSuccessEffect
    <3>4. /\ disk'.owned = disk.owned /\ disk'.domain = 1
          /\ \A j \in Key : disk'.status[j] = IF j \in K THEN "succeeded" ELSE disk.status[j]
      BY <3>1, <3>3 DEF BatchConfirmed
    <3>5. \A j \in disk'.owned : disk'.status[j] # "needs_reconciliation"
      <4>1. disk.owned \subseteq Key /\ \A j \in disk.owned : disk.status[j] \in {"pending", "succeeded"}
        BY <3>1 DEF Journal
      <4> QED BY ONLY <3>4, <4>1
    <3>6. JournalOK'
      BY <2>1, <3>4, <3>5, Resolved
    <3> QED BY <1>2, <2>1, <3>6 DEF Locked, Step
  <2> QED BY <2>2, <2>3
<1>16. ASSUME NEW p \in Proc, FailAll(p) PROVE OK
  <2>1. pc[p] = "fail_all" /\ unknown = todo[p] /\ unknown' = unknown /\ Leave(p)
    BY <1>0, <1>16 DEF FailAll, RequestOK
  <2>2. CASE todo[p] = {}
    BY <1>3, <1>16, <2>1, <2>2 DEF FailAll
  <2>3. CASE todo[p] # {}
    <3>1. PICK K \in SUBSET Key :
            /\ K = todo[p] /\ disk' = RecordNeedsReconciliation(disk, K) /\ disk \in Journal
            /\ \A j \in K : j \in disk.owned /\ disk.status[j] = "pending"
      BY <1>16, <2>1, <2>3, OperationFacts DEF FailAll, InOperation
    <3>2. /\ disk'.phase = "needs_reconciliation" /\ disk'.owned = disk.owned
          /\ disk'.domain = disk.domain
          /\ \A j \in Key : disk'.status[j] = IF j \in K THEN "needs_reconciliation" ELSE disk.status[j]
      BY <3>1, RecordNeedsReconciliationEffect
    <3>3. JournalOK'
      BY <1>0, <2>1, <3>1, <3>2 DEF JournalOK, RequiresReconciliation
    <3> QED BY <1>2, <2>1, <3>3 DEF Locked, Step
  <2> QED BY <2>2, <2>3
<1>17. ASSUME NEW p \in Proc, Refuse(p) \/ Exit(p) \/ SyncStateless(p) PROVE OK
  BY <1>3, <1>17 DEF Refuse, Exit, SyncStateless
<1>18. ASSUME UNCHANGED <<disk, unknown, pc, local>> PROVE OK
  BY <1>0, <1>18 DEF JournalOK, RequestOK, RequiresReconciliation, local
<1> HIDE DEF OK
<1>19. OK
  BY <1>5, <1>6, <1>7, <1>8, <1>9, <1>10, <1>11, <1>12, <1>13, <1>14, <1>15, <1>16, <1>17, <1>18
     DEF Next, Command, EditSource, vars, local
<1> QED BY <1>19 DEF OK

\* The journal and the requests are in step in every reachable state.
THEOREM LedgerInvariance == Spec => [](IInv /\ LedgerInv)
<1>1. Init => LedgerInv
  BY LedgerInit
<1>2. IInv /\ LedgerInv /\ [Next]_vars => LedgerInv'
  BY LedgerNext
<1> QED BY <1>1, <1>2, Invariance, PTL DEF Spec

\* While no hash key changes, a request of unknown effect stays visible in the
\* journal wherever its run died, and no run repeats it.
THEOREM UnknownStaysHandled ==
    ASSUME MaxDomain = 1
    PROVE  Spec => []UnknownIsHandled
<1> DEFINE KeyStays == domain = 1
<1>1. Init => KeyStays
  BY DEF Init
<1>2. KeyStays /\ [Next]_vars => KeyStays'
  <2>1. ASSUME domain = 1 PROVE ~ChangeHashKey
    BY <2>1 DEF ChangeHashKey
  <2> QED BY <2>1, OnlyChangeHashKey
<1>3. IInv /\ LedgerInv /\ KeyStays => UnknownIsHandled
  BY DEF LedgerInv, FirstKey, JournalOK, RequestOK, UnknownIsHandled, AmbiguityIsDurable,
         NoBlindReplay
<1> HIDE DEF KeyStays
<1> QED BY <1>1, <1>2, <1>3, LedgerInvariance, PTL DEF Spec

-----------------------------------------------------------------------------
(* Evidence and existing secrets *)

\* No step drops a key that needs reconciliation from the journal.
LEMMA EvidenceStays ==
    ASSUME IInv, LedgerInv, [Next]_vars, FirstKey, NEW k \in disk.owned,
           disk.status[k] = "needs_reconciliation"
    PROVE  k \in disk'.owned /\ disk'.status[k] = "needs_reconciliation"
<1> DEFINE Good == k \in disk'.owned /\ disk'.status[k] = "needs_reconciliation"
<1>1. ASSUME disk' = disk PROVE Good
  BY <1>1
<1>2. ASSUME NEW p \in Proc, InOperation(p) PROVE Good
  BY <1>2, OperationFacts
<1>3. ASSUME NEW p \in Proc, Recover(p) \/ Begin(p) PROVE Good
  BY <1>3, NotRefused DEF Recover, Begin
<1>4. ASSUME NEW p \in Proc, RecordAll(p) PROVE Good
  <2>1. CASE todo[p] = {}
    <3>1. disk' = mem[p] /\ pc[p] \in Locked \ {"loading"}
      BY <1>4, <2>1 DEF RecordAll, Locked, Step
    <3>2. mem[p] = disk \/ disk.owned = {}
      BY <3>1, LoadedUnderFirstKey
    <3> QED BY <3>1, <3>2
  <2>2. CASE todo[p] # {}
    BY <1>2, <1>4, <2>2 DEF RecordAll, InOperation
  <2> QED BY <2>1, <2>2
<1>5. ASSUME NEW p \in Proc, FailAll(p) PROVE Good
  BY <1>1, <1>2, <1>5 DEF FailAll, InOperation
<1>6. ASSUME NEW p \in Proc, RecordKey(p) \/ FailKey(p) \/ FinishKeys(p) PROVE Good
  BY <1>2, <1>6 DEF RecordKey, FailKey, FinishKeys, InOperation
<1> HIDE DEF Good
<1>7. Good
  BY <1>1, <1>3, <1>4, <1>5, <1>6
     DEF Next, Command, List, acquireTargetLock, Load, Refuse, SyncKey, SyncAll, SyncStateless, Exit,
         EditSource, ChangeHashKey, vars
<1> QED BY <1>7 DEF Good

\* A --no-overwrite run is one of a target that can list its names.
LEMMA NoOverwriteLists ==
    ASSUME TypeOK, NEW p \in Proc, mode[p] = "noov"
    PROVE  journalByDefault
BY ModesAssumption DEF TypeOK, ExistingLister, journalByDefault

\* No run has keys to write at the start.
LEMMA AbsentInit == Init => AbsentInv
BY DEF Init, AbsentInv, AbsentOK

\* Every step keeps the keys left to a --no-overwrite run absent.
LEMMA AbsentNext == IInv /\ AbsentInv /\ [Next]_vars => AbsentInv'
<1> SUFFICES ASSUME IInv, AbsentInv, [Next]_vars, NEW q \in Proc PROVE AbsentOK(q)'
  BY DEF AbsentInv
<1>0. TypeOK /\ LockInv /\ AbsentOK(q)
  BY DEF IInv, AbsentInv
\* Other processes: nothing changed, or the lock keeps this one out.
<1>1. ASSUME pc'[q] = pc[q], mode'[q] = mode[q], todo'[q] = todo[q], cur'[q] = cur[q],
             remote' = remote \/ ~journalByDefault
      PROVE  AbsentOK(q)'
  BY <1>0, <1>1, NoOverwriteLists DEF AbsentOK
<1>2. ASSUME NEW p \in Proc, pc[p] \in Locked, q # p, pc'[q] = pc[q] PROVE AbsentOK(q)'
  <2>1. pc'[q] \notin Locked
    BY <1>0, <1>2, LockExclusive
  <2> QED BY <2>1 DEF AbsentOK, Locked, Step
<1>3. ASSUME NEW p \in Proc, Leave(p), pc[p] \in Locked \/ remote' = remote \/ ~journalByDefault
      PROVE  AbsentOK(q)'
  <2>1. CASE q = p
    BY <1>0, <1>3, <2>1 DEF Leave, TypeOK, AbsentOK
  <2>2. CASE q # p
    BY <1>0, <1>1, <1>2, <1>3, <2>2 DEF Leave, TypeOK
  <2> QED BY <2>1, <2>2
<1>4. ASSUME NEW p \in Proc, NEW m \in Modes, List(p, m) PROVE AbsentOK(q)'
  <2>1. CASE q = p
    BY <1>0, <1>4, <2>1 DEF List, Go, TypeOK, AbsentOK
  <2> QED BY <1>0, <1>1, <1>4, <2>1 DEF List, Go, TypeOK
<1>5. ASSUME NEW p \in Proc, acquireTargetLock(p) PROVE AbsentOK(q)'
  <2>1. CASE q = p
    BY <1>0, <1>5, <2>1 DEF acquireTargetLock, TypeOK, AbsentOK
  <2> QED BY <1>0, <1>1, <1>5, <2>1 DEF acquireTargetLock, TypeOK, local
<1>6. ASSUME NEW p \in Proc, Load(p) PROVE AbsentOK(q)'
  <2>1. CASE q = p
    <3>1. /\ mode' = mode /\ remote' = remote /\ pc'[p] = "deciding"
          /\ \E s : todo'[p] = Filtered(p, s)
      BY <1>0, <1>6 DEF Load, Go, TypeOK
    <3>2. mode[p] = "noov" => todo'[p] = {k \in todo[p] : k \notin ExistingKeys(remote)}
      BY <3>1 DEF Filtered, FilterAbsent
    <3>3. todo[p] \in SUBSET Key
      BY <1>0 DEF TypeOK
    <3> QED BY <2>1, <3>1, <3>2, <3>3 DEF AbsentOK, ExistingKeys
  <2> QED BY <1>0, <1>1, <1>6, <2>1 DEF Load, Go, TypeOK
<1>7. ASSUME NEW p \in Proc, Recover(p) PROVE AbsentOK(q)'
  <2>1. CASE q = p
    <3>1. pc[p] = "deciding" /\ UNCHANGED <<pc, mode, remote>> /\ todo'[p] \subseteq todo[p]
      BY <1>0, <1>7 DEF Recover, FilterUnchanged, TypeOK
    <3> QED BY <1>0, <2>1, <3>1 DEF AbsentOK
  <2> QED BY <1>0, <1>2, <1>7, <2>1 DEF Recover, Locked, Step
<1>8. ASSUME NEW p \in Proc, Begin(p) PROVE AbsentOK(q)'
  <2>1. CASE q = p
    BY <1>0, <1>8, <2>1 DEF Begin, Go, TypeOK, AbsentOK
  <2> QED BY <1>0, <1>2, <1>8, <2>1 DEF Begin, Go, TypeOK, Locked, Step
<1>9. ASSUME NEW p \in Proc, NEW k \in Key, SyncKey(p, k) PROVE AbsentOK(q)'
  <2>1. CASE q = p
    <3>1. /\ pc[p] = "sync_key" /\ pc'[p] \in {"ack_key", "fail_key"} /\ cur'[p] = k
          /\ UNCHANGED <<mode, todo>>
      BY <1>0, <1>9 DEF SyncKey, Go, TypeOK
    <3>2. \A j \in Key \ {k} : remote'[j] = remote[j]
      <4>1. remote \in Secrets /\ snap[p][k] \in Value \cup {None} /\ k \in Key
        BY <1>0 DEF TypeOK, Secrets
      <4>2. PICK result \in SyncKeyResults(remote, k, snap[p][k]) : remote' = result.target
        BY <1>9 DEF SyncKey
      <4> QED BY ONLY <4>1, <4>2, SyncKeyResult
    <3>3. todo[p] \in SUBSET Key
      BY <1>0 DEF TypeOK
    <3> QED BY <1>0, <2>1, <3>1, <3>2, <3>3 DEF AbsentOK
  <2> QED BY <1>0, <1>2, <1>9, <2>1 DEF SyncKey, Go, TypeOK, Locked, Step
<1>10. ASSUME NEW p \in Proc, RecordKey(p) PROVE AbsentOK(q)'
  <2>1. CASE q = p
    BY <1>0, <1>10, <2>1 DEF RecordKey, Go, TypeOK, AbsentOK
  <2> QED BY <1>0, <1>2, <1>10, <2>1 DEF RecordKey, Go, TypeOK, Locked, Step
<1>11. ASSUME NEW p \in Proc, SyncAll(p) PROVE AbsentOK(q)'
  <2>1. CASE q = p
    BY <1>0, <1>11, <2>1 DEF SyncAll, Go, TypeOK, AbsentOK
  <2> QED BY <1>0, <1>2, <1>11, <2>1 DEF SyncAll, Go, TypeOK, Locked, Step
<1>12. ASSUME NEW p \in Proc, SyncStateless(p) PROVE AbsentOK(q)'
  BY <1>0, <1>3, <1>12 DEF SyncStateless, LockInv
<1>13. ASSUME NEW p \in Proc,
              Refuse(p) \/ FailKey(p) \/ FinishKeys(p) \/ RecordAll(p) \/ FailAll(p) \/ Exit(p)
       PROVE  AbsentOK(q)'
  BY <1>3, <1>13 DEF Refuse, FailKey, FinishKeys, RecordAll, FailAll, Exit
<1>14. ASSUME UNCHANGED <<remote, pc, local>> PROVE AbsentOK(q)'
  BY <1>1, <1>14 DEF local
<1> QED
  BY <1>4, <1>5, <1>6, <1>7, <1>8, <1>9, <1>10, <1>11, <1>12, <1>13, <1>14
     DEF Next, Command, EditSource, ChangeHashKey, vars, local

\* Whatever runs overlap and die, no step drops a key that needs
\* reconciliation, and a --no-overwrite run replaces nothing.
THEOREM NothingIsEverLost == Spec => NothingIsLost
<1> DEFINE Evidence == journalByDefault /\ domain = 1 =>
             \A k \in disk.owned : disk.status[k] = "needs_reconciliation" =>
               k \in disk'.owned /\ disk'.status[k] = "needs_reconciliation"
           Existing == \A p \in Proc, k \in Key :
             mode[p] = "noov" /\ SyncKey(p, k) /\ remote'[k] # remote[k] => remote[k] = None
<1>1. IInv /\ LedgerInv /\ [Next]_vars => Evidence
  BY EvidenceStays DEF FirstKey
<1>2. AbsentInv => Existing
  BY DEF AbsentInv, AbsentOK, SyncKey
<1>3. Init => AbsentInv
  BY AbsentInit
<1>4. IInv /\ AbsentInv /\ [Next]_vars => AbsentInv'
  BY AbsentNext
<1>5. Spec => [](IInv /\ LedgerInv /\ AbsentInv)
  BY <1>3, <1>4, LedgerInvariance, PTL DEF Spec
<1>6. IInv /\ LedgerInv /\ AbsentInv /\ [Next]_vars => [Evidence]_vars /\ [Existing]_vars
  BY <1>1, <1>2
<1>7. Spec => [][Evidence]_vars /\ [][Existing]_vars
  BY <1>5, <1>6, PTL DEF Spec
<1> QED BY <1>7 DEF NothingIsLost, EvidenceKept, NoOverwrite

-----------------------------------------------------------------------------
(* Refinement *)

\* A journaled target whose hash key stays implements the ledger: the runs
\* together never follow a request of unknown effect by another one for its key.
THEOREM RunsImplementLedger ==
    ASSUME MaxDomain = 1, journalByDefault
    PROVE  Spec => ImplementsLedger
<1> USE DEF Ledger!Init, Ledger!Next, Ledger!Attempt, Ledger!Confirm
<1>1. Init => Ledger!Init
  BY DEF Init, Secrets
<1>2. IInv /\ UnknownIsHandled /\ [Next]_vars => [Ledger!Next]_<<remote, unknown>>
  <2> SUFFICES ASSUME IInv, UnknownIsHandled, [Next]_vars
               PROVE  [Ledger!Next]_<<remote, unknown>>
    OBVIOUS
  <2>1. ASSUME NEW p \in Proc, NEW k \in Key, SyncKey(p, k) PROVE Ledger!Next
    <3>1. remote \in Secrets /\ snap[p][k] \in Value \cup {None}
      BY DEF IInv, TypeOK, Secrets
    <3>2. PICK result \in SyncKeyResults(remote, k, snap[p][k]) : remote' = result.target
      BY <2>1 DEF SyncKey
    <3>3. remote' \in [Key -> Value \cup {None}] /\ \A j \in Key \ {k} : remote'[j] = remote[j]
      BY <3>1, <3>2, SyncKeyResult DEF Secrets
    <3>4. {k} \cap unknown = {} /\ unknown' = unknown \cup {k}
      BY <2>1 DEF SyncKey, UnknownIsHandled, NoBlindReplay
    <3> QED BY <3>3, <3>4
  <2>2. ASSUME NEW p \in Proc, SyncAll(p) PROVE Ledger!Next
    <3>1. remote \in Secrets /\ snap[p] \in Secrets /\ todo[p] \in SUBSET Key
      BY DEF IInv, TypeOK
    <3>2. PICK result \in SyncResults(remote, todo[p], snap[p]) : remote' = result.target
      BY <2>2 DEF SyncAll
    <3>3. remote' \in [Key -> Value \cup {None}] /\ \A j \in Key \ todo[p] : remote'[j] = remote[j]
      <4>1. PICK K \in SUBSET Key, v \in Secrets : K = todo[p] /\ v = snap[p]
        BY <3>1
      <4>2. result \in SyncResults(remote, K, v) /\ remote' = result.target
        BY <3>2, <4>1
      <4>3. /\ result.target \in Secrets
            /\ journalByDefault => \A j \in Key \ K : result.target[j] = remote[j]
        <5>1. remote \in Secrets /\ K \in SUBSET Key /\ v \in Secrets
          BY <3>1
        <5>2. result \in SyncResults(remote, K, v)
          BY <4>2
        <5> HIDE <4>2
        <5> QED BY ONLY <5>1, <5>2, SyncResult
      <4> QED BY <4>1, <4>2, <4>3 DEF Secrets
    <3>4. todo[p] \cap unknown = {} /\ unknown' = unknown \cup todo[p]
      BY <2>2 DEF SyncAll, UnknownIsHandled, NoBlindReplay
    <3> QED BY <3>1, <3>3, <3>4
  <2>3. ASSUME NEW p \in Proc, RecordKey(p) PROVE Ledger!Next
    <3>1. {cur[p]} \in SUBSET Key
      <4>1. cur[p] \in todo[p] /\ todo[p] \in SUBSET Key
        BY <2>3 DEF RecordKey, IInv, ProcessInv, AcceptedOK, TypeOK
      <4> QED BY <4>1
    <3> QED BY <2>3, <3>1 DEF RecordKey
  <2>4. ASSUME NEW p \in Proc, RecordAll(p) PROVE Ledger!Next
    <3>1. todo[p] \in SUBSET Key
      BY DEF IInv, TypeOK
    <3> QED BY <2>4, <3>1 DEF RecordAll
  <2>5. ASSUME NEW p \in Proc PROVE ~SyncStateless(p)
    BY DEF SyncStateless, IInv, LockInv
  <2> QED
    BY <2>1, <2>2, <2>3, <2>4, <2>5
       DEF Next, Command, List, acquireTargetLock, Load, Refuse, Recover, Begin, FailKey, FinishKeys,
           FailAll, Exit, EditSource, ChangeHashKey, vars
<1> QED BY <1>1, <1>2, Invariance, UnknownStaysHandled, PTL DEF Spec, ImplementsLedger, Ledger!Spec
=============================================================================
