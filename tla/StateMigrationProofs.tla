------------------------ MODULE StateMigrationProofs ------------------------
(***************************************************************************)
(* The v1 bytes of a migrated state file survive, for any number of        *)
(* processes, attempts, failures and concurrent saves, and a verdict of    *)
(* its migration journal is right: StateMigration's V1Survives and         *)
(* VerdictIsRight.                                                         *)
(***************************************************************************)
EXTENDS StateMigration, TLAPS

(* A call at work has a temporary file, and so has a journaled attempt.    *)
AttemptsKnown ==
    /\ \A p \in Proc : pc[p] # "idle" => mine[p].attempt \in Attempt
    /\ journal.phase # Absent => journal.attempt \in Attempt

(* What the backup may be, given the source: v1 is replaced by v2 only     *)
(* after it was linked, and comes back only from a v1 backup.              *)
BackupFits ==
    /\ source = "v1" => backup \in {Absent, "v1"}
    /\ source = "v2" => backup = "v1"
    /\ backup # "v2"

(* The steps at which a call relies on a backup it made or compared.  The  *)
(* backup is never removed or replaced, so the comparison stays good.      *)
BackupRelied ==
    \A p \in Proc :
      /\ pc[p] = "check_source" => backup # Absent
      /\ pc[p] \in {"remove_source", "renamed", "link_temp", "commit"} => backup = "v1"

MigrationInv == TypeOK /\ AttemptsKnown /\ BackupFits /\ BackupRelied /\ V1Survives

-----------------------------------------------------------------------------

\* The migration starts in the invariant.
LEMMA InitEstablishes == Init => MigrationInv
<1> SUFFICES ASSUME Init PROVE MigrationInv
  OBVIOUS
<1>1. TypeOK
  BY DEF Init, TypeOK, Absent, StateMigrationJournal, NoJournal
<1>2. AttemptsKnown /\ BackupFits /\ BackupRelied /\ V1Survives
  BY DEF Init, AttemptsKnown, BackupFits, BackupRelied, V1Survives, V1Kept, BackupIsV1, Absent, NoJournal
<1> QED BY <1>1, <1>2 DEF MigrationInv

(* What a call at work has in memory.                                      *)
LEMMA StepFacts ==
  ASSUME MigrationInv, NEW p \in Proc
  PROVE  /\ pc[p] # "idle" => Temp(p) \in {"v2", Absent}
         /\ mine[p] \in StateMigrationJournal
         /\ NoJournal \in StateMigrationJournal
  BY DEF MigrationInv, TypeOK, AttemptsKnown, Temp, NoJournal, StateMigrationJournal, Absent

(* Each step of a call preserves the invariant.                            *)
LEMMA StepPreserves ==
  ASSUME MigrationInv, NEW p \in Proc, Step(p)
  PROVE  MigrationInv'
<1> USE StepFacts DEF MigrationInv, TypeOK, AttemptsKnown, BackupFits, BackupRelied, V1Survives, V1Kept,
      BackupIsV1, At, Go, Return, Absent, MigrateStep, RecoverStep
<1>1. CASE PersistPrepared(p)
  BY <1>1 DEF PersistPrepared, persistMigrationJournal, StateMigrationJournal, StateMigrationPhase
<1>2. CASE Preserve(p)
  BY <1>2 DEF Preserve, Check
<1>3. CASE LinkBackup(p)
  BY <1>3 DEF LinkBackup
<1>4. CASE CheckSource(p)
  BY <1>4 DEF CheckSource, Check
<1>5. CASE RemoveSource(p)
  BY <1>5 DEF RemoveSource
<1>6. CASE PersistRenamed(p)
  BY <1>6 DEF PersistRenamed, persistMigrationJournal, StateMigrationJournal, StateMigrationPhase
<1>7. CASE CheckBackup(p)
  BY <1>7 DEF CheckBackup
<1>8. CASE LinkTemp(p)
  BY <1>8 DEF LinkTemp
<1>9. CASE UnlinkTemp(p)
  BY <1>9 DEF UnlinkTemp
<1>10. CASE Validate(p)
  BY <1>10 DEF Validate, Check, CommittedFiles
<1>11. CASE PersistCommitted(p)
  BY <1>11 DEF PersistCommitted, persistMigrationJournal, StateMigrationJournal, StateMigrationPhase
<1>12. CASE CommittedState(p)
  BY <1>12 DEF CommittedState, CommittedFiles
<1>13. CASE migrationRollbackInputsMatch(p)
  BY <1>13 DEF migrationRollbackInputsMatch, Recheck
<1>14. CASE migrationRecoveryCommitInputsMatch(p)
  BY <1>14 DEF migrationRecoveryCommitInputsMatch, Recheck
<1>15. CASE migrationCommittedInputsMatch(p)
  BY <1>15 DEF migrationCommittedInputsMatch, Recheck
<1>16. CASE RestoreSource(p)
  BY <1>16 DEF RestoreSource
<1>17. CASE removeMigrationFileIfExact(p)
  BY <1>17 DEF removeMigrationFileIfExact
<1>18. CASE markMigrationNeedsReconciliation(p)
  BY <1>18 DEF markMigrationNeedsReconciliation, persistMigrationJournal, StateMigrationJournal,
               StateMigrationPhase
<1> QED
  BY <1>1, <1>2, <1>3, <1>4, <1>5, <1>6, <1>7, <1>8, <1>9, <1>10, <1>11, <1>12, <1>13, <1>14, <1>15,
     <1>16, <1>17, <1>18 DEF Step

(* MigrationInv is inductive.                                              *)
THEOREM MigrationInvariance == Spec => []MigrationInv
<1>1. MigrationInv /\ [Next]_vars => MigrationInv'
  <2> SUFFICES ASSUME MigrationInv, [Next]_vars
               PROVE  MigrationInv'
    OBVIOUS
  <2> USE DEF MigrationInv, TypeOK, AttemptsKnown, BackupFits, BackupRelied, V1Survives, V1Kept, BackupIsV1,
              At, Go, Return, Absent, MigrateStep, RecoverStep
  <2>1. CASE UNCHANGED vars
    BY <2>1 DEF vars
  <2>2. ASSUME NEW p \in Proc, Migrate(p)
        PROVE  MigrationInv'
    <3>1. attempts' \in Attempt /\ attempts' \in Nat
      BY <2>2, BoundsAssumption DEF Migrate, Attempt
    <3> QED
      BY <2>2, <3>1 DEF Migrate, Called, StateMigrationJournal, StateMigrationPhase
  <2>3. ASSUME NEW p \in Proc, Recover(p)
        PROVE  MigrationInv'
    <3>1. Branch(journal.phase, temp[journal.attempt])
            \in {"committed_state", "rollback", "restore", "finish", "resume", "mark"}
      BY DEF Branch
    <3> QED
      BY <2>3, <3>1 DEF Recover, Called
  <2>4. ASSUME NEW p \in Proc, Step(p)
        PROVE  MigrationInv'
    BY <2>4, StepPreserves
  <2>5. ASSUME NEW p \in Proc, Fail(p)
        PROVE  MigrationInv'
    BY <2>5, StepFacts DEF Fail, Fault
  <2>6. ASSUME NEW p \in Proc, Crash(p)
        PROVE  MigrationInv'
    BY <2>6, StepFacts DEF Crash, Fault
  <2>7. CASE SyncSave
    BY <2>7 DEF SyncSave
  <2> QED
    BY <2>1, <2>2, <2>3, <2>4, <2>5, <2>6, <2>7 DEF Next
<1> QED
  BY <1>1, InitEstablishes, PTL DEF Spec

(* Whoever fails, dies or races where, the v1 bytes stay in the state file *)
(* or its backup until a sync replaces them, and a backup that the journal *)
(* announces has exactly those bytes.                                      *)
THEOREM V1BytesSurvive == Spec => []V1Survives
<1>1. MigrationInv => V1Survives
  BY DEF MigrationInv
<1> QED
  BY <1>1, MigrationInvariance, PTL

-----------------------------------------------------------------------------
(* The verdict of the migration journal *)

(* One call at a time can be about to remove the source, because the link  *)
(* it made succeeds once; until it does the source is the linked v1.       *)
RemovalAlone ==
    /\ \A p, q \in Proc :
         pc[p] \in {"check_source", "remove_source"} /\ pc[q] \in {"check_source", "remove_source"} => p = q
    /\ \A p \in Proc : pc[p] \in {"check_source", "remove_source"} /\ saves = 0 => source = "v1"

(* What validateCommittedMigrationFiles saw still holds when the verdict is *)
(* written.                                                                *)
CommitReady ==
    \A p \in Proc : pc[p] = "commit" /\ saves = 0 => source = "v2" /\ Temp(p) = Absent

(* The steps of a call before which the state file is there.               *)
SourcePresent == {"persist", "preserve", "link_backup", "check_source", "remove_source", "unlink_temp",
                  "validate", "commit", "committed_state", "rollback", "drop_temp", "finish",
                  "finish_temp", "mark"}

(* The steps of a call that owns a prepared attempt.                       *)
Prepared == {"preserve", "link_backup", "check_source", "remove_source", "renamed"}

(* A call that runs alone: the attempt in its memory is the journaled one. *)
CallKnows(p) ==
    /\ pc[p] \notin {"idle", "persist"} => journal.phase # Absent /\ journal.attempt = mine[p].attempt
    /\ pc[p] = "persist" => Temp(p) = "v2"
    /\ pc[p] \in Prepared => journal.phase = "prepared" /\ Temp(p) = "v2"
    /\ pc[p] \in SourcePresent => source # Absent

(* A missing state file comes with a journal and the two files from which  *)
(* recovery brings it back.                                                *)
MissingIsRecoverable ==
    source = Absent => /\ journal.phase \in {"prepared", "backup_renamed"}
                       /\ backup = "v1" /\ temp[journal.attempt] = "v2"

(* What holds as long as calls do not overlap.                             *)
Recoverable ==
    ~overlap =>
      /\ \A p, q \in Proc : pc[p] # "idle" /\ pc[q] # "idle" => p = q
      /\ \A p \in Proc : CallKnows(p)
      /\ MissingIsRecoverable

CommitInv == RemovalAlone /\ CommitReady /\ CommittedIsComplete

(* What the verdict relies on of the first invariant.                      *)
LEMMA FileFacts ==
  ASSUME MigrationInv
  PROVE  /\ pc \in [Proc -> {"idle"} \cup MigrateStep \cup RecoverStep]
         /\ mine \in [Proc -> [phase : StateMigrationPhase \cup {Absent}, attempt : Nat]]
         /\ journal \in [phase : StateMigrationPhase \cup {Absent}, attempt : Nat]
         /\ temp \in [Attempt -> {"v2", Absent}]
         /\ \A p \in Proc : pc[p] # "idle" => mine[p].attempt \in Attempt
         /\ journal.phase # Absent => journal.attempt \in Attempt
         /\ saves = 0 /\ backup = Absent => source = "v1"
         /\ \A p \in Proc : pc[p] \in {"check_source", "remove_source"} => backup # Absent
         /\ \A p \in Proc : pc[p] \in {"remove_source", "renamed", "link_temp", "commit"} => backup = "v1"
         /\ source = "v2" => backup = "v1"
  BY DEF MigrationInv, TypeOK, AttemptsKnown, BackupFits, BackupRelied, V1Survives, V1Kept,
         StateMigrationJournal, Absent

(* Each step of a call preserves what a commit relies on.                  *)
LEMMA StepKeepsCommit ==
  ASSUME MigrationInv, CommitInv, NEW p \in Proc, Step(p)
  PROVE  CommitInv'
<1> USE FileFacts DEF CommitInv, RemovalAlone, CommitReady, CommittedIsComplete, At, Go, Return, Temp, Absent
<1>1. CASE PersistPrepared(p)
  BY <1>1 DEF PersistPrepared, persistMigrationJournal
<1>2. CASE Preserve(p)
  BY <1>2 DEF Preserve, Check
<1>3. CASE LinkBackup(p)
  BY <1>3 DEF LinkBackup
<1>4. CASE CheckSource(p)
  BY <1>4 DEF CheckSource, Check
<1>5. CASE RemoveSource(p)
  BY <1>5 DEF RemoveSource
<1>6. CASE PersistRenamed(p)
  BY <1>6 DEF PersistRenamed, persistMigrationJournal
<1>7. CASE CheckBackup(p)
  BY <1>7 DEF CheckBackup
<1>8. CASE LinkTemp(p)
  BY <1>8 DEF LinkTemp
<1>9. CASE UnlinkTemp(p)
  BY <1>9 DEF UnlinkTemp
<1>10. CASE Validate(p)
  BY <1>10 DEF Validate, Check, CommittedFiles
<1>11. CASE PersistCommitted(p)
  BY <1>11 DEF PersistCommitted, persistMigrationJournal
<1>12. CASE CommittedState(p)
  BY <1>12 DEF CommittedState, CommittedFiles
<1>13. CASE migrationRollbackInputsMatch(p)
  BY <1>13 DEF migrationRollbackInputsMatch, Recheck
<1>14. CASE migrationRecoveryCommitInputsMatch(p)
  BY <1>14 DEF migrationRecoveryCommitInputsMatch, Recheck
<1>15. CASE migrationCommittedInputsMatch(p)
  BY <1>15 DEF migrationCommittedInputsMatch, Recheck
<1>16. CASE RestoreSource(p)
  BY <1>16 DEF RestoreSource
<1>17. CASE removeMigrationFileIfExact(p)
  BY <1>17 DEF removeMigrationFileIfExact
<1>18. CASE markMigrationNeedsReconciliation(p)
  BY <1>18 DEF markMigrationNeedsReconciliation, persistMigrationJournal
<1> QED
  BY <1>1, <1>2, <1>3, <1>4, <1>5, <1>6, <1>7, <1>8, <1>9, <1>10,
     <1>11, <1>12, <1>13, <1>14, <1>15, <1>16, <1>17, <1>18 DEF Step

(* Each step of a call that runs alone keeps the migration recoverable.    *)
LEMMA StepKeepsRecoverable ==
  ASSUME MigrationInv, Recoverable, NEW p \in Proc, Step(p)
  PROVE  Recoverable'
<1>a. /\ overlap' = overlap /\ pc[p] # "idle"
      /\ \A q \in Proc \ {p} : pc'[q] = pc[q]
  BY FileFacts DEF Step, PersistPrepared, Preserve, LinkBackup, CheckSource, RemoveSource, PersistRenamed,
     CheckBackup, LinkTemp, UnlinkTemp, Validate, PersistCommitted, CommittedState,
     migrationRollbackInputsMatch, migrationRecoveryCommitInputsMatch, migrationCommittedInputsMatch,
     RestoreSource, removeMigrationFileIfExact, markMigrationNeedsReconciliation, Check, Recheck, At, Go, Return
<1> SUFFICES ASSUME ~overlap
             PROVE  CallKnows(p)' /\ MissingIsRecoverable'
  <2>1. ASSUME ~overlap PROVE \A q \in Proc \ {p} : pc[q] = "idle" /\ pc'[q] = "idle"
    BY <1>a, <2>1 DEF Recoverable
  <2>2. ASSUME NEW q \in Proc, pc'[q] = "idle" PROVE CallKnows(q)'
    BY <2>2 DEF CallKnows, Prepared, SourcePresent
  <2> QED BY <1>a, <2>1, <2>2 DEF Recoverable
<1>b. CallKnows(p) /\ MissingIsRecoverable
  BY DEF Recoverable
<1> USE <1>b, FileFacts DEF CallKnows, MissingIsRecoverable, SourcePresent, Prepared, At, Go, Return, Temp, Absent
<1>1. CASE PersistPrepared(p)
  BY <1>1 DEF PersistPrepared, persistMigrationJournal
<1>2. CASE Preserve(p)
  BY <1>2 DEF Preserve, Check
<1>3. CASE LinkBackup(p)
  BY <1>3 DEF LinkBackup
<1>4. CASE CheckSource(p)
  BY <1>4 DEF CheckSource, Check
<1>5. CASE RemoveSource(p)
  BY <1>5 DEF RemoveSource
<1>6. CASE PersistRenamed(p)
  BY <1>6 DEF PersistRenamed, persistMigrationJournal
<1>7. CASE CheckBackup(p)
  BY <1>7 DEF CheckBackup
<1>8. CASE LinkTemp(p)
  BY <1>8 DEF LinkTemp
<1>9. CASE UnlinkTemp(p)
  BY <1>9 DEF UnlinkTemp
<1>10. CASE Validate(p)
  BY <1>10 DEF Validate, Check, CommittedFiles
<1>11. CASE PersistCommitted(p)
  BY <1>11 DEF PersistCommitted, persistMigrationJournal
<1>12. CASE CommittedState(p)
  BY <1>12 DEF CommittedState, CommittedFiles
<1>13. CASE migrationRollbackInputsMatch(p)
  BY <1>13 DEF migrationRollbackInputsMatch, Recheck
<1>14. CASE migrationRecoveryCommitInputsMatch(p)
  BY <1>14 DEF migrationRecoveryCommitInputsMatch, Recheck
<1>15. CASE migrationCommittedInputsMatch(p)
  BY <1>15 DEF migrationCommittedInputsMatch, Recheck
<1>16. CASE RestoreSource(p)
  BY <1>16 DEF RestoreSource
<1>17. CASE removeMigrationFileIfExact(p)
  BY <1>17 DEF removeMigrationFileIfExact
<1>18. CASE markMigrationNeedsReconciliation(p)
  BY <1>18 DEF markMigrationNeedsReconciliation, persistMigrationJournal
<1> QED
  BY <1>1, <1>2, <1>3, <1>4, <1>5, <1>6, <1>7, <1>8, <1>9, <1>10,
     <1>11, <1>12, <1>13, <1>14, <1>15, <1>16, <1>17, <1>18 DEF Step

(* The calls and the faults keep what a commit relies on.                  *)
LEMMA NextKeepsCommit ==
  ASSUME MigrationInv, CommitInv, [Next]_vars
  PROVE  CommitInv'
<1> USE FileFacts DEF CommitInv, RemovalAlone, CommitReady, CommittedIsComplete, At, Go, Return, Temp, Absent
<1>1. CASE UNCHANGED vars
  BY <1>1 DEF vars
<1>2. ASSUME NEW p \in Proc, Migrate(p) PROVE CommitInv'
  BY <1>2 DEF Migrate
<1>3. ASSUME NEW p \in Proc, Recover(p) PROVE CommitInv'
  <2>1. Branch(journal.phase, temp[journal.attempt])
          \in {"committed_state", "rollback", "restore", "finish", "resume", "mark"}
    BY DEF Branch
  <2> QED BY <1>3, <2>1 DEF Recover
<1>4. ASSUME NEW p \in Proc, Step(p) PROVE CommitInv'
  BY <1>4, StepKeepsCommit
<1>5. ASSUME NEW p \in Proc, Fail(p) PROVE CommitInv'
  BY <1>5 DEF Fail, Fault
<1>6. ASSUME NEW p \in Proc, Crash(p) PROVE CommitInv'
  BY <1>6 DEF Crash, Fault
<1>7. CASE SyncSave
  <2>1. saves' # 0
    BY <1>7 DEF SyncSave, MigrationInv, TypeOK
  <2> QED BY <1>7, <2>1 DEF SyncSave
<1> QED
  BY <1>1, <1>2, <1>3, <1>4, <1>5, <1>6, <1>7 DEF Next

(* A call that begins alone has nobody beside it.                          *)
LEMMA BeginsAlone ==
  ASSUME MigrationInv, NEW p \in Proc, NEW step, Go(p, step), Called,
         ~overlap' => ~overlap /\ CallKnows(p)' /\ MissingIsRecoverable'
  PROVE  Recoverable'
<1> SUFFICES ASSUME ~overlap' PROVE Recoverable'
  BY DEF Recoverable
<1>1. \A q \in Proc \ {p} : pc'[q] = "idle"
  BY FileFacts DEF Go, Called
<1>2. \A q \in Proc \ {p} : CallKnows(q)'
  BY <1>1 DEF CallKnows, Prepared, SourcePresent
<1> QED BY <1>1, <1>2 DEF Recoverable

(* The calls and the faults keep an unfinished migration recoverable.      *)
LEMMA NextKeepsRecoverable ==
  ASSUME MigrationInv, Recoverable, [Next]_vars
  PROVE  Recoverable'
<1> USE FileFacts DEF Recoverable, CallKnows, MissingIsRecoverable, SourcePresent, Prepared, At, Go, Return,
                      Temp, Absent
<1>1. CASE UNCHANGED vars
  BY <1>1 DEF vars
<1>2. ASSUME NEW p \in Proc, Migrate(p) PROVE Recoverable'
  <2>1. attempts' \in Attempt
    BY <1>2, BoundsAssumption DEF Migrate, Attempt, MigrationInv, TypeOK
  <2>2. ~overlap' => ~overlap /\ CallKnows(p)' /\ MissingIsRecoverable'
    BY <1>2, <2>1 DEF Migrate, Called
  <2> QED BY <1>2, <2>2, BeginsAlone DEF Migrate
<1>3. ASSUME NEW p \in Proc, Recover(p) PROVE Recoverable'
  <2> DEFINE branch == Branch(journal.phase, temp[journal.attempt])
  <2>1. branch \in {"committed_state", "rollback", "restore", "finish", "resume", "mark"}
    BY DEF Branch
  <2>2. ~overlap /\ source = Absent => branch \in {"restore", "resume"}
    BY DEF Branch, CommittedFiles
  <2>3. /\ pc' = [pc EXCEPT ![p] = branch] /\ mine' = [mine EXCEPT ![p] = journal]
        /\ journal.phase # Absent /\ UNCHANGED <<source, backup, temp, journal>>
        /\ overlap' = (overlap \/ \E q \in Proc : pc[q] # "idle")
    BY <1>3 DEF Recover, Called
  <2> HIDE DEF branch
  <2>4. CASE overlap
    BY <2>3, <2>4
  <2>5. CASE ~overlap
    <3>1. pc'[p] = branch /\ mine'[p] = journal
      BY <2>3
    <3>2. CallKnows(p)' /\ MissingIsRecoverable'
      BY <2>1, <2>2, <2>3, <2>5, <3>1
    <3> QED BY <2>3, <2>5, <3>2, BeginsAlone DEF Called
  <2> QED BY <2>4, <2>5
<1>4. ASSUME NEW p \in Proc, Step(p) PROVE Recoverable'
  BY <1>4, StepKeepsRecoverable
<1>5. ASSUME NEW p \in Proc, Fail(p) PROVE Recoverable'
  BY <1>5 DEF Fail, Fault
<1>6. ASSUME NEW p \in Proc, Crash(p) PROVE Recoverable'
  BY <1>6 DEF Crash, Fault
<1>7. CASE SyncSave
  BY <1>7 DEF SyncSave
<1> QED
  BY <1>1, <1>2, <1>3, <1>4, <1>5, <1>6, <1>7 DEF Next

(* A verdict of the migration journal is right, for any number of          *)
(* processes: a committed journal stands for v2 in place, v1 kept and no    *)
(* temporary file, however calls overlap; and while calls do not overlap   *)
(* either verdict leaves a state file to load, wherever calls failed.      *)
THEOREM VerdictsAreRight == Spec => []VerdictIsRight
<1>1. Init => CommitInv /\ Recoverable
  BY DEF Init, CommitInv, RemovalAlone, CommitReady, CommittedIsComplete, Recoverable, CallKnows,
         MissingIsRecoverable, SourcePresent, Prepared, NoJournal, Absent
<1>2. MigrationInv /\ CommitInv /\ Recoverable /\ [Next]_vars => CommitInv' /\ Recoverable'
  BY NextKeepsCommit, NextKeepsRecoverable
<1>3. CommitInv /\ Recoverable => VerdictIsRight
  BY DEF CommitInv, Recoverable, MissingIsRecoverable, VerdictIsRight, StateReadable
<1> QED
  BY <1>1, <1>2, <1>3, MigrationInvariance, PTL DEF Spec
=============================================================================
