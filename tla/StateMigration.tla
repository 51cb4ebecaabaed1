--------------------------- MODULE StateMigration ---------------------------
(***************************************************************************)
(* MigrateStateFileV1ToV2 and RecoverStateMigration                        *)
(* (internal/syncer/state_migration.go): the upgrade of one sync-state     *)
(* file, with a backup of the v1 bytes and a migration journal.            *)
(*                                                                         *)
(* The mutex of the code serialises the calls of one process; the calls of *)
(* different processes (Proc) and the saves of a `skret sync` running      *)
(* elsewhere (SyncSave) interleave between any two file operations.  A     *)
(* call may return an error at any operation (Fail) or die there (Crash).  *)
(* Contents are v1 (the signed source), v2 (the desired bytes) and saved   *)
(* (whatever a sync wrote over it).  Hash and size comparisons are         *)
(* comparisons of contents.                                                *)
(***************************************************************************)
EXTENDS Naturals, FiniteSets

CONSTANTS Proc,
          MaxAttempts,  \* bound: temporary files created
          MaxFaults,    \* bound: errors and crashes
          MaxSaves      \* bound: saves by a concurrent sync

ASSUME BoundsAssumption == MaxAttempts \in Nat /\ MaxFaults \in Nat /\ MaxSaves \in Nat

VARIABLES source, backup,  \* statePath and statePath.v1
          temp,            \* the temporary file of each attempt
          journal,         \* the migration journal: its phase and attempt
          pc,              \* per process: the next file operation
          mine,            \* per process: the journal record in memory
          attempts, faults, saves,
          overlap          \* history: two calls were at work at once

vars == <<source, backup, temp, journal, pc, mine, attempts, faults, saves, overlap>>

Absent == "absent"

Attempt == 1..MaxAttempts

StateMigrationPhase == {"prepared", "backup_renamed", "committed", "needs_reconciliation"}

\* The phase "absent" stands for no journal file.
StateMigrationJournal == [phase : StateMigrationPhase \cup {Absent}, attempt : Nat]

NoJournal == [phase |-> Absent, attempt |-> 0]

MigrateStep == {"persist", "preserve", "link_backup", "check_source", "remove_source",
                "renamed", "check_backup", "link_temp", "unlink_temp", "validate", "commit"}

RecoverStep == {"committed_state", "rollback", "restore", "restore_source", "drop_temp",
                "finish", "finish_temp", "resume", "mark"}

TypeOK ==
    /\ source \in {"v1", "v2", "saved", Absent}
    /\ backup \in {"v1", "v2", "saved", Absent}
    /\ temp \in [Attempt -> {"v2", Absent}]
    /\ journal \in StateMigrationJournal
    /\ pc \in [Proc -> {"idle"} \cup MigrateStep \cup RecoverStep]
    /\ mine \in [Proc -> StateMigrationJournal]
    /\ attempts \in Nat /\ faults \in Nat /\ saves \in Nat
    /\ overlap \in BOOLEAN

Init ==
    /\ source = "v1" /\ backup = Absent
    /\ temp = [a \in Attempt |-> Absent]
    /\ journal = NoJournal
    /\ pc = [p \in Proc |-> "idle"]
    /\ mine = [p \in Proc |-> NoJournal]
    /\ attempts = 0 /\ faults = 0 /\ saves = 0
    /\ overlap = FALSE

Temp(p) == temp[mine[p].attempt]

At(p, step) == pc[p] = step

Go(p, step) == pc' = [pc EXCEPT ![p] = step]

\* A call begins.
Called == overlap' = (overlap \/ \E q \in Proc : pc[q] # "idle")

Return(p) ==
    /\ pc' = [pc EXCEPT ![p] = "idle"]
    /\ mine' = [mine EXCEPT ![p] = NoJournal]

\* A step that only reads: on to the next operation, or back with an error.
Check(p, step, ok, next) ==
    /\ At(p, step)
    /\ IF ok THEN Go(p, next) /\ UNCHANGED mine ELSE Return(p)
    /\ UNCHANGED <<source, backup, temp, journal, attempts, faults, saves, overlap>>

persistMigrationJournal(p, phase) ==
    journal' = [mine[p] EXCEPT !.phase = phase]

-----------------------------------------------------------------------------
(* MigrateStateFileV1ToV2 *)

\* Manifest, source hash, journal and backup are checked, then the v2 bytes go
\* to a fresh temporary file.  An existing journal ends the call unchanged.
Migrate(p) ==
    /\ At(p, "idle")
    /\ source = "v1" /\ backup = Absent
    /\ journal.phase = Absent
    /\ attempts < MaxAttempts
    /\ attempts' = attempts + 1
    /\ temp' = [temp EXCEPT ![attempts'] = "v2"]
    /\ mine' = [mine EXCEPT ![p] = [phase |-> "prepared", attempt |-> attempts']]
    /\ Go(p, "persist")
    /\ Called
    /\ UNCHANGED <<source, backup, journal, faults, saves>>

PersistPrepared(p) ==
    /\ At(p, "persist")
    /\ persistMigrationJournal(p, "prepared")
    /\ Go(p, "preserve")
    /\ UNCHANGED <<source, backup, temp, mine, attempts, faults, saves, overlap>>

\* preserveMigrationSourceExclusively: check, hard link, check, remove.
Preserve(p) == Check(p, "preserve", source = "v1" /\ backup = Absent, "link_backup")

\* Faulty variant: a link that failed is not noticed.
LinkBackup_unchecked(p) ==
    /\ At(p, "link_backup")
    /\ \/ backup' = source /\ UNCHANGED faults
       \/ UNCHANGED backup /\ faults < MaxFaults /\ faults' = faults + 1
    /\ Go(p, "check_source")
    /\ UNCHANGED <<source, temp, journal, mine, attempts, saves, overlap>>

LinkBackup(p) ==
    /\ At(p, "link_backup")
    /\ IF backup = Absent /\ source # Absent
         THEN backup' = source /\ Go(p, "check_source") /\ UNCHANGED mine
         ELSE Return(p) /\ UNCHANGED backup
    /\ UNCHANGED <<source, temp, journal, attempts, faults, saves, overlap>>

\* Faulty variant: the source is not compared again after the link.
CheckSource_once(p) == Check(p, "check_source", TRUE, "remove_source")

CheckSource(p) == Check(p, "check_source", source = "v1", "remove_source")

RemoveSource(p) ==
    /\ At(p, "remove_source")
    /\ IF source # Absent
         THEN source' = Absent /\ Go(p, "renamed") /\ UNCHANGED mine
         ELSE Return(p) /\ UNCHANGED source
    /\ UNCHANGED <<backup, temp, journal, attempts, faults, saves, overlap>>

PersistRenamed(p) ==
    /\ At(p, "renamed")
    /\ persistMigrationJournal(p, "backup_renamed")
    /\ Go(p, "check_backup")
    /\ UNCHANGED <<source, backup, temp, mine, attempts, faults, saves, overlap>>

\* validateMigrationBackupAfterRename: a changed backup is linked back.
CheckBackup(p) ==
    /\ At(p, "check_backup")
    /\ IF backup = "v1"
         THEN Go(p, "link_temp") /\ UNCHANGED <<source, mine>>
         ELSE Return(p) /\ source' = IF source = Absent THEN backup ELSE source
    /\ UNCHANGED <<backup, temp, journal, attempts, faults, saves, overlap>>

\* commitMigrationTempExclusively: the link fails when the source exists.
LinkTemp(p) ==
    /\ At(p, "link_temp")
    /\ IF source = Absent /\ Temp(p) # Absent
         THEN source' = Temp(p) /\ Go(p, "unlink_temp") /\ UNCHANGED mine
         ELSE Return(p) /\ UNCHANGED source
    /\ UNCHANGED <<backup, temp, journal, attempts, faults, saves, overlap>>

UnlinkTemp(p) ==
    /\ At(p, "unlink_temp")
    /\ IF Temp(p) # Absent
         THEN temp' = [temp EXCEPT ![mine[p].attempt] = Absent] /\ Go(p, "validate") /\ UNCHANGED mine
         ELSE Return(p) /\ UNCHANGED temp
    /\ UNCHANGED <<source, backup, journal, attempts, faults, saves, overlap>>

\* Faulty variant: a leftover temporary file is not noticed.
CommittedFiles_tempIgnored(t) == source = "v2" /\ backup = "v1"

CommittedFiles(t) == source = "v2" /\ backup = "v1" /\ t = Absent

\* validateCommittedMigrationFiles
Validate(p) == Check(p, "validate", CommittedFiles(Temp(p)), "commit")

PersistCommitted(p) ==
    /\ At(p, "commit")
    /\ persistMigrationJournal(p, "committed")
    /\ Return(p)
    /\ UNCHANGED <<source, backup, temp, attempts, faults, saves, overlap>>

-----------------------------------------------------------------------------
(* RecoverStateMigration *)

\* What the first inspection of the three files calls for.
Branch(phase, t) ==
    CASE CommittedFiles(t)                                          -> "committed_state"
      [] phase = "prepared" /\ source = "v1" /\ backup = Absent /\ t = "v2" -> "rollback"
      [] phase = "prepared" /\ source = Absent /\ backup = "v1" /\ t = "v2" -> "restore"
      [] phase = "backup_renamed" /\ source = "v2" /\ backup = "v1" /\ t = "v2" -> "finish"
      [] phase = "backup_renamed" /\ source = Absent /\ backup = "v1" /\ t = "v2" -> "resume"
      [] OTHER                                                      -> "mark"

Recover(p) ==
    /\ At(p, "idle")
    /\ journal.phase \in {"prepared", "backup_renamed", "committed"}
    /\ mine' = [mine EXCEPT ![p] = journal]
    /\ Go(p, Branch(journal.phase, temp[journal.attempt]))
    /\ Called
    /\ UNCHANGED <<source, backup, temp, journal, attempts, faults, saves>>

\* The second inspection: what no longer matches is marked, not repaired.
Recheck(p, step, ok, next) ==
    /\ At(p, step)
    /\ Go(p, IF ok THEN next ELSE "mark")
    /\ UNCHANGED <<source, backup, temp, journal, mine, attempts, faults, saves, overlap>>

\* A journal that is committed already is not written again.
CommittedState(p) ==
    /\ At(p, "committed_state")
    /\ \/ CommittedFiles(Temp(p)) /\ mine[p].phase = "committed" /\ Return(p)
       \/ CommittedFiles(Temp(p)) /\ mine[p].phase # "committed" /\ Go(p, "validate") /\ UNCHANGED mine
       \/ ~CommittedFiles(Temp(p)) /\ Go(p, "mark") /\ UNCHANGED mine
    /\ UNCHANGED <<source, backup, temp, journal, attempts, faults, saves, overlap>>

migrationRollbackInputsMatch(p) ==
    Recheck(p, "rollback", source = "v1" /\ backup = Absent /\ Temp(p) = "v2", "drop_temp")

migrationRecoveryCommitInputsMatch(p) ==
    \/ Recheck(p, "restore", source = Absent /\ backup = "v1" /\ Temp(p) = "v2", "restore_source")
    \/ Recheck(p, "resume", source = Absent /\ backup = "v1" /\ Temp(p) = "v2", "link_temp")

migrationCommittedInputsMatch(p) ==
    Recheck(p, "finish", source = "v2" /\ backup = "v1" /\ Temp(p) = "v2", "finish_temp")

\* restoreMigrationSourceFromBackup: a copy of the backup is linked in place
\* of the absent source.
RestoreSource(p) ==
    /\ At(p, "restore_source")
    /\ IF source = Absent /\ backup = "v1"
         THEN source' = "v1" /\ Go(p, "drop_temp") /\ UNCHANGED mine
         ELSE Return(p) /\ UNCHANGED source
    /\ UNCHANGED <<backup, temp, journal, attempts, faults, saves, overlap>>

\* Faulty variant: a migration rolled back is not recorded.
removeMigrationFileIfExact_forgetful(p) ==
    /\ pc[p] \in {"drop_temp", "finish_temp"}
    /\ IF Temp(p) = "v2"
         THEN /\ temp' = [temp EXCEPT ![mine[p].attempt] = Absent]
              /\ IF At(p, "drop_temp") THEN Return(p) ELSE Go(p, "validate") /\ UNCHANGED mine
         ELSE Return(p) /\ UNCHANGED temp
    /\ UNCHANGED <<source, backup, journal, attempts, faults, saves, overlap>>

removeMigrationFileIfExact(p) ==
    /\ pc[p] \in {"drop_temp", "finish_temp"}
    /\ IF Temp(p) = "v2"
         THEN /\ temp' = [temp EXCEPT ![mine[p].attempt] = Absent]
              /\ Go(p, IF At(p, "drop_temp") THEN "mark" ELSE "validate")
              /\ UNCHANGED mine
         ELSE Return(p) /\ UNCHANGED temp
    /\ UNCHANGED <<source, backup, journal, attempts, faults, saves, overlap>>

markMigrationNeedsReconciliation(p) ==
    /\ At(p, "mark")
    /\ persistMigrationJournal(p, "needs_reconciliation")
    /\ Return(p)
    /\ UNCHANGED <<source, backup, temp, attempts, faults, saves, overlap>>

-----------------------------------------------------------------------------
Fault == faults < MaxFaults /\ faults' = faults + 1

\* Faulty variant: the temporary file is removed on every error.
Fail_removesTemp(p) ==
    /\ pc[p] \in MigrateStep /\ Fault
    /\ temp' = [temp EXCEPT ![mine[p].attempt] = Absent]
    /\ Return(p)
    /\ UNCHANGED <<source, backup, journal, attempts, saves, overlap>>

\* A file operation fails and the call returns; the deferred cleanup removes
\* the temporary file as long as the source has not been secured.
Fail(p) ==
    /\ ~At(p, "idle") /\ Fault
    /\ \/ pc[p] \in {"persist", "preserve"} /\ temp' = [temp EXCEPT ![mine[p].attempt] = Absent]
       \/ pc[p] # "persist" /\ UNCHANGED temp
    /\ Return(p)
    /\ UNCHANGED <<source, backup, journal, attempts, saves, overlap>>

\* The process dies: no cleanup.
Crash(p) ==
    /\ ~At(p, "idle") /\ Fault
    /\ Return(p)
    /\ UNCHANGED <<source, backup, temp, journal, attempts, saves, overlap>>

\* SaveSyncState in another process renames its bytes over the state file.
SyncSave ==
    /\ saves < MaxSaves
    /\ saves' = saves + 1
    /\ source' = "saved"
    /\ UNCHANGED <<backup, temp, journal, pc, mine, attempts, faults, overlap>>

Step(p) ==
    \/ PersistPrepared(p) \/ Preserve(p) \/ LinkBackup(p) \/ CheckSource(p) \/ RemoveSource(p)
    \/ PersistRenamed(p) \/ CheckBackup(p) \/ LinkTemp(p) \/ UnlinkTemp(p) \/ Validate(p)
    \/ PersistCommitted(p) \/ CommittedState(p) \/ migrationRollbackInputsMatch(p)
    \/ migrationRecoveryCommitInputsMatch(p) \/ migrationCommittedInputsMatch(p)
    \/ RestoreSource(p) \/ removeMigrationFileIfExact(p) \/ markMigrationNeedsReconciliation(p)

Next ==
    \/ \E p \in Proc : Migrate(p) \/ Recover(p) \/ Step(p) \/ Fail(p) \/ Crash(p)
    \/ SyncSave

Spec == Init /\ [][Next]_vars

\* A started call proceeds.  Nothing obliges anybody to start one: no command
\* calls RecoverStateMigration.
FairSpec == Spec /\ \A p \in Proc : WF_vars(Step(p))

-----------------------------------------------------------------------------
(* Properties *)

\* The v1 bytes are never lost: unless a sync has replaced them they are the
\* state file or its backup, whoever crashes or races where.
V1Kept == saves = 0 => "v1" \in {source, backup}

\* "The v1 bytes remain at statePath+.v1 forever": the journal says the backup
\* exists only when the backup has exactly those bytes, even if a sync replaced
\* the source between the comparison and the link.
BackupIsV1 == journal.phase \in {"backup_renamed", "committed"} => backup = "v1"

\* A committed journal stands for a complete migration: v2 in place, v1 kept,
\* no temporary file of that attempt left.
CommittedIsComplete ==
    journal.phase = "committed" /\ saves = 0 =>
      source = "v2" /\ backup = "v1" /\ temp[journal.attempt] = Absent

\* As long as calls do not overlap, a verdict of recovery leaves a state file,
\* wherever earlier calls failed or died: LoadSyncState never takes a migrated
\* target for a new one.
StateReadable ==
    /\ ~overlap
    /\ \A p \in Proc : pc[p] = "idle"
    /\ journal.phase \in {"committed", "needs_reconciliation"}
    => source # Absent

\* The v1 bytes survive, and the backup that the journal announces is they.
V1Survives == V1Kept /\ BackupIsV1

\* A verdict of the migration journal is right: committed means v2 in place and
\* v1 kept, and after either verdict there is a state file to load.
VerdictIsRight == CommittedIsComplete /\ StateReadable

\* One call of RecoverStateMigration is enough: wherever the interrupted
\* migration stopped, a recovery that no other call overlaps and that meets no
\* error, crash or save from its second inspection on brings the journal to
\* committed or needs_reconciliation.
RecoveryDecides ==
    \A n \in 0..(MaxFaults + MaxSaves) :
      /\ \E p \in Proc : pc[p] \in {"committed_state", "rollback", "restore", "finish", "resume"}
      /\ ~overlap /\ faults + saves = n
      ~> \/ journal.phase \in {"committed", "needs_reconciliation"}
         \/ overlap \/ faults + saves # n

\* The test SourceBackupPreservationDoesNotDeleteReplacement: bytes that
\* another process saved in place of the source are not deleted.
ReplacementKept == [][source = "saved" => source' # Absent]_vars
=============================================================================
