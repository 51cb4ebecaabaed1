---------------------------- MODULE SyncCommand ----------------------------
(***************************************************************************)
(* `skret sync` (internal/cli/sync.go) run by several processes of one     *)
(* host against one target, with the journal of SyncJournal on disk.       *)
(*                                                                         *)
(* A run lists the source, takes the per-target file lock, loads the       *)
(* journal, filters the secrets, opens an operation in the journal, writes *)
(* the target and records what it learnt.  Every save of the journal and   *)
(* every provider call is a step of its own, so a process may die between  *)
(* any two of them (Exit); the kernel then drops its lock.  A save that    *)
(* fails is an Exit before it (nothing was renamed) or after it (only the  *)
(* directory sync failed).                                                 *)
(***************************************************************************)
EXTENDS Syncers, FiniteSets

CONSTANTS Proc,        \* concurrent invocations of the command
          NoProc,      \* the lock is free
          Modes,       \* flag combinations users run with
          MaxEdits,    \* bound: changes of the source
          MaxFaults,   \* bound: failed requests and processes that die
          MaxDomain    \* bound: generations of the hash key

ASSUME NoProcAssumption == NoProc \notin Proc
ASSUME ModesAssumption == /\ Modes \subseteq {"plain", "skip", "noov", "rotate"}
                          /\ "noov" \in Modes => ExistingLister
ASSUME BoundsAssumption == {MaxEdits, MaxFaults, MaxDomain} \subseteq Nat

VARIABLES source,   \* the provider's secrets, None where a key has none
          remote,   \* what the target holds
          disk,     \* the journal file of the target
          lock,     \* the target lock: its holder or NoProc
          domain,   \* generation of the host's hash key
          pc, mode, \* per process: next step, flags
          snap,     \* per process: the listed secrets
          todo,     \* per process: keys still to write (toSync)
          cur,      \* per process: the key of the last request
          mem,      \* per process: the loaded journal (state)
          edits, faults,
          unknown   \* history: keys with a request whose effect no saved
                    \* journal acknowledges

vars == <<source, remote, disk, lock, domain, pc, mode, snap, todo, cur, mem,
          edits, faults, unknown>>

local == <<mode, snap, todo, cur, mem>>

Step == {"idle", "locking", "loading", "deciding", "sync_key", "ack_key", "fail_key",
         "sync_all", "ack_all", "fail_all", "stateless"}

\* Inside the lock: between a successful acquire and its deferred release.
Locked == Step \ {"idle", "locking", "stateless"}

TypeOK ==
    /\ source \in Secrets
    /\ remote \in Secrets
    /\ disk \in Journal
    /\ lock \in Proc \cup {NoProc}
    /\ domain \in Nat
    /\ pc \in [Proc -> Step]
    /\ mode \in [Proc -> Modes \cup {""}]
    /\ snap \in [Proc -> Secrets]
    /\ todo \in [Proc -> SUBSET Key]
    /\ cur \in [Proc -> Key \cup {None}]
    /\ mem \in [Proc -> Journal]
    /\ edits \in Nat /\ faults \in Nat
    /\ unknown \in SUBSET Key

UsesState(m) == journalByDefault \/ m \in {"rotate", "skip"}

NoSecrets == [k \in Key |-> None]

Present(s) == {k \in Key : s[k] # None}

Init ==
    /\ source \in Secrets
    /\ remote \in Secrets
    /\ disk = EmptyState(0)
    /\ lock = NoProc
    /\ domain = 1
    /\ pc = [p \in Proc |-> "idle"]
    /\ mode = [p \in Proc |-> ""]
    /\ snap = [p \in Proc |-> NoSecrets]
    /\ todo = [p \in Proc |-> {}]
    /\ cur = [p \in Proc |-> None]
    /\ mem = [p \in Proc |-> EmptyState(0)]
    /\ edits = 0 /\ faults = 0
    /\ unknown = {}

\* The process ends; what it held in memory is gone and the lock is released.
Leave(p) ==
    /\ pc' = [pc EXCEPT ![p] = "idle"]
    /\ lock' = IF lock = p THEN NoProc ELSE lock
    /\ mode' = [mode EXCEPT ![p] = ""]
    /\ snap' = [snap EXCEPT ![p] = NoSecrets]
    /\ todo' = [todo EXCEPT ![p] = {}]
    /\ cur' = [cur EXCEPT ![p] = None]
    /\ mem' = [mem EXCEPT ![p] = EmptyState(0)]

Go(p, step) == pc' = [pc EXCEPT ![p] = step] /\ UNCHANGED lock

\* The source is listed once, before any lock is taken.
List(p, m) ==
    /\ pc[p] = "idle"
    /\ mode' = [mode EXCEPT ![p] = m]
    /\ snap' = [snap EXCEPT ![p] = source]
    /\ todo' = [todo EXCEPT ![p] = Present(source)]
    /\ Go(p, IF UsesState(m) THEN "locking" ELSE "stateless")
    /\ UNCHANGED <<source, remote, disk, domain, cur, mem, edits, faults, unknown>>

\* Faulty variant: the lock does not exclude anyone.
acquireTargetLock_shared(p) ==
    /\ pc[p] = "locking"
    /\ lock' = p
    /\ pc' = [pc EXCEPT ![p] = "loading"]
    /\ UNCHANGED <<source, remote, disk, domain, local, edits, faults, unknown>>

acquireTargetLock(p) ==
    /\ pc[p] = "locking"
    /\ lock = NoProc
    /\ lock' = p
    /\ pc' = [pc EXCEPT ![p] = "loading"]
    /\ UNCHANGED <<source, remote, disk, domain, local, edits, faults, unknown>>

\* toSync after the --skip-unchanged and the no-overwrite filters.
Filtered(p, s) ==
    CASE mode[p] = "skip" -> FilterUnchanged(s, todo[p], snap[p])
      [] mode[p] = "noov" -> FilterAbsent(remote, todo[p])
      [] OTHER            -> todo[p]

Load(p) ==
    /\ pc[p] = "loading"
    /\ LET s == LoadSyncState(disk, domain)
       IN  /\ mem' = [mem EXCEPT ![p] = s]
           /\ todo' = [todo EXCEPT ![p] = Filtered(p, s)]
    /\ Go(p, "deciding")
    /\ UNCHANGED <<source, remote, disk, domain, mode, snap, cur, edits, faults, unknown>>

\* Faulty variant: the ambiguous operation is simply replaced.
Refused_never(p) == FALSE

\* Faulty variant: local files wait for a reconciliation as well.
Refused_anyTarget(p) == RequiresReconciliation(mem[p])

Refused(p) == journalByDefault /\ RequiresReconciliation(mem[p])

\* The run stops with ErrOperationNeedsReconciliation and writes nothing.
Refuse(p) ==
    /\ pc[p] = "deciding"
    /\ Refused(p)
    /\ Leave(p)
    /\ UNCHANGED <<source, remote, disk, domain, edits, faults, unknown>>

Save(p, s) == disk' = s /\ mem' = [mem EXCEPT ![p] = s]

\* An operation that lacks only its final save is finalized without requests.
Recover(p) ==
    /\ pc[p] = "deciding"
    /\ ~Refused(p)
    /\ syncStateNeedsRecovery(mem[p])
    /\ LET s == FinalizeOperation(mem[p])
       IN  /\ Save(p, s)
           /\ todo' = [todo EXCEPT ![p] = IF journalByDefault
                                            THEN FilterUnchanged(s, @, snap[p])
                                            ELSE @]
    /\ UNCHANGED <<source, remote, lock, domain, pc, mode, snap, cur, edits, faults, unknown>>

\* Faulty variant: the operation is opened in memory only.
Begin_unsaved(p) ==
    /\ pc[p] = "deciding"
    /\ ~Refused(p)
    /\ ~syncStateNeedsRecovery(mem[p])
    /\ mem' = [mem EXCEPT ![p] = IF todo[p] = {} THEN @ ELSE BeginOperation(@, todo[p])]
    /\ Go(p, IF PerKeySyncer /\ todo[p] # {} THEN "sync_key" ELSE "sync_all")
    /\ UNCHANGED <<source, remote, disk, domain, mode, snap, todo, cur, edits, faults, unknown>>

\* Open an operation over the secrets that are left and save it, before the
\* first request; with nothing left the target is still called.
Begin(p) ==
    /\ pc[p] = "deciding"
    /\ ~Refused(p)
    /\ ~syncStateNeedsRecovery(mem[p])
    /\ IF todo[p] = {}
         THEN UNCHANGED <<disk, mem>>
         ELSE Save(p, BeginOperation(mem[p], todo[p]))
    /\ Go(p, IF PerKeySyncer /\ todo[p] # {} THEN "sync_key" ELSE "sync_all")
    /\ UNCHANGED <<source, remote, domain, mode, snap, todo, cur, edits, faults, unknown>>

Fault == faults < MaxFaults /\ faults' = faults + 1

\* One request.  An accepted request was applied; a failed one may have been.
SyncKey(p, k) ==
    /\ pc[p] = "sync_key"
    /\ k \in todo[p]
    /\ cur' = [cur EXCEPT ![p] = k]
    /\ unknown' = unknown \cup {k}
    /\ \E result \in SyncKeyResults(remote, k, snap[p][k]) :
         /\ remote' = result.target
         /\ \/ result.ok /\ Go(p, "ack_key") /\ UNCHANGED faults
            \/ ~result.ok /\ Go(p, "fail_key") /\ Fault
    /\ UNCHANGED <<source, disk, domain, mode, snap, todo, mem, edits>>

\* The acknowledgement is saved before the next request.
RecordKey(p) ==
    /\ pc[p] = "ack_key"
    /\ Save(p, RecordKeySuccess(mem[p], cur[p], snap[p][cur[p]]))
    /\ todo' = [todo EXCEPT ![p] = @ \ {cur[p]}]
    /\ unknown' = unknown \ {cur[p]}
    /\ Go(p, "sync_key")
    /\ UNCHANGED <<source, remote, domain, mode, snap, cur, edits, faults>>

\* A failed key stops the operation; the unattempted keys stay pending.
FailKey(p) ==
    /\ pc[p] = "fail_key"
    /\ disk' = RecordKeyNeedsReconciliation(mem[p], cur[p])
    /\ Leave(p)
    /\ UNCHANGED <<source, remote, domain, edits, faults, unknown>>

FinishKeys(p) ==
    /\ pc[p] = "sync_key"
    /\ todo[p] = {}
    /\ disk' = FinalizeOperation(mem[p])
    /\ Leave(p)
    /\ UNCHANGED <<source, remote, domain, edits, faults, unknown>>

SyncAll(p) ==
    /\ pc[p] = "sync_all"
    /\ unknown' = unknown \cup todo[p]
    /\ \E result \in SyncResults(remote, todo[p], snap[p]) :
         /\ remote' = result.target
         /\ \/ result.ok /\ Go(p, "ack_all") /\ UNCHANGED faults
            \/ ~result.ok /\ Go(p, "fail_all") /\ Fault
    /\ UNCHANGED <<source, disk, domain, local, edits>>

RecordAll(p) ==
    /\ pc[p] = "ack_all"
    /\ disk' = IF todo[p] = {} THEN mem[p] ELSE RecordSuccess(mem[p], todo[p], snap[p])
    /\ unknown' = unknown \ todo[p]
    /\ Leave(p)
    /\ UNCHANGED <<source, remote, domain, edits, faults>>

FailAll(p) ==
    /\ pc[p] = "fail_all"
    /\ disk' = IF todo[p] = {} THEN disk ELSE RecordNeedsReconciliation(mem[p], todo[p])
    /\ Leave(p)
    /\ UNCHANGED <<source, remote, domain, edits, faults, unknown>>

\* A whole-file target without state: no lock, no journal, one replace.
SyncStateless(p) ==
    /\ pc[p] = "stateless"
    /\ \E result \in SyncResults(remote, todo[p], snap[p]) :
         /\ remote' = result.target
         /\ \/ result.ok /\ UNCHANGED faults
            \/ ~result.ok /\ Fault
    /\ Leave(p)
    /\ UNCHANGED <<source, disk, domain, edits, unknown>>

\* The process dies, or returns an error that changes nothing (a failed list,
\* load or save).
Exit(p) ==
    /\ pc[p] # "idle"
    /\ Fault
    /\ Leave(p)
    /\ UNCHANGED <<source, remote, disk, domain, edits, unknown>>

Command(p) ==
    \/ acquireTargetLock(p) \/ Load(p) \/ Refuse(p) \/ Recover(p) \/ Begin(p)
    \/ (\E k \in Key : SyncKey(p, k)) \/ RecordKey(p) \/ FailKey(p) \/ FinishKeys(p)
    \/ SyncAll(p) \/ RecordAll(p) \/ FailAll(p) \/ SyncStateless(p)

\* Someone sets, rotates or deletes a secret at the provider.
EditSource(k, v) ==
    /\ edits < MaxEdits
    /\ v # source[k]
    /\ source' = [source EXCEPT ![k] = v]
    /\ edits' = edits + 1
    /\ UNCHANGED <<remote, disk, lock, domain, pc, local, faults, unknown>>

\* The key material behind the hashes changes (a new SKRET_AGE_KEY, another
\* keyring entry, a rewritten key file).
ChangeHashKey ==
    /\ domain < MaxDomain
    /\ domain' = domain + 1
    /\ UNCHANGED <<source, remote, disk, lock, pc, local, edits, faults, unknown>>

Next ==
    \/ \E p \in Proc, m \in Modes : List(p, m)
    \/ \E p \in Proc : Command(p) \/ Exit(p)
    \/ \E k \in Key, v \in Value \cup {None} : EditSource(k, v)
    \/ ChangeHashKey

Spec == Init /\ [][Next]_vars

\* A scheduled job keeps invoking the command and a started run proceeds: the
\* steps of the command wait for nothing but the lock, whose waiters the
\* kernel serves (strong fairness).
Fairness ==
    \A p \in Proc : /\ WF_vars(\E m \in Modes : List(p, m))
                    /\ WF_vars(Command(p))
                    /\ SF_vars(acquireTargetLock(p))

FairSpec == Spec /\ Fairness

-----------------------------------------------------------------------------
(* Safety *)

\* The drift cache never claims more than the target holds: a hash saved in
\* the journal is the hash of the target's value, except for keys with an
\* unacknowledged request.  FilterUnchanged relies on it when it skips a key.
CacheTruthful ==
    journalByDefault =>
      \A k \in Key \ unknown : disk.hashes[k] # None => remote[k] = disk.hashes[k]

\* While the hash key stays the same, a request without a saved
\* acknowledgement is always visible in the journal as an open key of the
\* current operation: RequiresReconciliation finds it after any crash.
AmbiguityIsDurable ==
    journalByDefault /\ domain = 1 =>
      \A k \in unknown : /\ k \in disk.owned
                         /\ disk.status[k] \in {"pending", "needs_reconciliation"}
                         /\ RequiresReconciliation(disk)

\* No process is about to send a request for a key whose previous request is
\* unresolved (doMutation: reconcile before any explicit retry).
NoBlindReplay ==
    journalByDefault =>
      \A p \in Proc : pc[p] \in {"sync_key", "sync_all"} => todo[p] \cap unknown = {}

\* A request of unknown effect is neither forgotten nor repeated blindly,
\* wherever its run died.
UnknownIsHandled == AmbiguityIsDurable /\ NoBlindReplay

\* A journaled outcome that needs reconciliation is never dropped or turned
\* into another one by a later run (beginOperation, recordKeySuccess).
EvidenceKept ==
    [][journalByDefault /\ domain = 1 =>
         \A k \in disk.owned : disk.status[k] = "needs_reconciliation" =>
            k \in disk'.owned /\ disk'.status[k] = "needs_reconciliation"]_vars

\* A --no-overwrite run creates secrets and never replaces one, although the
\* existing names were listed before the first request: runs of one host are
\* serialised by acquireTargetLock from the listing to the last request.
NoOverwrite ==
    [][\A p \in Proc, k \in Key :
         mode[p] = "noov" /\ SyncKey(p, k) /\ remote'[k] # remote[k] => remote[k] = None]_vars

\* No step of any run loses evidence or replaces what it promised to keep.
NothingIsLost == EvidenceKept /\ NoOverwrite

\* The requests of all runs together obey the ledger.
Ledger == INSTANCE MutationLedger WITH Secret <- Value \cup {None}

\* A journaled target implements the ledger of doMutation's contract.
ImplementsLedger == Ledger!Spec

-----------------------------------------------------------------------------
(* A statement of the documentation that the code does not satisfy *)

\* --skip-unchanged pushes only what changed; what it skips is at the target.
\* Once no run is active, a key in the cache is held by the target.
SkippedIsPresent ==
    (\A p \in Proc : pc[p] = "idle") =>
      \A k \in Key : disk.hashes[k] # None => remote[k] = disk.hashes[k]

-----------------------------------------------------------------------------
(* Liveness *)

InSync == \A k \in Present(source) : remote[k] = source[k]

\* Once the source stops changing, repeated syncs bring the target to it and
\* keep it there, whatever stale listings the concurrent runs started with.
Converges == <>[]InSync

=============================================================================
