# A formal model of skret

skret moves secrets between a provider (AWS SSM, OCI, GCP, Azure, a local file)
and the places that consume them. This directory holds TLA+ modules of the parts
of it in which the order of steps decides whether a secret is lost, written
twice or reported wrongly, the TLC configurations that check them on small
instances, and TLAPS proofs for every size.

## The system

| part | where | what it does |
| --- | --- | --- |
| sync command | `internal/cli/sync.go` | lists the source, takes a per-target file lock, filters, writes the target, records what it learnt |
| target journal | `internal/syncer/state.go` | one JSON file per target: hashes of the last pushed values, the open operation and an outcome per key, with generation metadata for some |
| targets | `internal/syncer/{github,gitlab,cloudflare,dotenv,terraform,k8s}.go` | per-key APIs, one bulk API (Pages), whole files |
| state migration | `internal/syncer/state_migration.go` | upgrades a v1 journal file to v2 with a backup and a migration journal |
| state manifests | `internal/syncer/migration_manifest.go`, `internal/cli/sync_state.go` | a signed list of the files of the state directory, checked before a migration |
| signed envelopes | `internal/syncer/envelope*.go` | a signed request with an expiry, admitted once through a bounded replay store |
| secret providers | `internal/provider/{aws,gcp,oci,azure,local}` | read and change one secret in several backend calls; the local file with its audit trail |
| commands | `internal/cli` | set, rotate, rollback, delete, import, run (`--watch`), init, setup, keys, auth, bootstrap |
| keystore, credentials | `internal/keystore`, `internal/auth` | the key of the local file; the file or keyring with log-ins |
| secret launch | `internal/secretlaunch`, `cmd/skret-compose-*`, `cmd/skret-manifest-signer`, `cmd/skret-secret-helper` | generates, signs and renews a manifest; starts containers, hands them their secrets and supervises them |
| executor operation store | `hub/src/executor-operation-store.ts` | a Durable Object: operations, lanes, a queue, a watchdog and its alarm |
| security executor | `hub/src/security-executor.ts`, `private-executor-handler.ts`, `executor-replay-store.ts`, `executor-envelope-verifier.ts` | a Worker that verifies an envelope, consumes its nonce and runs a migration |
| provider operation store | `hub/src/provider-operation-store.ts` | provider mutations: fences per target, claims, outcomes, owner decisions, verification, a watchdog |
| provider executor | `hub/src/provider-executor.ts`, `executor-provider-crypto.ts`, `executor-provider-clients.ts` | dispatches a provider write and verifies it |
| planner container | `hub/src/container.ts`, `hub/src/store.ts` | a Durable Object that starts, watches and stops the sync planner and records its runs |
| KV migration ledger | `hub/src/kv-migration-store.ts` | which rows a migration copies, what was acknowledged and scanned, when V1 may be deleted |
| host authorizations | `hub/src/host-authorization-store.ts` | a hash chain of signed generations and lookups in its head |
| tools | `internal/{differ,dotenv,scanner,template,mcp,notify}`, `scripts` | text tools, MCP server, webhooks, release scripts |

A sync run meets other runs of its host through the lock and the journal file, a
migration through the same file without the lock, and everyone else through the
target. The other commands are processes without a lock that meet in a provider,
a file or a keyring. The executor parts meet in one Durable Object, which serves
one event at a time but whose callers are killed, repeated and delayed. The
programs of a secret launch meet in the manifest file, in Docker and on the
stream of a container.

## Modules

| module | models |
| --- | --- |
| `SyncJournal` | the operations of the journal as functions of a journal record |
| `Syncers` | the possible results of a call to each kind of target |
| `SyncCommand` | the command: several processes, one target, the lock, the file |
| `MutationLedger` | abstract: what a journaled target is promised |
| `JournalMetadata` | operations of the journal with generation metadata, approval and verification |
| `StateMigration` | migration and recovery as sequences of file operations |
| `StateManifests` | building and checking a state manifest, file by file |
| `Envelopes` | signed envelopes and the replay store |
| `StrictJSON` | the two scans for repeated keys |
| `References` | resolution of `${NAME}` |
| `InitConfig` | `init` and `setup` on `.skret.yaml` |
| `Providers` | the four cloud backends, call by call |
| `LocalStore` | the local file, its audit trail, its key and `keys init` |
| `SecretCommands` | set, rotate, rollback, delete, import and webhooks |
| `SecretNames` | key to backend name to key to variable |
| `Watch` | `run` and `run --watch` |
| `Credentials` | log-in, log-out, SSO refresh, bootstrap and the credential store |
| `LaunchManifest` | windows, renewal, labels and start order of a launch |
| `LaunchSupervisor` | signers, supervisors, containers and helpers |
| `SecretHelper` | one session of supervisor and helper in time |
| `ComposeGen` | from a compose file to the environment of a child |
| `ExecutorOperationStore` | the transactions of the operation store |
| `ExecutorOperations` | that store with its alarm and the cron trigger |
| `MetadataExecutor` | that store behind the Worker and the replay store |
| `ProviderOperationStore` | the transactions of the provider store |
| `ProviderExecutor` | that store with its alarm, the handlers and the target |
| `KVMigration` | the transactions of the KV migration ledger |
| `HostAuthorization` | activations and lookups of host authorizations |
| `HubObjects` | `ProviderExecutor`, `MetadataExecutor`, `KVMigration` and `HostAuthorization` side by side |
| `SyncRunStore` | the transactions on the run records of the hub |
| `SyncContainer` | the object that keeps the planner running, on those records |
| `SyncCommandProofs`, `StateMigrationProofs`, `EnvelopesProofs`, `HostAuthorizationProofs`, `SecretHelperProofs` | proofs about the module they are named for |
| `SyncLedgerProofs` | further proofs about `SyncCommand`: requests of unknown effect, and the refinement of `MutationLedger` |
| `MC*` | constants for TLC, and parts that share no state side by side |

Definitions keep the names of the functions they translate. A definition
`Name_variant`, commented "Faulty variant", is `Name` with a plausible mistake;
no specification uses it. It documents which mistake a property catches.

Where one run checks several parts that share no state (`MCHost`,
`MCCommandLine`, `MCSecretLaunch`, `MCHubSchedules`, `HubObjects`), a variable
(`part`, `object`) names the one a behaviour exercises; the others rest in one
state, so that the states of the run are the sum and not the product of theirs.

### SyncCommand

`disk` is the journal file, `mem[p]` the journal a process loaded, `remote` what
the target holds, `lock` the lock file. `pc[p]` names the next call that changes
something outside the process: `List`, `acquireTargetLock`, `Load` (with the
`--skip-unchanged` and no-overwrite filters), `Refuse`, `Recover`, `Begin`, then
either `SyncKey`/`RecordKey`/`FailKey`/`FinishKeys` for a target that takes one
key at a time or `SyncAll`/`RecordAll`/`FailAll` for a batch. `Exit` is a process
that dies or returns early, between any two of them. `EditSource` and
`ChangeHashKey` are the outside world. Values are opaque and the hash is
injective under one key: a hash is represented by the value and the journal by
the generation (`domain`) of its key. `unknown` is a history variable: keys with
a request that no saved journal acknowledges.

A journal operation is a function from journal to journal in `SyncJournal`, which
returns its argument where the code returns an error. A target is a set of
results in `Syncers`; a failed call may or may not have been applied, as
`doMutation` says.

### JournalMetadata

`journal` is the part of a `SyncState` that operations with metadata use. Each
exported operation (begin, acknowledge, fail, reject, approve, verify, finalize)
is an operator on it; an action calls one and saves, and a save or a load runs
`validatePersistedOperationMetadata` on the result. Callers choose the order,
and the deadline may pass between two calls.

### StateMigration

The state file, its backup and the temporary files have the contents `v1`, `v2`,
`saved` (bytes of a concurrent sync) or `absent`. `Migrate` to `PersistCommitted`
are the steps of `MigrateStateFileV1ToV2` in the order of its file operations;
`Recover` inspects the files and branches as `RecoverStateMigration` does, and
checks again before it acts. `Fail` returns an error with the deferred clean-up,
`Crash` without it. No command calls the recovery: `sync state migrate` refuses a
journal that is not finished (`state_migration.go:158`).

### StateManifests, Envelopes

A scan of the state directory opens the directory, inspects each entry, hashes it
and compares what it was with what it is; each is a step, and files are replaced
(a new inode), added and removed between them. `during` is a history variable:
the contents a file had since the command began. The signature is an injective
tuple of the fields, so a manifest that was not signed as it is does not verify.

In `Envelopes` a client builds and posts, `wire` delivers any number of times or
never, a damaged copy may be on it, and a handler reads the clock, verifies, and
only then consumes; the readings that reach the replay store are therefore not in
the order of the clock. `accepted` and `swept` are history variables.

### Providers, LocalStore, SecretCommands, SecretNames, Watch

`Providers` follows one secret of one backend. Each SDK call of `Set`, `Delete`,
`GetHistory` and `Rollback` is one step (pre-write read, create, add version,
update metadata, readback), may be rejected, and may lose its answer with or
without its effect; processes interleave between the steps. `cache` is the
version cache of the AWS provider. An answer is success, a plain error, or a
`PartialCommitError`.

`LocalStore` holds the file (`plain` or one of the two envelopes, with the key
that opens it), the keyring entry, the environment's key, the flag in the
configuration and the audit trail. A command resolves its key, loads, changes its
copy, saves, rotates a full audit log, opens it and appends its entry to the file
it opened, wherever a rotation has moved that meanwhile; `keys init` generates or
takes a key, stores it, seals the file and sets the flag. Nothing keeps two
commands apart.

`SecretCommands` models the commands above one provider call: the preflight of
`rotate` over all keys, the single look of `import` at what exists (a listing, or
when that fails a read of each key, whose errors Key Vault's `GetBatch` drops),
the write of each key and the deliveries to each webhook, with another command at work on the
same secrets. `SecretNames` is about strings, which are sequences of characters
there. `Watch` holds the secrets, the local provider's copy, and the running
command with the fingerprint it last saw.

### Credentials, References, InitConfig, StrictJSON

`Credentials` models each command as its steps on the file (replaced by a rename)
or on the keyring (entry by entry and an index), and the IAM calls of
`bootstrap`. `InitConfig` models reading, merging, the log-in, the backup, the
replacement and `.gitignore`, with somebody else writing the file in between.
`References` and `StrictJSON` are algorithms with a reference definition:
`Meaning` says what a value means as a substitution repeated to the depth limit,
`RepeatsAKey` what a repeated key is, and the code's left-to-right expansion and
its token scans are compared with them for every small scope and document.

### LaunchManifest, LaunchSupervisor, SecretHelper, ComposeGen

`LaunchSupervisor` has the signers with their lifetimes (sign, publish, in any
order), the published file, two supervisors with `pc` for `ScavengeOrphans`,
planning, removing, launching, sending, refreshing, closing and a call that never
returns (`CallHangs`), Docker's containers with their labels and the state `docker ps`
gives of them, and the helper in each. `SecretHelper` is the session of one supervisor
and one helper with the real arithmetic of interval, timeout and ticker; time
advances only when nothing is due. `ComposeGen` takes every small compose file
with options through the generator and `verifyManifestTrust` to the environment of a
child.

### ExecutorOperationStore, ExecutorOperations, MetadataExecutor

The store is one record: operations, the active and the queued index, outcomes
per invocation, stored results. Each transaction (`begin`, `complete`,
`recordInvocationTimeout`, `requestCancel`, `watchdog`) is an operator on it.
`ExecutorOperations` calls them with a time stamp that may be old, sets the alarm
after each transaction and lets that fail. `MetadataExecutor` puts two handlers
and the replay rows in front; every call between Worker and objects may fail
before or after its effect.

### ProviderOperationStore, ProviderExecutor

The store holds a record per operation, the fence per target, the outcomes and
consumed decision nonces. `Receive`, `HandlerStart`, `HandlerClaim`, `Prepare`,
`Send`, `Record` follow a dispatch through the worker or the coordinator; `Land`
is a write that reaches the target whatever its sender believes; `Observe` and
`Verification` are the verifier with its earlier reading of the target;
`Prepare` labels the source version with the generation, which operations of one
generation share, and stores the envelope of this one; `Cleanup` removes both;
`Decide` is an owner decision; `Alarm` and
`Crash` may come anywhere.

### SyncRunStore, SyncContainer

The stored state is one record: the runs, the pointers and the stop marker. A
coroutine of the object is a `pc` with what it read: `ready` for
`ensurePlannerReady` and the reconciliation it awaits, `calls` for the `onStop`
calls under way. Between two awaits a coroutine takes one step. A transaction is
appended to `queue` when it is issued, and the storage executes the queue in
order, one at a time; when `boundedPlannerOperation` gives up on one it stays
there and nobody takes its result. Of the container runtime, which is not in the
repository, it is assumed that it runs one planner at a time, reports a stop
after `onStart` returned, repeats a report that threw, and settles the report of
a planner before it starts the next one (`startAndWaitForPorts`).

### KVMigration, HostAuthorization

`lineage` and `head` are the stored records of the ledger; each method is one
transaction and so one action, and its callers choose order, repetition and
times. `stored` and `authHead` are the chain of authorizations. `activate` checks
the dates, awaits the key operations and then opens its transaction, so it is two
actions, and the activations of several callers overlap between them. Reads
(`readDecision`, `lookup`) are operators that the properties evaluate in every
state.

## Runs

| run | module, configuration | result |
| --- | --- | --- |
| `sync_journal` | `MCSyncCommand`, `_journal` | passes |
| `sync_converge` | `MCSyncCommand`, `_converge` | passes |
| `sync_dotenv_skip` | `MCSyncCommand`, `_dotenv` | a disagreement |
| `host_state` | `MCHost` | passes |
| `migration_replacement` | `StateMigration`, `_replace` | a disagreement |
| `executors` | `MCExecutors` | passes |
| `hub_schedules` | `MCHubSchedules` | passes |
| `hub_objects` | `MCHubObjects` | passes |
| `planner_stuck` | `MCSyncContainer`, `_stuck` | a disagreement |
| `secret_launch` | `MCSecretLaunch` | passes |
| `launch_signal` | `MCSecretLaunch`, `_signal` | a disagreement |
| `command_line` | `MCCommandLine` | passes |

What the passing runs show (a name in parentheses is a conjunct of the property):

- `sync_journal`, two `skret sync` runs in every flag mode against a per-key
  target with ambiguous requests, crashes and an edit: the cache is truthful
  (`CacheTruthful`); an ambiguous request stays visible in the journal and is not
  repeated (`UnknownIsHandled`: `AmbiguityIsDurable`, `NoBlindReplay`); evidence
  is kept and no-overwrite replaces nothing (`NothingIsLost`: `EvidenceKept`,
  `NoOverwrite`); the runs implement `MutationLedger` (`ImplementsLedger`).
- `sync_converge`: on a whole-file target repeated syncs reach the source and
  stay there, after a failed write, an edit and a new hash key (`Converges`).
- `host_state`. Migration by two processes with up to three errors and crashes and
  a concurrent save: v1 is never lost and a journaled backup is v1 (`V1Survives`),
  committed means complete and calls that do not overlap leave a readable file
  (`VerdictIsRight`), and a recovery that has looked at the files and meets no
  error, save or other call leaves the journal committed, rolled back or marked
  for reconciliation (`RecoveryDecides`). State manifests:
  what a verified manifest says was so (`VerifiedWasTrue`). JSON: both scans find
  exactly the repeated keys (`DuplicatesAreFound`). References: resolution fails
  exactly when it must and is independent of the order of listing
  (`ResolutionIsExact`). Configuration: what a command found is in the file or
  its backup wherever it dies (`PreviousConfigKept`). Commands: a missing key
  stops a rotation before its first write, and every change reaches every webhook
  (`BatchIsWhole`); an import keeps what existed when it looked, where the provider
  names keys in the form imported and no read of Key Vault failed unseen
  (`ImportKeepsExisting`); a stored key reaches its variable (`StoredIsInjected`).
- `executors`, clients of one operation with old time stamps, and one whose
  fingerprint differs, beside the provider coordinator: no answer contradicts the stored outcome, nothing is given up
  early, and two writes of a target do not race (`ExecutorsAgree`); a terminal
  status stays (`TerminalIsFinal`); every accepted operation comes to rest
  (`AcceptedEnds`).
- `hub_schedules`: three operations in one lane with room for two and failing
  alarm registrations: the lane is exclusive, nothing is forgotten, the bound
  holds (`LaneDiscipline`). The planner with cron deliveries, stop reports,
  failed and timed-out calls and a reset: no run of a live planner is finished,
  no planner inherits a run, pointers name the newest runs (`RunsAreTold`); a
  killed planner is not a clean run and "healthy" means what it says
  (`HealthIsEarned`).
- `hub_objects`: two owner-gated operations of one generation on one target: the fence is held
  exactly while needed, every dispatch is licensed, writes do not race
  (`WritesAreFenced`); the last success holds, a cancellation is kept, and until a write is
  verified its envelope is retained, and the label of its source unless an
  operation of that generation succeeded (`OutcomesHold`); records are final (`RecordsAreFinal`).
  Metadata executor: with duplicated envelopes, lost calls and evicted Workers a
  migration is executed once and an acknowledgement is backed by a stored success,
  or the watchdog had given the operation up (`ExecutedAndAcked`). Ledger: whatever the order of calls it never rejects its
  own records, V1 is deleted only when that was earned, every bound row stays
  readable (`LedgerIsSafe`). Authorizations: overlapping activations never fork
  or damage the chain (`ChainIntact`).
- `secret_launch`: however signers with longer and shorter lifetimes overlap, no
  manifest outlives the template's age limit and one window, and no supervisor
  goes back to a window that ends earlier (`AuthorityAges`); after the last window
  no child goes on serving, unless its supervisor hangs in a call (`FailsClosed`);
  side by side, supervisors remove nothing newer (`NewerGenerationKept`); a child
  ends when its supervisor is silent and not otherwise (`HeartbeatDecides`); a
  child gets every declared variable and secret, and of its parent's environment
  the allowed ones only (`ChildEnvironmentIsComplete`).
- `command_line`: backends: after a plain error the write is not there and after
  a success it is (`OutcomeIsHonest`), a printed version is the written one, or 0 after a failed call, and
  tags survive a rotation where the backend keeps them (`WriteIsReported`). Local
  file: no crash and no race but that of two inits that both generate a key leaves
  it without a stored key, a write from a current copy touches its own key only,
  a success is in the audit log or its backup (`LocalStoreIsKept`). A watched
  command runs with the secrets the loop believes it has (`NoMissedChange`). Envelopes: a nonce is used once (`NonceIsSingleUse`).
  Journal metadata: no sequence of calls makes a journal that the next load
  refuses, and an operation is promoted whole (`JournalIsSound`). Credentials:
  only the own credential and policy are written (`OthersAreKept`).

`TypeOK` is checked in `sync_journal` only, for the module with the largest proof.
`StateMigration`, `ExecutorOperations`, `ProviderExecutor` and `SyncContainer`
define theirs as a description of the state; that of `StateMigration` is proved.

### Disagreements

Four runs state what a comment, a test or a guide says and show a behaviour of
the code that does not do it; `PROJECT.json` quotes the lines:

- `--skip-unchanged` on a whole-file target drops the skipped keys from the file;
- a journal saved between the last comparison and the removal of the v1 file is
  deleted;
- a failed start and a slow marker write leave the planner's stop uncertain for
  good;
- the compose supervisor is cancelled by the SIGCHLD of its own Docker command.

Others were met while modelling. Where a property would state them, it is in the
module, with a comment that it does not hold, next to the weaker one that a run
checks:

- the guide says the cache is updated only after a fully successful sync, while
  each acknowledged key is cached at once (`sync.go:415`);
- a new hash key drops an open operation and with it the reason to refuse a
  replay (`state.go:992` against `retry.go:115`): `UnknownIsHandled` and
  `ImplementsLedger` are checked with one key only;
- after a failed propagation every later sync is refused, where `rotate.go:244`
  expects the next one to catch up;
- repeating an acknowledgement under a process-random key, which the comment at
  `state.go:268` provides for, leaves a journal that `state.go:935` refuses to
  save (`EphemeralReack`);
- an OCI write whose readback fails, and a write whose secret another process
  deletes and creates anew, are reported as a plain error although the value was
  stored, where `cli/provider_mutation.go:11` says an ambiguous write is never
  reported so (`NoFalseDenial`);
- `rotate.go:207` says tags and expiry are preserved; a GCP rotation and an OCI
  rotation with an expiry replace the tags (`RotateKeepsTags`);
- `import --on-conflict skip` overwrites existing secrets where the provider
  lists keys in another form than the import writes them, and on Key Vault those
  whose read failed after a failed listing (`azure.go:182`, where the comment at
  `azure.go:172` speaks of missing keys;
  `docs/src/content/docs/reference/commands.md:309`);
- `set --format json` and `rotate` print version 0 when the read after the write
  fails (`set.go:134`, `rotate.go:223`), which the comment at `set.go:130`
  reserves for a provider without versions;
- two `keys init` that find no key at the same time each generate one; the keyring
  keeps the later and the file may be sealed under the other (`keys.go:285`);
- of two operations of one generation the first one's cleanup removes the label
  that the second still relies on (`executor-provider-crypto.ts:1014`);
- with Docker a renewal replaces the containers it is to reuse: `runtime.go:133`
  takes a container for running when its state starts with "up", and `docker ps`
  says "running" (`internal/secretlaunch/renew_test.go:47`);
- a Docker call, a fetch or a handshake that never returns keeps the supervisor's
  children past the last window, because none has a timeout
  (`compose-supervisor/main.go:52`, `supervisor.go:561`) and the heartbeats are
  sent by other goroutines (`supervisor.go:632`);
- `run --watch` does not restart for a change that leaves the fingerprint as it
  was (`README.md:95`; `RestartsOnEveryChange`);
- a Key Vault path with a slash inside selects no name, where the comment at
  `azure.go:105` says it selects the dashed ones (`PathSelectsItsNames`);
- a metadata request that outlives its operation's deadline by the watchdog's
  fifteen minutes is acknowledged although the operation was given up, because
  the record that `complete` returns is ignored (`security-executor.ts:400`,
  against the comment at `:413`);
- an object reset between the SIGKILL of an unready planner and its stop report
  loses the flag that makes the run a failure (`container.ts:312`), which
  `ForcedStopIsFailure` therefore leaves out;
- preparing a KV migration moves the head before any row is applied
  (`kv-migration-store.ts:456`), although a test is named for not promoting a
  head on a partial apply. Reads are safe all the same: `NoReadGap`.

### Bounds

Two processes, clients or handlers are enough for every pairwise interleaving,
and the proofs cover more of them where there is one. Two keys distinguish "this
key" from "another key of the operation"; two values distinguish old from new.

- Sync: one source edit makes a listing stale; two faults allow a failed request
  followed by a death of the process that would record it.
- Migration: two attempts and three errors or deaths (an attempt is interrupted,
  its recovery fails and is called again).
- Manifests: two files and two edits let one change before and one after it was
  hashed, or a file come and go during one scan.
- Providers: one command per process, so the other process is the concurrent
  writer; four versions are more than the two can write; two lost answers lose
  both the write's and the readback's.
- Local file: one crash splits any command; rotating the audit log at every entry
  makes the rotations of two processes meet. Three would be needed to rotate a log
  away twice while it is open, which `SuccessIsAudited` excludes.
- Names: leaves of up to three characters over `/`, `-`, `_` and a letter contain
  every pair the mappings treat differently; six paths have every placement of a
  slash.
- References: chains one hop beyond the limit, which is two instead of ten; JSON:
  documents of two levels, and some beyond each limit.
- Envelopes: room for one of two scopes makes the store full; a lifetime of two
  and a clock to three make an entry expire and be swept.
- Credentials: three commands, of which two overlap and one precedes or follows.
- Launch: two generations, two supervisors and three containers put an old
  deployment beside its successor with an orphan; age limit plus window is three
  of four ticks, and lifetimes of one and two ticks let a shorter window be
  published last. Two generations, failures with a renewal, and overlapping
  signers are three kinds of initial state, so that each is explored by itself. The session uses interval 2, factor 3 and delay 2, so that the
  ticker period, the interval and the timeout are not multiples of each other.
- Executors: clocks run to the end of the longest lifetime plus one; the last
  tick stands for every later time (`Instant`). Three operations with room for
  two make the queue, the promotion and the refusal happen. At the provider
  executor one of the two gated operations outlives the last tick, so that it is
  started, ruled on and finished after the other expired; both expire on the
  coordinator's route. A metadata request may take two ticks, its operation's
  lifetime and the watchdog's grace, so that it completes after it was given up.
- Planner: two faults (a failed start and a failed marker), one spontaneous exit
  and one reset reach every branch; five runs are more than such a history can
  start.
- Ledger: two migrations and two epochs make one supersede the other, two times
  put a scan before or at the safety window, and two scans make a non-empty one
  follow an empty one. Authorizations: seven documents contain competing
  successors and a skipped generation.

Symmetry is used for interchangeable processes, calls, keys and values in runs
without liveness only.

### Fairness

`SyncCommand`: a scheduler keeps calling the command, a started run proceeds, and
a waiter for the lock is eventually served; nothing is assumed of requests.
`StateMigration`: a started call proceeds; nothing is assumed of the next call.
`MCExecutors`: time passes and the platform delivers a registered alarm; nothing
is assumed of clients, of handlers or of the cron trigger. `SyncContainer`:
storage answers, the runtime reports a stop, a killed planner dies, the cron
fires again, and a reconciliation that is called again and again is not cut off
at its deadline every time. `LaunchSupervisor`: the clock runs, a supervisor goes
on from every call that returns, and a helper reacts to its stream. The condition under which a
supervisor can go on is spelled out (`Able`: it runs, is not stuck in a call, and
a helper it is sending to listens), because whether a step is enabled is costly to compute there; the
formula is weak fairness of `Progress`. Any call may hang for good (`CallHangs`); none
of signers, Docker or signals is assumed to act.

## Proofs

Every theorem holds for every value of the constants that satisfies the
assumptions named in the modules; TLC evaluates those in the runs.

`SyncCommandProofs`, for any processes, keys, values, kind of target and bounds:
`SyncCommand` keeps its types (`TypeCorrect`) and the cache is truthful
(`CacheIsTruthful`), new hash keys included. Assumptions: `None` is no value,
`NoProc` no process, the target is a registered one, bounds are naturals.
`CacheTruthful` is not inductive: `RecordKey` writes the value of the listing into
the cache, so one must know that the target still holds it. `IInv` adds

- `LockInv`: a process past `acquireTargetLock` is the holder of the lock, and
  runs without state exist for whole-file targets only;
- `OperationOK`: the holder has exactly the saved journal in memory, the keys
  left are pending in it and the others succeeded;
- `LoadedOK`: before an operation is open, the loaded journal is the saved one or
  the empty one of another hash key;
- `AcceptedOK`: the target holds the value of an accepted request until it is
  recorded.

Lemmas first say what each journal operation returns and what a target may
answer; `TypeNext`, `LockNext`, `ProcessNext` and `CacheNext` then show each
conjunct preserved action by action.

`SyncLedgerProofs`, with the same generality: evidence and existing secrets are
kept (`NothingIsEverLost`: `NothingIsLost`); if the hash key never changes
(`MaxDomain = 1`), requests of unknown effect stay in the journal and are not
repeated (`UnknownStaysHandled`: `UnknownIsHandled`), and a journaled target's
runs implement `MutationLedger` (`RunsImplementLedger`: `ImplementsLedger`). The
hypothesis is needed: a new key drops the open operation. `LedgerInv` adds, while
the first key is in use,

- `JournalOK`: the saved journal is of that key or was never written, an
  unresolved key marks its operation, and every request without a recorded
  answer is an open key of it;
- `RequestOK`: a process about to send finds nothing unresolved, and once it has
  sent, nothing but its own request is.

`NoOverwrite` needs `AbsentInv`: what a `--no-overwrite` run has left to write is
not at the target, which holds because only the holder of the lock changes it.
The refinement maps `SyncKey` and `SyncAll` to `Attempt`, `RecordKey` and
`RecordAll` to `Confirm`, and every other step to a stutter.

`StateMigrationProofs`, for any processes, attempts, errors and saves: `V1Survives`
(`V1BytesSurvive`). The removal of the source relies on a comparison made steps
before, so `MigrationInv` adds what the backup may be, given the source
(`BackupFits`), and at which steps a call relies on it (`BackupRelied`); the
argument is that nothing ever replaces or removes a backup.

`EnvelopesProofs`, for any handlers, scopes, capacity and clock:
`NonceIsSingleUse` (`NoncesAreSingleUse`). `EnvelopesInv` says that the scope of
an admitted envelope is held at least as long as the envelope lives, or a sweep
was made at a time when it had expired (`Held`). The second case is the reader of
an old clock.

`HostAuthorizationProofs`, for any documents and callers: `ChainIntact`
(`ChainIsIntact`). `HostInv`: a slot holds the document of its generation, the
head names a stored one, nothing is stored above it, and every document names its
nearest predecessor. The assumption `DocumentsAreWellFormed` is what the parser
and the hash ensure: generations are positive, a document expires after it was
issued, only the first has no predecessor, a hash identifies its document, and no
document is the marker of absence.

`SecretHelperProofs`, for any number of keys, interval, factor, timeout and
delay: `HeartbeatDecides` (`HeartbeatIsRight`). `SessionInv` relates the times of
the frames in the stream, the supervisor's next heartbeat and the helper's last
sign of life and next tick. Its assumption is that the stream delivers a frame
within the time by which the shortest legal timeout exceeds the interval. With a
slower stream a live child is killed.

The remaining properties are model-checked only. Liveness (`Converges`,
`RecoveryDecides`, `AcceptedEnds`, `FailsClosed`) is outside the prover; so are
modules with recursive operators (`LaunchManifest` and with it
`LaunchSupervisor`, `References`, `StrictJSON`) and what such an operator
computes for every input.

## Not modelled

`PROJECT.json` lists every part. Left out for good: parsing, canonical encodings,
signatures and sealing (opaque, with their verdict as a precondition), HTML and
terminal output, interactive log-in, and read-only commands, which have no state.
The names-only inventory for the vault hub is built in one pass and stored with
one write. The MCP server answers one request at a time. The release scripts run
one after the other in a workflow that serialises them. The text tools (dotenv,
templates, differences, scanner, redaction) are functions on strings without an
order of steps. A power failure is not modelled: what survives depends on the
file system. Other hosts and people may write a target at any time; nothing in
the code detects them. The Windows variants of scan, lock and process handling
are not modelled.

## Plan

1. The loop over several targets, and `SyncCommand` with `StateMigration` on one
   file.
2. Pagination of the providers against concurrent deletes.
3. The release transaction of `scripts`, if it is ever run without its lock.
4. Proofs: `FenceExact` and `CancelIsKept` of the provider store, `LaneExclusive`
   of the operation store, `CommittedIsComplete` of the migration,
   `PreviousConfigKept`.
