----------------------------- MODULE HubObjects -----------------------------
(***************************************************************************)
(* Four parts of the hub that share no storage: the provider executor, the *)
(* security executor with its operations, the ledger of KV migrations and  *)
(* the chain of host authorizations.  A behaviour exercises one of them.   *)
(* No step of one part reads or writes a variable of another, so           *)
(* interleaving them would add states and no behaviour of any part.        *)
(***************************************************************************)
EXTENDS ProviderExecutor, KVMigration, HostAuthorization

CONSTANTS
    MigrationRequest, Envelope, requestOf(_),   \* the security executor's Request, Invocation
    MaxActive, Lifetime, notAfter, Ttl, SweepLimit,
    MaxHandling, MaxExecutorTime, MaxFaults     \* bounds

VARIABLES object,   \* the part that this behaviour exercises
          execStore, rows, execClock, pc, env, requestNow, starts, acked, faults

execVars == <<execStore, rows, execClock, pc, env, requestNow, starts, acked, faults>>

Security == INSTANCE MetadataExecutor
            WITH store <- execStore, clock <- execClock, seen <- requestNow,
                 Request <- MigrationRequest, Invocation <- Envelope,
                 MaxTime <- MaxExecutorTime

ASSUME SecurityConstants == Security!ExecutorBounds

objectVars == <<vars, execVars, ledgerVars, authVars, object>>

HubInit ==
    /\ Init /\ Security!Init /\ LedgerInit /\ HostInit
    /\ object \in {"provider", "executor", "migrations", "authorizations"}

Provider == object = "provider" /\ Next /\ UNCHANGED <<execVars, ledgerVars, authVars, object>>

Executor ==
    object = "executor" /\ Security!Next /\ UNCHANGED <<vars, ledgerVars, authVars, object>>

Migrations ==
    object = "migrations" /\ LedgerNext /\ UNCHANGED <<vars, execVars, authVars, object>>

Authorizations ==
    object = "authorizations" /\ HostNext /\ UNCHANGED <<vars, execVars, ledgerVars, object>>

HubNext == Provider \/ Executor \/ Migrations \/ Authorizations

HubSpec == HubInit /\ [][HubNext]_objectVars

\* A migration is executed once, however often its envelope is delivered, and
\* what a client was told is done is durable, unless the watchdog had given the
\* operation up (executeMetadataMigration).
ExecutedAndAcked == Security!ExecutedOnce /\ Security!AckIsDurable
=============================================================================
