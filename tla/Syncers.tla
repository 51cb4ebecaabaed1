------------------------------ MODULE Syncers ------------------------------
(***************************************************************************)
(* The sync targets of internal/syncer as the command sees them: the set   *)
(* of results one call may have.  A result says whether the call returned  *)
(* nil and what the target holds afterwards.  Names are those that         *)
(* ValidateDestinationMapping and the targets' own syntax checks accept,   *)
(* so a key stands for its destination name.                               *)
(***************************************************************************)
EXTENDS SyncJournal

CONSTANT Target    \* the registered target type

ASSUME TargetAssumption ==
    Target \in {"github", "gitlab", "worker", "pages", "dotenv", "terraform", "k8s"}

Secrets == [Key -> Value \cup {None}]

PerKeySyncer == Target \in {"github", "gitlab", "worker"}

journalByDefault == Target \in {"github", "gitlab", "worker", "pages"}

\* Targets that can list their names; the others reject no-overwrite.
ExistingLister == Target \in {"github", "gitlab", "worker"}

\* Names at the target; listing them changes nothing.
ExistingKeys(t) == {k \in Key : t[k] # None}

FilterAbsent(t, secrets) == secrets \ ExistingKeys(t)

Result(ok, target) == [ok |-> ok, target |-> target]

\* One attempt.  Success means applied; any other answer proves nothing.
doMutation(before, after) ==
    {Result(TRUE, after), Result(FALSE, after), Result(FALSE, before)}

\* A temporary file is renamed over the target; only the directory sync can
\* fail after that.
atomicWrite(before, after) ==
    {Result(TRUE, after), Result(FALSE, after), Result(FALSE, before)}

putWorkerSecret(t, k, v) == doMutation(t, [t EXCEPT ![k] = v])

\* The public key is read first; without it nothing is sent.
putSecret(t, k, v) == {Result(FALSE, t)} \cup doMutation(t, [t EXCEPT ![k] = v])

\* The update of a missing variable is answered 404 without effect and
\* followed by a create.
putVariable(t, k, v) ==
    LET after == [t EXCEPT ![k] = v]
        createVariable == doMutation(t, after)
    IN  IF t[k] = None THEN {Result(FALSE, t)} \cup createVariable
                       ELSE doMutation(t, after)

SyncKeyResults(t, k, v) ==
    CASE Target = "github" -> putSecret(t, k, v)
      [] Target = "gitlab" -> putVariable(t, k, v)
      [] OTHER             -> putWorkerSecret(t, k, v)

\* The batch merged into the target / the target replaced by the batch.
Merged(t, batch, values)   == [k \in Key |-> IF k \in batch THEN values[k] ELSE t[k]]
Replaced(t, batch, values) == [k \in Key |-> IF k \in batch THEN values[k] ELSE None]

syncPages(t, batch, values) == doMutation(t, Merged(t, batch, values))

DotenvSync(t, batch, values)    == atomicWrite(t, Replaced(t, batch, values))
TerraformSync(t, batch, values) == atomicWrite(t, Replaced(t, batch, values))
K8sSync(t, batch, values)       == atomicWrite(t, Replaced(t, batch, values))

\* Sync(batch) where the command does not go key by key: an API target is then
\* cloudflare pages or is called with an empty batch, and an empty batch sends
\* nothing.
SyncResults(t, batch, values) ==
    CASE Target = "dotenv"    -> DotenvSync(t, batch, values)
      [] Target = "terraform" -> TerraformSync(t, batch, values)
      [] Target = "k8s"       -> K8sSync(t, batch, values)
      [] OTHER                -> IF batch = {} THEN {Result(TRUE, t)}
                                               ELSE syncPages(t, batch, values)
=============================================================================
