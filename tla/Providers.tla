------------------------------ MODULE Providers ------------------------------
(***************************************************************************)
(* The cloud secret providers: AWS SSM, GCP Secret Manager, OCI Vault and  *)
(* Azure Key Vault, seen through one secret that several skret processes   *)
(* set, rotate, roll back and delete at the same time.                     *)
(*                                                                         *)
(* Every call to the backend is one step, so the pre-write read, the       *)
(* write, the metadata write and the readback of one Set interleave with   *)
(* those of the other processes.  A backend call may be rejected, or its   *)
(* answer may be lost with or without the effect having happened.  What is *)
(* modelled is how Set turns that into an answer: success, a plain error   *)
(* ("nothing happened"), or a PartialCommitError that names the value as   *)
(* committed or as unknown.                                                *)
(***************************************************************************)
EXTENDS Integers, Sequences, SequencesExt, FiniteSets

CONSTANTS Clients,    \* skret processes
          Values,     \* secret values
          Kinds,      \* the backends explored, of {"aws","gcp","oci","azure"}
          MaxOps,     \* commands per process
          MaxVersions,\* versions the secret may get
          MaxLost   \* backend calls that fail or lose their answer

VARIABLES kind,       \* the backend of this behaviour
          secret,     \* the secret as the backend holds it
          call,       \* call[c]: the command process c executes
          cache,      \* cache[c]: aws versionCache entry: <<>> or <<version>>
          faults

pvars == <<kind, secret, call, cache, faults>>

Expiry == "skret-expires-at"
TagNames == {"team", Expiry}

Absent(base) == [live |-> FALSE, base |-> base, vers |-> <<>>, tags |-> {}]

(* The number of the latest version, 0 when there is none.  Key Vault      *)
(* version ids are never reused; the other backends count from 1 again     *)
(* after a delete.                                                         *)
Latest(s) == IF s.vers = <<>> THEN 0 ELSE s.base + Len(s.vers)

(* The backend's own writes (external).                                    *)
Commit(s, c, tags) ==
  [s EXCEPT !.live = TRUE,
            !.tags = tags,
            !.vers = Append(@, [val |-> call[c].val, by |-> <<c, call[c].left>>, tags |-> tags])]

Removed(s) == Absent(IF kind = "azure" THEN s.base + Len(s.vers) ELSE 0)

Idle(n) == [op |-> "none", pc |-> "idle", left |-> n, val |-> "none", ttl |-> FALSE,
            want |-> {}, pre |-> 0, exists |-> FALSE, seen |-> {}, put |-> 0,
            landed |-> FALSE, quiet |-> TRUE, reset |-> FALSE, tags0 |-> {}, report |-> 0, result |-> "none"]

ProvidersInit ==
  /\ kind \in Kinds
  /\ \E ts \in {{}, TagNames} :
       secret \in {Absent(0),
                   [live |-> TRUE, base |-> 0, tags |-> ts,
                    vers |-> <<[val |-> "old", by |-> <<"init", 0>>, tags |-> ts]>>]}
  /\ call = [c \in Clients |-> Idle(MaxOps)]
  /\ cache = [c \in Clients |-> <<>>]
  /\ faults = 0

-----------------------------------------------------------------------------
(* Step bookkeeping. *)

At(c, pc) == call[c].pc = pc
Becomes(c, r) == call' = [call EXCEPT ![c] = r]

(* c changed the secret: the calls in flight elsewhere no longer run alone. *)
Wrote(c, r) ==
  call' = [d \in Clients |-> IF d = c THEN r ELSE [call[d] EXCEPT !.quiet = FALSE]]

Fails == faults < MaxLost /\ faults' = faults + 1

(* Set returns; the aws provider then drops its cache entry, on every exit  *)
(* path.                                                                    *)
Return(r, result) == [r EXCEPT !.pc = IF result = "ok" THEN "report" ELSE "done", !.result = result,
                               !.exists = FALSE, !.seen = {}, !.pre = 0]

(* Faulty variant: Set leaves the cache entry of an earlier read in place.  *)
invalidate_never(c) == cache

invalidate(c) == IF kind = "aws" THEN [cache EXCEPT ![c] = <<>>] ELSE cache

(* mapError around a definite reject, or around the first read.             *)
Leave(c, r, result) == /\ Becomes(c, Return(r, result))
                       /\ cache' = invalidate(c)

-----------------------------------------------------------------------------
(* Commands: set, rotate, rollback and delete start.                        *)

BeginSet(c) ==
  /\ At(c, "idle") /\ call[c].left > 0
  /\ \E v \in Values, ts \in {{}, {Expiry}}, json \in BOOLEAN :
       Becomes(c, [Idle(call[c].left) EXCEPT
                     !.op = "set", !.val = v, !.want = ts, !.pc = IF json THEN "probe" ELSE "lookup"])
  /\ UNCHANGED <<kind, secret, cache, faults>>

BeginRotate(c) ==
  /\ At(c, "idle") /\ call[c].left > 0
  /\ \E v \in Values, ttl \in BOOLEAN :
       Becomes(c, [Idle(call[c].left) EXCEPT
                     !.op = "rotate", !.val = v, !.ttl = ttl, !.pc = "probe"])
  /\ UNCHANGED <<kind, secret, cache, faults>>

(* Faulty variant: no read returns tags.                                    *)
MetaOf_bare(tags) == {}

(* The metadata a read gives back: only Key Vault's carries the tags.       *)
MetaOf(tags) == IF kind = "azure" THEN tags ELSE {}

(* Get: the aws provider answers from its cache when it can, the others     *)
(* ask the backend for the latest version.                                  *)
aws_Get(c) == IF cache[c] # <<>> THEN cache[c][1] ELSE Latest(secret)
gcp_Get == Latest(secret)
oci_Get == Latest(secret)
azure_Get == Latest(secret)
Reads(c) == CASE kind = "aws" -> aws_Get(c) [] kind = "gcp" -> gcp_Get
              [] kind = "oci" -> oci_Get [] kind = "azure" -> azure_Get
Caches(c) == IF kind = "aws" /\ Latest(secret) > 0
             THEN [cache EXCEPT ![c] = <<Reads(c)>>] ELSE cache

(* Get before the write: `rotate` needs the key to exist and keeps the      *)
(* metadata it reads; `set --format json` only asks whether it exists, and  *)
(* a read that fails makes rotate leave and set go on.                      *)
ReadFirst(c) ==
  /\ At(c, "probe")
  /\ cache' = Caches(c)
  /\ Becomes(c,
       CASE Reads(c) > 0 ->
              IF call[c].op = "rotate"
              THEN [call[c] EXCEPT !.pc = "lookup", !.tags0 = secret.tags,
                      !.want = MetaOf(secret.tags) \union (IF call[c].ttl THEN {Expiry} ELSE {})]
              ELSE [call[c] EXCEPT !.pc = "lookup"]
         [] Reads(c) = 0 /\ call[c].op = "rotate" ->
              [call[c] EXCEPT !.pc = "done", !.result = "notFound"]
         [] OTHER -> [call[c] EXCEPT !.pc = "lookup"])
  /\ UNCHANGED <<kind, secret, faults>>

ReadFirstFails(c) ==
  /\ At(c, "probe") /\ Fails
  /\ Becomes(c, IF call[c].op = "rotate"
                THEN [call[c] EXCEPT !.pc = "done", !.result = "error"]
                ELSE [call[c] EXCEPT !.pc = "lookup"])
  /\ UNCHANGED <<kind, secret, cache>>

(* Rollback reads the history, or at oci the one version, and calls Set     *)
(* with the value and metadata found there: <<>> when there is no such      *)
(* version.                                                                 *)
History == {[n |-> secret.base + i, val |-> secret.vers[i].val, meta |-> MetaOf(secret.vers[i].tags)] :
              i \in DOMAIN secret.vers}
aws_Rollback(n) == SetToSeq({s \in History : s.n = n})
gcp_Rollback(n) == SetToSeq({s \in History : s.n = n})
oci_GetVersion(n) == IF \E s \in History : s.n = n THEN <<CHOOSE s \in History : s.n = n>> ELSE <<>>
azure_Rollback(n) == SetToSeq({s \in History : s.n = n})
VersionFound(n) == CASE kind = "aws" -> aws_Rollback(n) [] kind = "gcp" -> gcp_Rollback(n)
                     [] kind = "oci" -> oci_GetVersion(n) [] kind = "azure" -> azure_Rollback(n)

BeginRollback(c) ==
  /\ At(c, "idle") /\ call[c].left > 0 /\ secret.vers # <<>>
  /\ \E n \in 1 .. MaxVersions :
       LET found == VersionFound(n)
           r     == [Idle(call[c].left) EXCEPT !.op = "rollback"]
       IN  Becomes(c, IF found = <<>> THEN [r EXCEPT !.pc = "done", !.result = "notFound"]
                      ELSE [r EXCEPT !.pc = "lookup", !.val = found[1].val, !.want = found[1].meta])
  /\ UNCHANGED <<kind, secret, cache, faults>>

(* Delete.  The aws client retries, so a delete whose answer was lost       *)
(* reports the key as not found.  oci looks the id of an active secret of   *)
(* that name up first.                                                      *)
Plainly(outcome) == IF outcome = "ok" THEN "ok" ELSE "error"
aws_Delete(outcome) == CASE ~secret.live -> "notFound" [] secret.live /\ outcome = "lost" -> "notFound"
                         [] OTHER -> Plainly(outcome)
gcp_Delete(outcome) == IF ~secret.live THEN "notFound" ELSE Plainly(outcome)
oci_secretIDForName == IF secret.live THEN {"id"} ELSE {}
oci_Delete(outcome) == IF oci_secretIDForName = {} THEN "notFound" ELSE Plainly(outcome)
azure_Delete(outcome) == IF ~secret.live THEN "notFound" ELSE Plainly(outcome)

Delete(c) ==
  /\ At(c, "idle") /\ call[c].left > 0
  /\ \E outcome \in {"ok", "dropped", "lost"} :
       LET r    == [Idle(call[c].left) EXCEPT !.op = "delete", !.pc = "done"]
           gone == secret.live /\ outcome # "dropped"
           res  == CASE kind = "aws" -> aws_Delete(outcome) [] kind = "gcp" -> gcp_Delete(outcome)
                     [] kind = "oci" -> oci_Delete(outcome) [] kind = "azure" -> azure_Delete(outcome)
       IN  /\ (outcome # "ok" => secret.live)
           /\ IF outcome = "ok" THEN UNCHANGED faults ELSE Fails
           /\ secret' = IF gone THEN Removed(secret) ELSE secret
           /\ call' = [d \in Clients |-> IF d = c THEN [r EXCEPT !.result = res]
                                        ELSE [call[d] EXCEPT !.quiet = FALSE, !.reset = @ \/ gone]]
           /\ cache' = IF res = "ok" THEN invalidate(c) ELSE cache
  /\ UNCHANGED kind

-----------------------------------------------------------------------------
(* Set: the order of its calls.  Each provider's Set as the call that       *)
(* follows the one that just succeeded; a read of the old value, the write  *)
(* and, at aws and gcp, the metadata in a write of its own.                 *)

aws_Set(c, pc) ==
  CASE pc = "lookup" -> "write"
    [] pc = "write"  -> IF call[c].exists /\ call[c].want # {} THEN "tag" ELSE "return"

(* gcp keeps the expiry in annotations and the other tags in labels.        *)
annotationsFromMeta(meta) == meta \intersect {Expiry}
labelsFromMeta(meta) == meta \ {Expiry}

gcp_Metadata(meta) == labelsFromMeta(meta) \union annotationsFromMeta(meta)

equalStringMaps(want, have) == want = have

gcp_Set(c, pc) ==
  CASE pc = "lookup" -> IF secret.live THEN "pre" ELSE "create"
    [] pc \in {"pre", "create"} -> "write"
    [] pc = "write"  -> LET want == call[c].want
                            seen == call[c].seen
                            same == /\ equalStringMaps(annotationsFromMeta(want), annotationsFromMeta(seen))
                                    /\ equalStringMaps(labelsFromMeta(want), labelsFromMeta(seen))
                        IN  IF call[c].exists /\ ~same THEN "tag" ELSE "return"

oci_Set(c, pc) == IF pc = "lookup" THEN "write" ELSE "return"
azure_Set(c, pc) == IF pc = "lookup" THEN "write" ELSE "return"

AfterCall(c, pc) ==
  CASE kind = "aws" -> aws_Set(c, pc) [] kind = "gcp" -> gcp_Set(c, pc)
    [] kind = "oci" -> oci_Set(c, pc) [] kind = "azure" -> azure_Set(c, pc)

-----------------------------------------------------------------------------
(* Set: the read before the write. *)

(* aws GetParameter, oci GetSecretBundleByName, azure GetSecret give the    *)
(* version at once; gcp GetSecret gives existence and metadata, and a       *)
(* second call the version.                                                 *)
Lookup(c) ==
  /\ At(c, "lookup")
  /\ Becomes(c, [call[c] EXCEPT !.exists = IF kind = "gcp" THEN secret.live ELSE Latest(secret) > 0,
                                !.pre = IF kind = "gcp" THEN 0 ELSE Latest(secret),
                                !.seen = secret.tags,
                                !.pc = AfterCall(c, "lookup")])
  /\ UNCHANGED <<kind, secret, cache, faults>>

ReadPre(c) ==
  /\ At(c, "pre")
  /\ Becomes(c, [call[c] EXCEPT !.pre = Latest(secret), !.pc = AfterCall(c, "pre")])
  /\ UNCHANGED <<kind, secret, cache, faults>>

(* A read before the write failed: Set leaves with the mapped error.        *)
LookupFails(c) ==
  /\ call[c].pc \in {"lookup", "pre"}
  /\ Fails
  /\ Leave(c, call[c], "error")
  /\ UNCHANGED <<kind, secret>>

-----------------------------------------------------------------------------
(* Set: the write.  The tags the backend holds after it.                    *)

aws_TagsAfterPut(c)   == IF call[c].exists THEN secret.tags ELSE secret.tags \union call[c].want
oci_TagsAfterWrite(c) == IF call[c].want = {} THEN secret.tags ELSE call[c].want
azure_TagsAfterSet(c) == call[c].want
gcp_TagsAfterAdd      == secret.tags
TagsAfterWrite(c) ==
  CASE kind = "aws"   -> aws_TagsAfterPut(c)
    [] kind = "oci"   -> oci_TagsAfterWrite(c)
    [] kind = "azure" -> azure_TagsAfterSet(c)
    [] kind = "gcp"   -> gcp_TagsAfterAdd

(* The backend refuses the write for good: an oci update of a secret that   *)
(* was deleted meanwhile, a gcp version for a secret that is gone.          *)
Refused(c) == \/ kind = "oci" /\ call[c].exists /\ ~secret.live
              \/ kind = "gcp" /\ ~secret.live

(* A create that meets the secret another process just created.  oci        *)
(* answers 409, which is not one of its definite rejects.                   *)
MeetsOther(c) == kind = "oci" /\ ~call[c].exists /\ secret.live

Write(c) ==
  /\ At(c, "write") /\ ~Refused(c) /\ ~MeetsOther(c) /\ Len(secret.vers) < MaxVersions
  /\ secret' = Commit(secret, c, TagsAfterWrite(c))
  /\ LET r == [call[c] EXCEPT !.landed = TRUE, !.put = Latest(secret'), !.pc = "tag"]
     IN  IF AfterCall(c, "write") = "tag" THEN Wrote(c, r) /\ UNCHANGED cache
                                  ELSE Wrote(c, Return(r, "ok")) /\ cache' = invalidate(c)
  /\ UNCHANGED <<kind, faults>>

(* The answer is lost: after the commit, or before the request arrived.     *)
WriteLost(c) ==
  /\ At(c, "write") /\ Fails
  /\ \/ /\ ~Refused(c) /\ ~MeetsOther(c) /\ Len(secret.vers) < MaxVersions
        /\ secret' = Commit(secret, c, TagsAfterWrite(c))
        /\ Wrote(c, [call[c] EXCEPT !.pc = "reconcile", !.landed = TRUE])
     \/ /\ Becomes(c, [call[c] EXCEPT !.pc = "reconcile"])
        /\ UNCHANGED secret
  /\ UNCHANGED <<kind, cache>>

WriteRejected(c) ==
  /\ At(c, "write")
  /\ \/ Refused(c) /\ UNCHANGED faults
     \/ ~Refused(c) /\ ~MeetsOther(c) /\ Fails
  /\ Leave(c, call[c], "error")
  /\ UNCHANGED <<kind, secret>>

WriteMeetsOther(c) ==
  /\ At(c, "write") /\ MeetsOther(c)
  /\ Becomes(c, [call[c] EXCEPT !.pc = "reconcile"])
  /\ UNCHANGED <<kind, secret, cache, faults>>

(* gcp CreateSecret: a secret without versions, with the wanted metadata.   *)
(* AlreadyExists is a definite reject.                                      *)
CreateSecret(c) ==
  /\ At(c, "create")
  /\ \/ /\ ~secret.live
        /\ secret' = [secret EXCEPT !.live = TRUE, !.tags = gcp_Metadata(call[c].want)]
        /\ Wrote(c, [call[c] EXCEPT !.pc = AfterCall(c, "create")])
        /\ UNCHANGED <<cache, faults>>
     \/ /\ Fails
        /\ secret' \in {secret, IF secret.live THEN secret
                                ELSE [secret EXCEPT !.live = TRUE, !.tags = gcp_Metadata(call[c].want)]}
        /\ Wrote(c, [call[c] EXCEPT !.pc = "reconcile"])
        /\ UNCHANGED cache
     \/ /\ secret.live
        /\ Leave(c, call[c], "error")
        /\ UNCHANGED <<secret, faults>>
  /\ UNCHANGED kind

(* aws AddTagsToResource merges, gcp UpdateSecret replaces.  On a failure   *)
(* aws reads back, gcp reports the value as committed at once.              *)
aws_AddTagsToResource(c) == secret.tags \union call[c].want
gcp_UpdateSecret(c) == gcp_Metadata(call[c].want)

TagWrite(c) ==
  LET after == IF kind = "aws" THEN aws_AddTagsToResource(c) ELSE gcp_UpdateSecret(c)
  IN
  /\ At(c, "tag")
  /\ \/ /\ secret.live
        /\ secret' = [secret EXCEPT !.tags = after]
        /\ Wrote(c, Return(call[c], "ok"))
        /\ cache' = invalidate(c)
        /\ UNCHANGED faults
     \/ /\ IF secret.live THEN Fails ELSE UNCHANGED faults
        /\ secret' \in {secret, IF secret.live THEN [secret EXCEPT !.tags = after] ELSE secret}
        /\ IF kind = "aws"
           THEN Wrote(c, [call[c] EXCEPT !.pc = "retag"]) /\ UNCHANGED cache
           ELSE Wrote(c, Return(call[c], "committed")) /\ cache' = invalidate(c)
  /\ UNCHANGED kind

-----------------------------------------------------------------------------
(* Set: the readback.  An observed version of 0 is a readback that failed   *)
(* or found nothing.                                                        *)

aws_Classify(c, observed) ==
  CASE observed = 0            -> "unknown"
    [] observed <= call[c].pre /\ observed # 0 -> "error"
    [] OTHER                   -> "unknown"

(* Faulty variant: a readback that failed counts as "nothing committed".    *)
gcp_Classify_silent(c, observed) ==
  IF observed <= call[c].pre THEN "error" ELSE "committed"

gcp_Classify(c, observed) ==
  CASE observed = 0            -> "unknown"
    [] observed <= call[c].pre /\ observed # 0 -> "error"
    [] OTHER                   -> "committed"

oci_Classify(c, observed) ==
  IF observed <= call[c].pre THEN "error" ELSE "unknown"

tagsEqual(first, second) == first = second

azure_Classify(c, observed) ==
  CASE observed = 0                          -> "unknown"
    [] observed # 0 /\ observed = call[c].pre -> "error"
    [] observed \notin {0, call[c].pre} /\ Last(secret.vers).val = call[c].val
         /\ tagsEqual(Last(secret.vers).tags, call[c].want) -> "ok"
    [] OTHER                                  -> "committed"

Classify(c, observed) ==
  CASE kind = "aws" -> aws_Classify(c, observed)
    [] kind = "gcp" -> gcp_Classify(c, observed)
    [] kind = "oci" -> oci_Classify(c, observed)
    [] kind = "azure" -> azure_Classify(c, observed)

Reconcile(c) ==
  /\ At(c, "reconcile")
  /\ \/ Leave(c, call[c], Classify(c, Latest(secret))) /\ UNCHANGED faults
     \/ Leave(c, call[c], Classify(c, 0)) /\ Fails
  /\ UNCHANGED <<kind, secret>>

equalTags(first, second) == first = second

(* aws partialCommit: the tag write failed; it stands when the readback     *)
(* shows this version with exactly the wanted tags.                         *)
partialCommit(c) ==
  /\ At(c, "retag")
  /\ \/ /\ Leave(c, call[c], IF Latest(secret) = call[c].put /\ equalTags(secret.tags, call[c].want)
                             THEN "ok" ELSE "committed")
        /\ UNCHANGED faults
     \/ Leave(c, call[c], "committed") /\ Fails
  /\ UNCHANGED <<kind, secret>>

(* Get after the write: the version `set --format json` and `rotate` print. *)
(* A Get that fails is ignored, and version 0 is printed.                   *)
Report(c) ==
  /\ At(c, "report")
  /\ \/ /\ cache' = Caches(c) /\ UNCHANGED faults
        /\ Becomes(c, [call[c] EXCEPT !.pc = "done", !.report = Reads(c)])
     \/ /\ Fails /\ UNCHANGED cache
        /\ Becomes(c, [call[c] EXCEPT !.pc = "done", !.report = 0])
  /\ UNCHANGED <<kind, secret>>

(* The command is over; the next one is a new process with an empty cache.  *)
EndProcess(c) ==
  /\ At(c, "done")
  /\ Becomes(c, [call[c] EXCEPT !.pc = "idle", !.left = @ - 1])
  /\ cache' = [cache EXCEPT ![c] = <<>>]
  /\ UNCHANGED <<kind, secret, faults>>

ProvidersStep(c) ==
  \/ BeginSet(c) \/ BeginRotate(c) \/ BeginRollback(c) \/ ReadFirst(c) \/ ReadFirstFails(c)
  \/ Delete(c)
  \/ Lookup(c) \/ ReadPre(c) \/ LookupFails(c)
  \/ Write(c) \/ WriteLost(c) \/ WriteRejected(c) \/ WriteMeetsOther(c) \/ CreateSecret(c) \/ TagWrite(c)
  \/ Reconcile(c) \/ partialCommit(c) \/ Report(c) \/ EndProcess(c)

ProvidersNext == \E c \in Clients : ProvidersStep(c)
-----------------------------------------------------------------------------
(* Properties. *)

Mutating(c) == call[c].op \in {"set", "rotate", "rollback"}
Stored(s, c) == \E i \in DOMAIN s.vers : s.vers[i].by = <<c, call[c].left>>

Answers(c) == /\ Mutating(c) /\ call[c].pc \notin {"idle", "report", "done"}
              /\ call'[c].pc \in {"report", "done"}

(* The answer of a write tells the truth whatever was lost on the way and   *)
(* whoever else wrote: after a plain error the backend does not hold this   *)
(* write, so that trying again is safe, and after a success it took it, or  *)
(* (Key Vault) holds exactly what was asked for.  Two cases are left out,   *)
(* and NoFalseDenial is about them: the oci provider answers with a plain   *)
(* error when its readback fails, and a delete by another process between   *)
(* the first read and the write makes the version numbers start again.      *)
OutcomeIsHonest ==
  [][\A c \in Clients : Answers(c) =>
       /\ call'[c].result = "error" /\ kind # "oci" /\ ~call[c].reset => ~Stored(secret', c)
       /\ call'[c].result = "ok" => \/ call'[c].landed
                                   \/ /\ kind = "azure"
                                      /\ Last(secret.vers).val = call[c].val
                                      /\ Last(secret.vers).tags = call[c].want]_pvars

(* What the CLI's error wrapper (cli/provider_mutation.go) says of every    *)
(* backend and every order of events: an ambiguous write is never reported  *)
(* as if nothing changed.  It does not hold in the two cases that           *)
(* OutcomeIsHonest leaves out.                                              *)
NoFalseDenial ==
  [][\A c \in Clients : Answers(c) /\ call'[c].result = "error" => ~Stored(secret', c)]_pvars

(* The version `set --format json` and `rotate` print is the one they       *)
(* wrote when nobody else wrote in between: the entry the aws provider      *)
(* cached for the read before the write is never served after it.  When a   *)
(* call failed they may print 0, as for a provider without versions, which  *)
(* is no version of a secret of these backends.                             *)
ReportIsFresh ==
  \A c \in Clients :
    /\ At(c, "done") /\ Mutating(c) /\ call[c].quiet
    /\ call[c].result = "ok" /\ call[c].put # 0
    => call[c].report = call[c].put \/ (call[c].report = 0 /\ faults > 0)

Preserving == kind \in {"aws", "azure"}

(* rotate keeps the tags of the secret it rotates (and records the expiry   *)
(* it was given), although only Key Vault's reads return tags and each      *)
(* backend writes them differently.  An oci rotate with an expiry replaces  *)
(* the tag set, and a gcp rotate always does: see RotateKeepsTags.          *)
RotatePreservesTags ==
  \A c \in Clients :
    /\ call[c].op = "rotate" /\ call[c].result = "ok" /\ call[c].quiet
    /\ call[c].pc \in {"report", "done"}
    => /\ Preserving \/ (kind = "oci" /\ ~call[c].ttl) => call[c].tags0 \subseteq secret.tags
       /\ call[c].ttl => Expiry \in secret.tags

(* What a write reports and leaves behind is what it did: the version it    *)
(* prints and the tags it was to keep.                                      *)
WriteIsReported == ReportIsFresh /\ RotatePreservesTags

(* What rotate's own comment says of every backend: the description, the    *)
(* tags and any recorded expiry of the secret are preserved.  It does not   *)
(* hold everywhere; RotatePreservesTags says where it does.                 *)
RotateKeepsTags ==
  \A c \in Clients :
    /\ call[c].op = "rotate" /\ call[c].result = "ok" /\ call[c].quiet
    /\ call[c].pc \in {"report", "done"}
    => call[c].tags0 \subseteq secret.tags
=============================================================================
