--------------------------- MODULE SecretCommands ---------------------------
(***************************************************************************)
(* The commands that change secrets: `rotate`, which reads every key       *)
(* before it writes any and tells the webhooks after each write, `import`, *)
(* which deduplicates its source, looks once at what exists and writes key *)
(* by key, and the one-key commands `set`, `delete` and `rollback`.        *)
(* Another command works on the same secrets meanwhile, and a provider or  *)
(* a webhook call may fail at any point.                                   *)
(***************************************************************************)
EXTENDS Integers, Sequences, SequencesExt, FiniteSets, TLC

CONSTANTS CmdKeys,     \* secret keys
          Hooks,       \* number of configured webhook URLs
          Attempts,    \* POSTs per URL: one and one retry
          MaxOther     \* changes another command makes

VARIABLES held,    \* held[k]: the stored value, "" when absent
          job,     \* the command
          told,    \* told[u]: keys announced at URL u
          others

cvars == <<held, job, told, others>>

NoJob == [cmd |-> "none", pc |-> "start", args |-> <<>>, i |-> 1, conflict |-> "overwrite",
          strict |-> FALSE, dry |-> FALSE, existing |-> {}, url |-> 1, try |-> 1, failed |-> FALSE,
          form |-> "same", batch |-> "strict", via |-> "none", missed |-> {}, wrote |-> {}, raced |-> {}, read |-> {}, rc |-> "none"]

(* import: an empty value is skipped, the last value of a key wins and     *)
(* keeps the place of the first.                                           *)
deduplicate(source) ==
  LET full == SelectSeq(source, LAMBDA s : s.val # "")
      last(k) == CHOOSE s \in ToSet(full) :
                   s.key = k /\ \E i \in DOMAIN full : full[i] = s /\ \A j \in (i + 1)..Len(full) : full[j].key # k
      firsts == SelectSeq([i \in DOMAIN full |-> [key |-> full[i].key, at |-> i]],
                          LAMBDA s : \A j \in 1..(s.at - 1) : full[j].key # s.key)
  IN  [i \in DOMAIN firsts |-> last(firsts[i].key)]

Items == [key : CmdKeys, val : {"", "n1", "n2"}]
Sources == UNION {[1..n -> Items] : n \in 0..2}

CommandsInit ==
  /\ held \in [CmdKeys -> {"", "old"}]
  /\ told = [u \in 1..Hooks |-> {}]
  /\ others = 0
  /\ \/ \E args \in UNION {[1..n -> CmdKeys] : n \in 1..2}, strict \in BOOLEAN :
          job = [NoJob EXCEPT !.cmd = "rotate", !.pc = "preflight", !.strict = strict,
                              !.args = [i \in DOMAIN args |-> [key |-> args[i], val |-> "r" \o ToString(i)]]]
     \/ \E k \in CmdKeys, cmd \in {"set", "delete", "rollback"}, strict \in BOOLEAN :
          job = [NoJob EXCEPT !.cmd = cmd, !.pc = IF cmd = "set" THEN "write" ELSE "confirm", !.strict = strict,
                              !.args = <<[key |-> k, val |-> IF cmd = "delete" THEN "" ELSE "n1"]>>]
     \/ \E source \in Sources, conflict \in {"overwrite", "skip", "fail"}, dry \in BOOLEAN,
          form \in {"same", "qualified"}, batch \in {"strict", "lenient"} :
          job = [NoJob EXCEPT !.cmd = "import", !.pc = "existing", !.args = deduplicate(source),
                              !.conflict = conflict, !.dry = dry, !.form = form, !.batch = batch]

Arg == job.args[job.i]
Exits(rc) == job' = [job EXCEPT !.pc = "done", !.rc = rc]
Moves(pc) == job' = [job EXCEPT !.pc = pc]

-----------------------------------------------------------------------------

(* Faulty variant: every key is read right before it is written.           *)
Preflight_each ==
  /\ job.pc = "preflight"
  /\ \/ held[Arg.key] = "" /\ Exits("notFound")
     \/ held[Arg.key] # "" /\ job' = [job EXCEPT !.read = @ \cup {Arg.key}, !.pc = "confirm"]
  /\ UNCHANGED <<held, told, others>>

(* rotate reads every key first; a missing one ends the command.           *)
Preflight ==
  /\ job.pc = "preflight"
  /\ \/ held[Arg.key] = "" /\ Exits("notFound")
     \/ Exits("provider")
     \/ /\ held[Arg.key] # ""
        /\ job' = [job EXCEPT !.read = @ \cup {Arg.key},
                              !.i = IF job.i < Len(job.args) THEN @ + 1 ELSE 1,
                              !.pc = IF job.i < Len(job.args) THEN "preflight" ELSE "confirm"]
  /\ UNCHANGED <<held, told, others>>

(* The question of rotate (on a terminal), delete and rollback.            *)
Confirm ==
  /\ job.pc = "confirm"
  /\ Exits("cancelled") \/ Moves("write")
  /\ UNCHANGED <<held, told, others>>

(* The keys a listing gives, as import compares them with its own: with    *)
(* --to-path and on the local provider they have the form of the imported  *)
(* keys; OCI answers with the path in front, which no bare key equals.     *)
ListedKeys == IF job.form = "same" THEN {k \in CmdKeys : held[k] # ""} ELSE {}

(* Faulty variant: nothing is known to exist when the listing fails.       *)
loadExisting_open ==
  /\ job.pc = "existing"
  /\ job' = [job EXCEPT !.pc = "write", !.via = "list", !.existing = {}, !.raced = {}]
  /\ UNCHANGED <<held, told, others>>

(* loadExisting: one listing, where conflicts matter at all.  When it      *)
(* fails the keys to import are read instead; no keys, nothing to read.    *)
loadExisting ==
  LET looks == ~job.dry /\ job.conflict # "overwrite" IN
  /\ job.pc = "existing"
  /\ \/ job' = [job EXCEPT !.pc = "write", !.via = "list", !.raced = {},
                           !.existing = IF looks THEN ListedKeys ELSE {}]
     \/ looks /\ Moves(IF job.args = <<>> THEN "write" ELSE "batch")
  /\ UNCHANGED <<held, told, others>>

(* GetBatch, key by key.  An error of one read ends the batch and with it  *)
(* the command, except on azure ("lenient"), which goes on to the next key *)
(* as if this one did not exist.  Azure answers with the key asked for,    *)
(* the others in the form of their listing.                                *)
GetBatch ==
  LET Reads(found, missed) ==
        job' = [job EXCEPT !.via = "batch", !.existing = @ \cup found, !.missed = @ \cup missed,
                           !.raced = @ \ {Arg.key},
                           !.i = IF job.i < Len(job.args) THEN @ + 1 ELSE 1,
                           !.pc = IF job.i < Len(job.args) THEN "batch" ELSE "write"]
      answered == held[Arg.key] # "" /\ (job.batch = "lenient" \/ job.form = "same")
  IN
  /\ job.pc = "batch"
  /\ \/ Reads(IF answered THEN {Arg.key} ELSE {}, {})
     \/ job.batch = "strict" /\ Exits("provider")
     \/ job.batch = "lenient" /\ Reads({}, {Arg.key})
  /\ UNCHANGED <<held, told, others>>

NextArg == IF job.i < Len(job.args) THEN [job EXCEPT !.i = @ + 1, !.pc = "write"]
            ELSE [job EXCEPT !.pc = "finish"]

(* One call that changes the provider: it is refused, or takes effect, or  *)
(* takes effect and reports an error.  A failure ends the command.         *)
Mutation(value, next) ==
  \/ Exits("provider") /\ UNCHANGED held
  \/ /\ held' = [held EXCEPT ![Arg.key] = value]
     /\ \/ job' = [job EXCEPT !.pc = "done", !.rc = "provider", !.wrote = @ \cup {Arg.key}]
        \/ job' = [next EXCEPT !.wrote = @ \cup {Arg.key}]

Notifying == [job EXCEPT !.pc = "notify", !.url = 1, !.try = 1, !.failed = FALSE]

setRun ==
  /\ job.cmd = "set" /\ job.pc = "write"
  /\ Mutation(Arg.val, Notifying)
  /\ UNCHANGED <<told, others>>

rotateKey ==
  /\ job.cmd = "rotate" /\ job.pc = "write"
  /\ Mutation(Arg.val, Notifying)
  /\ UNCHANGED <<told, others>>

deleteRun ==
  /\ job.cmd = "delete" /\ job.pc = "write"
  /\ IF held[Arg.key] = "" THEN Exits("notFound") /\ UNCHANGED held ELSE Mutation("", Notifying)
  /\ UNCHANGED <<told, others>>

(* rollback tells no webhook.                                              *)
rollbackRun ==
  /\ job.cmd = "rollback" /\ job.pc = "write"
  /\ \/ Exits("notFound") /\ UNCHANGED held
     \/ held[Arg.key] # "" /\ Mutation(Arg.val, NextArg)
  /\ UNCHANGED <<told, others>>

(* One pass of import's loop: a key that existed is skipped or ends it.    *)
importKey ==
  LET clash == job.conflict # "overwrite" /\ Arg.key \in job.existing IN
  /\ job.cmd = "import" /\ job.pc = "write"
  /\ CASE job.args = <<>>                        -> Moves("finish") /\ UNCHANGED held
       [] job.args # <<>> /\ job.dry             -> job' = NextArg /\ UNCHANGED held
       [] job.args # <<>> /\ ~job.dry /\ clash   ->
            /\ IF job.conflict = "skip" THEN job' = NextArg ELSE Exits("conflict")
            /\ UNCHANGED held
       [] OTHER                                  -> Mutation(Arg.val, NextArg)
  /\ UNCHANGED <<told, others>>

(* Faulty variant: only the last URL decides whether the delivery failed.  *)
NextUrl_last(failed) == [job EXCEPT !.url = @ + 1, !.try = 1, !.failed = failed]

NextUrl(failed) == [job EXCEPT !.url = @ + 1, !.try = 1, !.failed = @ \/ failed]

(* One POST: 2xx is delivered, 5xx is tried again, anything else fails the *)
(* URL; the other URLs get theirs all the same.  A POST may have arrived   *)
(* although its answer was lost.                                           *)
deliver ==
  /\ job.pc = "notify" /\ job.url <= Hooks
  /\ \/ told' = [told EXCEPT ![job.url] = @ \cup {Arg.key}] /\ job' = NextUrl(FALSE)
     \/ told' \in {told, [told EXCEPT ![job.url] = @ \cup {Arg.key}]} /\ job' = NextUrl(TRUE)
     \/ /\ job' = IF job.try < Attempts THEN [job EXCEPT !.try = @ + 1] ELSE NextUrl(TRUE)
        /\ UNCHANGED told
  /\ UNCHANGED <<held, others>>

(* A failed delivery warns, or ends the command under --strict-notify.     *)
reportMutation ==
  /\ job.pc = "notify" /\ job.url > Hooks
  /\ IF job.failed /\ job.strict THEN Exits("network") ELSE job' = NextArg
  /\ UNCHANGED <<held, told, others>>

(* rotate propagates to the declared sync targets (a failure only warns)   *)
(* and the command reports its results.                                    *)
Finish ==
  /\ job.pc = "finish"
  /\ Exits("ok")
  /\ UNCHANGED <<held, told, others>>

OtherCommand ==
  /\ others < MaxOther /\ job.pc # "done"
  /\ others' = others + 1
  /\ \E k \in CmdKeys, v \in {"", "other"} :
       /\ held' = [held EXCEPT ![k] = v]
       /\ job' = [job EXCEPT !.raced = @ \cup {k}]
  /\ UNCHANGED told

CommandsNext ==
  \/ Preflight \/ Confirm \/ loadExisting \/ GetBatch
  \/ setRun \/ rotateKey \/ deleteRun \/ rollbackRun \/ importKey
  \/ deliver \/ reportMutation \/ Finish \/ OtherCommand

-----------------------------------------------------------------------------
(* Properties. *)

(* `rotate` never leaves a half-rotated batch behind because a key was     *)
(* missing: by its first write it has read every key it was given, so only *)
(* a provider or a strict webhook failure can end it in the middle.        *)
NoHalfRotatedTypo ==
  job.cmd = "rotate" =>
    /\ job.wrote # {} => {job.args[i].key : i \in DOMAIN job.args} \subseteq job.read
    /\ job.rc \in {"notFound", "cancelled"} => job.wrote = {}

Overwrites(k) ==
  /\ job.cmd = "import" /\ job.conflict # "overwrite" /\ others' = others
  /\ held[k] # held'[k] /\ held[k] # "" /\ k \notin job.raced \cup job.wrote

(* The answers of this provider compare with the keys imported.            *)
Comparable == job.form = "same" \/ (job.via = "batch" /\ job.batch = "lenient")

(* `import --on-conflict skip` and `fail` write no key that existed when   *)
(* they looked, whether the listing or the batch read told them.  A value  *)
(* is overwritten only if another command stored it after the look, if     *)
(* azure's GetBatch dropped the error of its read, or if the provider      *)
(* answers in another form than the keys imported.                         *)
ImportKeepsExisting ==
  [][\A k \in CmdKeys : Overwrites(k) => k \in job.missed \/ ~Comparable]_cvars

(* Every durable change of set, delete and rotate that the command went on *)
(* from has been offered to every webhook, and under --strict-notify the   *)
(* command only succeeds when all of them took all of its keys.            *)
ChangesAreAnnounced ==
  job.rc = "ok" /\ job.strict /\ job.cmd \in {"set", "delete", "rotate"} =>
    \A u \in 1..Hooks : job.wrote \subseteq told[u]

(* A batch is preflighted as a whole and its changes reach every webhook.  *)
BatchIsWhole == NoHalfRotatedTypo /\ ChangesAreAnnounced
=============================================================================
