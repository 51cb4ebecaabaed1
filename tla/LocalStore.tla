----------------------------- MODULE LocalStore -----------------------------
(***************************************************************************)
(* The local provider: a YAML file, in plaintext or in one of two          *)
(* encrypted envelopes, with its audit trail, the key material that opens  *)
(* it, and `skret keys init`, which creates key material and migrates the  *)
(* file.  Every command is a process of its own that loads the file once,  *)
(* changes its copy and saves it by temp file and rename; several such     *)
(* processes run side by side and any of them may crash between two steps. *)
(***************************************************************************)
EXTENDS Integers, Sequences, SequencesExt, FiniteSets

CONSTANTS Shells,        \* processes, which also name the key each would generate
          Secrets,      \* secret names
          RotateAt,     \* entries at which the audit log is rotated
          MaxCrashes

VARIABLES disk,     \* the provider file
          envKey,   \* SKRET_AGE_KEY or SKRET_LOCAL_KEY: "env" or "none"
          ring,     \* the OS keyring entry: a material or "none"
          cfgEnc,   \* `encrypted: true` of the environment in .skret.yaml
          trail,    \* the audit log, whether that file exists, and its one backup
          proc,     \* proc[p]: the command p runs
          clobbered,\* history: an init stored its new key over the one another stored meanwhile
          crashes

lvars == <<disk, envKey, ring, cfgEnc, trail, proc, clobbered, crashes>>

NoValue == "absent"
Content(d) == [secrets |-> d.secrets, meta |-> d.meta]
Empty == [s \in Secrets |-> NoValue]

IdleProc == [pc |-> "idle", cmd |-> "none", key |-> CHOOSE s \in Secrets : TRUE, ttl |-> FALSE,
             tty |-> FALSE, enc |-> FALSE, form |-> "none", mat |-> "none",
             data |-> [secrets |-> Empty, meta |-> Empty],
             existing |-> FALSE, stdin |-> FALSE, stale |-> FALSE, file |-> "none", result |-> "none"]

(* Key material in precedence order: environment, keyring and, on a        *)
(* terminal, the passphrase the user types.                                *)
ResolveKeyMaterial(tty) ==
  CASE envKey # "none"                      -> envKey
    [] envKey = "none" /\ ring # "none"     -> ring
    [] OTHER                                -> IF tty THEN "pass" ELSE "none"

(* The age envelope: sealed to one material, opened by it and no other.    *)
SealWithMeta(content, mat) == [form |-> "age", key |-> mat, secrets |-> content.secrets, meta |-> content.meta]
OpenWithMeta(d, mat) == d.key = mat

LocalInit ==
  /\ envKey \in {"none", "env"}
  /\ ring \in {"none", "ring"}
  /\ disk \in [form : {"none", "plain", "age", "legacy"}, key : {"none", "env", "ring", "pass"},
               secrets : {Empty, [s \in Secrets |-> "v0"]}, meta : {Empty, [s \in Secrets |-> "ttl0"]}]
  /\ disk.form = "none" => disk.secrets = Empty
  /\ disk.secrets = Empty => disk.meta = Empty
  /\ IF disk.form \in {"none", "plain"} THEN disk.key = "none"
     ELSE disk.key \in {envKey, ring, "pass"} \ {"none"}
  /\ cfgEnc \in (IF disk.form = "age" THEN BOOLEAN ELSE {FALSE})
  /\ trail = [exists |-> TRUE, log |-> <<"e0">>, bak |-> <<>>]
  /\ proc = [p \in Shells |-> IdleProc]
  /\ clobbered = FALSE /\ crashes = 0

AtStep(p, pc) == proc[p].pc = pc
Goes(p, r) == proc' = [proc EXCEPT ![p] = r]
Ends(p, result) == Goes(p, [IdleProc EXCEPT !.pc = "done", !.cmd = proc[p].cmd, !.result = result])

(* p replaced the file: what the others loaded before is stale.            *)
Replaces(p, d, r) ==
  /\ disk' = d
  /\ proc' = [q \in Shells |-> IF q = p THEN r
                           ELSE [proc[q] EXCEPT !.stale = proc[q].pc \notin {"idle", "load", "candidates", "done"}]]

-----------------------------------------------------------------------------
(* set, rotate and delete. *)

StartCommand(p) ==
  /\ AtStep(p, "idle") /\ proc[p].result = "none"
  /\ \E cmd \in {"set", "rotate", "delete"}, s \in Secrets, ttl \in BOOLEAN, tty \in BOOLEAN :
       /\ cmd = "delete" => ~ttl
       /\ tty => envKey = "none"
       /\ Goes(p, [IdleProc EXCEPT !.pc = "load", !.cmd = cmd, !.key = s, !.ttl = ttl, !.tty = tty,
                                   !.enc = cfgEnc])
  /\ UNCHANGED <<disk, envKey, ring, cfgEnc, trail, clobbered, crashes>>

(* What Set and Delete do to the loaded copy.  A Set without an expiry     *)
(* keeps the recorded one; Delete leaves the metadata entry behind.        *)
Mutated(p, d) ==
  IF proc[p].cmd = "delete"
  THEN [d EXCEPT !.secrets[proc[p].key] = NoValue]
  ELSE [d EXCEPT !.secrets[proc[p].key] = p,
                 !.meta[proc[p].key] = IF proc[p].ttl THEN p ELSE @]

(* load, then the command's change to the copy.  An envelope needs the     *)
(* material that sealed it; rotate and delete need the key to exist.       *)
Load(p) ==
  LET sealed == disk.form \in {"age", "legacy"}
      mat    == IF sealed THEN ResolveKeyMaterial(proc[p].tty) ELSE "none"
  IN
  /\ AtStep(p, "load")
  /\ CASE sealed /\ ~OpenWithMeta(disk, mat) -> Ends(p, "auth")
       [] (sealed => OpenWithMeta(disk, mat)) /\ proc[p].cmd # "set" /\ disk.secrets[proc[p].key] = NoValue
            -> Ends(p, "notFound")
       [] OTHER -> Goes(p, [proc[p] EXCEPT !.pc = "save", !.form = disk.form, !.mat = mat,
                                           !.data = Mutated(p, Content(disk)), !.stale = FALSE])
  /\ UNCHANGED <<disk, envKey, ring, cfgEnc, trail, clobbered, crashes>>

(* save: an envelope stays an envelope of its format, `encrypted: true`    *)
(* seals a plaintext file, and the temp file is renamed over the old one.  *)
Save(p) ==
  LET r    == proc[p]
      seal == r.enc \/ r.form \in {"age", "legacy"}
      mat  == IF r.mat # "none" THEN r.mat ELSE ResolveKeyMaterial(r.tty)
      form == IF ~seal THEN "plain" ELSE IF r.form = "legacy" THEN "legacy" ELSE "age"
  IN
  /\ AtStep(p, "save")
  /\ \/ /\ seal /\ mat = "none"
        /\ Ends(p, "auth") /\ UNCHANGED disk
     \/ /\ seal => mat # "none"
        /\ Replaces(p, [form |-> form, key |-> IF seal THEN mat ELSE "none",
                        secrets |-> r.data.secrets, meta |-> r.data.meta],
                    [IdleProc EXCEPT !.pc = "stat", !.cmd = r.cmd, !.key = r.key])
     \/ Ends(p, "error") /\ UNCHANGED disk
  /\ UNCHANGED <<envKey, ring, cfgEnc, trail, clobbered, crashes>>

(* appendAudit: look at the size, rename a full log over the backup, open  *)
(* the log, creating it, and append one line.  Between the look and the    *)
(* rename another process may have rotated: the rename then fails, or      *)
(* moves a log that is not full.  A log that is open moves with its file.  *)
Stat(p) ==
  /\ AtStep(p, "stat")
  /\ Goes(p, [proc[p] EXCEPT !.pc = IF Len(trail.log) >= RotateAt THEN "rename" ELSE "open"])
  /\ UNCHANGED <<disk, envKey, ring, cfgEnc, trail, clobbered, crashes>>

Moved(file) == CASE file = "log" -> "bak" [] file = "bak" -> "unlinked" [] OTHER -> file

rotateAuditLog(p) ==
  /\ AtStep(p, "rename")
  /\ IF ~trail.exists
     THEN Ends(p, "auditError") /\ UNCHANGED trail
     ELSE /\ trail' = [exists |-> FALSE, log |-> <<>>, bak |-> trail.log]
          /\ proc' = [q \in Shells |-> IF q = p THEN [proc[q] EXCEPT !.pc = "open"]
                                       ELSE [proc[q] EXCEPT !.file = Moved(@)]]
  /\ UNCHANGED <<disk, envKey, ring, cfgEnc, clobbered, crashes>>

OpenAuditLog(p) ==
  /\ AtStep(p, "open")
  /\ \/ /\ trail' = [trail EXCEPT !.exists = TRUE]
        /\ Goes(p, [proc[p] EXCEPT !.pc = "append", !.file = "log"])
     \/ Ends(p, "auditError") /\ UNCHANGED trail
  /\ UNCHANGED <<disk, envKey, ring, cfgEnc, clobbered, crashes>>

(* The trail with p's line at the end of the file p has open.              *)
Appended(p) ==
  CASE proc[p].file = "log"      -> [trail EXCEPT !.log = Append(@, p)]
    [] proc[p].file = "bak"      -> [trail EXCEPT !.bak = Append(@, p)]
    [] proc[p].file = "unlinked" -> trail

(* Faulty variant: a failed append is swallowed.                           *)
AppendAuditEntry_quiet(p) ==
  /\ AtStep(p, "append")
  /\ trail' \in {trail, Appended(p)}
  /\ Ends(p, "ok")
  /\ UNCHANGED <<disk, envKey, ring, cfgEnc, clobbered, crashes>>

(* The entry names the operation and the key.  A failed append is reported *)
(* although the secret is written.                                         *)
AppendAuditEntry(p) ==
  /\ AtStep(p, "append")
  /\ \/ trail' = Appended(p) /\ Ends(p, "ok")
     \/ Ends(p, "auditError") /\ UNCHANGED trail
  /\ UNCHANGED <<disk, envKey, ring, cfgEnc, clobbered, crashes>>

-----------------------------------------------------------------------------
(* skret keys init.  Nothing keeps two of them apart.                      *)

StartInit(p) ==
  /\ AtStep(p, "idle") /\ proc[p].result = "none"
  /\ \E existing, stdin, tty \in BOOLEAN :
       /\ stdin => ~tty
       /\ tty => envKey = "none"
       /\ Goes(p, [IdleProc EXCEPT !.pc = "candidates", !.cmd = "init", !.existing = existing,
                                   !.stdin = stdin, !.tty = tty, !.enc = cfgEnc])
  /\ UNCHANGED <<disk, envKey, ring, cfgEnc, trail, clobbered, crashes>>

keyCandidates(p) ==
  LET known == SelectSeq(<<envKey, IF proc[p].stdin THEN "pass" ELSE "none", ring>>,
                         LAMBDA m : m # "none")
  IN  IF known = <<>> /\ proc[p].tty THEN <<"pass">> ELSE known

(* The first candidate that opens the file, if one does.                   *)
firstOpen(cands) == {i \in DOMAIN cands : /\ OpenWithMeta(disk, cands[i])
                                         /\ \A j \in 1 .. (i - 1) : ~OpenWithMeta(disk, cands[j])}

(* The file is classified and read (with --encrypt-existing), the          *)
(* candidates are collected, and the branch is chosen.                     *)
InitRead(p) ==
  LET state == IF proc[p].existing THEN disk.form ELSE "none"
      cands == keyCandidates(p)
      opens == firstOpen(cands) # {}
      r     == [proc[p] EXCEPT !.form = state, !.data = Content(disk), !.stale = FALSE]
      picks == [r EXCEPT !.mat = cands[1], !.pc = IF state \in {"legacy", "plain"} THEN "seal" ELSE "config"]
  IN
  /\ AtStep(p, "candidates")
  /\ CASE state \in {"age", "legacy"} /\ ~opens -> Ends(p, "auth")
       [] state = "age" /\ opens                -> Goes(p, [r EXCEPT !.pc = "config"])
       [] state = "legacy" /\ opens             -> Goes(p, picks)
       [] state \in {"none", "plain"}           -> Goes(p, IF cands = <<>> THEN [r EXCEPT !.pc = "generate"]
                                                                         ELSE picks)
  /\ UNCHANGED <<disk, envKey, ring, cfgEnc, trail, clobbered, crashes>>

AfterKey(p, mat) ==
  [proc[p] EXCEPT !.mat = mat, !.pc = IF proc[p].form = "plain" THEN "seal" ELSE "config"]

(* StoreKeyring writes the material and reads it back: what the entry      *)
(* holds afterwards, and whether that was confirmed.                       *)
StoreKeyring(mat) == {[ring |-> mat, ok |-> TRUE], [ring |-> mat, ok |-> FALSE], [ring |-> ring, ok |-> FALSE]}

Clobbers(kept) == clobbered' = (clobbered \/ (ring # "none" /\ kept # ring))

(* Faulty variant: the write to the keyring is not checked.                *)
resolveOrCreate_unchecked(p) ==
  /\ AtStep(p, "generate")
  /\ \E stored \in StoreKeyring(p) : ring' = stored.ring /\ Clobbers(stored.ring)
  /\ Goes(p, AfterKey(p, p))
  /\ UNCHANGED <<disk, envKey, cfgEnc, trail, crashes>>

(* resolveOrCreate with no candidate: a fresh identity goes into the       *)
(* keyring and is read back; a keyring that does not keep it ends the      *)
(* command (no terminal: on one the passphrase was already a candidate).   *)
(* An entry is there by now when another init generated a key meanwhile.   *)
resolveOrCreate(p) ==
  /\ AtStep(p, "generate")
  /\ \E stored \in StoreKeyring(p) :
       /\ ring' = stored.ring /\ Clobbers(stored.ring)
       /\ IF stored.ok THEN Goes(p, AfterKey(p, p)) ELSE Ends(p, "auth")
  /\ UNCHANGED <<disk, envKey, cfgEnc, trail, crashes>>

(* Faulty variant: the migration carries the values over and not the       *)
(* metadata.                                                               *)
InitSeal_values(p) ==
  /\ AtStep(p, "seal")
  /\ Replaces(p, SealWithMeta([secrets |-> proc[p].data.secrets, meta |-> Empty], proc[p].mat),
              [proc[p] EXCEPT !.pc = "config"])
  /\ UNCHANGED <<envKey, ring, cfgEnc, trail, clobbered, crashes>>

InitSeal(p) ==
  /\ AtStep(p, "seal")
  /\ \/ Replaces(p, SealWithMeta(proc[p].data, proc[p].mat), [proc[p] EXCEPT !.pc = "config"])
     \/ Ends(p, "error") /\ UNCHANGED disk
  /\ UNCHANGED <<envKey, ring, cfgEnc, trail, clobbered, crashes>>

updateConfigEncryptedFlag(p) ==
  /\ AtStep(p, "config")
  /\ cfgEnc' = (cfgEnc \/ (proc[p].existing /\ ~proc[p].enc))
  /\ Ends(p, "ok")
  /\ UNCHANGED <<disk, envKey, ring, trail, clobbered, crashes>>

(* A process dies between two steps; its temp file, if any, is left over.  *)
Crash(p) ==
  /\ proc[p].pc \notin {"idle", "done"} /\ crashes < MaxCrashes
  /\ crashes' = crashes + 1
  /\ Ends(p, "crashed")
  /\ UNCHANGED <<disk, envKey, ring, cfgEnc, trail, clobbered>>

LocalStep(p) ==
  \/ StartCommand(p) \/ Load(p) \/ Save(p) \/ Stat(p) \/ rotateAuditLog(p)
  \/ OpenAuditLog(p) \/ AppendAuditEntry(p)
  \/ StartInit(p) \/ InitRead(p) \/ resolveOrCreate(p) \/ InitSeal(p)
  \/ updateConfigEncryptedFlag(p) \/ Crash(p)

LocalNext == \E p \in Shells : LocalStep(p)

-----------------------------------------------------------------------------
(* Properties. *)

Readable == disk.form \in {"none", "plain"} \/ disk.key = ResolveKeyMaterial(FALSE)

(* A file that every command can open never becomes one that none can:     *)
(* neither `keys init`, nor a save that follows it in another process, nor *)
(* a crash between storing the key, sealing the file and recording the     *)
(* flag leaves an envelope whose key is not the one that is found first.   *)
(* Files sealed with a typed passphrase are left out: nothing stores it.   *)
(* So are two inits that find no key at the same time and both generate    *)
(* one: no lock keeps them apart, the keyring holds one of the two keys    *)
(* and the file may be sealed under the other.                             *)
KeyIsNeverLost ==
  [][Readable /\ disk'.key # "pass" => Readable' \/ clobbered']_lvars

Rank(form) == CASE form \in {"none", "plain"} -> 0 [] form = "legacy" -> 1 [] form = "age" -> 2

(* What a command that loaded the current file writes differs from it only *)
(* in its own key: every other value and expiry survives set, rotate,      *)
(* delete and the migration, and the file never loses its encryption.      *)
WriteIsMinimal ==
  [][\A p \in Shells :
       /\ disk' # disk /\ ~proc[p].stale
       /\ proc[p].pc \in {"save", "seal"} /\ proc'[p].pc \in {"stat", "config"}
       => /\ \A s \in Secrets : proc[p].cmd = "init" \/ s # proc[p].key
                => disk'.secrets[s] = disk.secrets[s] /\ disk'.meta[s] = disk.meta[s]
          /\ proc[p].cmd # "init" /\ ~proc[p].ttl => disk'.meta = disk.meta
          /\ Rank(disk'.form) >= Rank(disk.form)]_lvars

(* A command that reports success has its line in the audit log or in its  *)
(* backup, however its rotation interleaves with that of another process;  *)
(* only a log rotated twice while it was open takes the line with it.      *)
SuccessIsAudited ==
  [][\A p \in Shells :
       /\ proc[p].pc = "append" /\ proc[p].file # "unlinked"
       /\ proc'[p].result = "ok" /\ proc'[p].pc = "done"
       => Contains(trail'.log \o trail'.bak, p)]_lvars

(* No step of two commands on one machine, and no crash between, loses the *)
(* key, another command's data or the record of a success, except in the   *)
(* cases named above.                                                      *)
LocalStoreIsKept == KeyIsNeverLost /\ WriteIsMinimal /\ SuccessIsAudited
=============================================================================
