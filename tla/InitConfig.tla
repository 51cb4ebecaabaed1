----------------------------- MODULE InitConfig -----------------------------
(***************************************************************************)
(* `skret init` and `skret setup`: read .skret.yaml, merge the flags into  *)
(* it, authenticate (setup), back the old file up, replace it, and add the *)
(* secret files to .gitignore.  The login may take minutes, during which   *)
(* an editor or another command may write the file; any step may fail and  *)
(* the process may die between two of them.                                *)
(***************************************************************************)
EXTENDS Integers, Sequences

CONSTANTS MaxInits,          \* commands
          MaxOutsideWrites   \* writes of the file by somebody else

VARIABLES skretYaml,   \* the file: <<>> or <<its content>>
          bak,         \* .skret.yaml.bak
          ignored,     \* the entries .gitignore holds
          cmd,         \* the last command
          inits, outside

ivars == <<skretYaml, bak, ignored, cmd, inits, outside>>

(* A content: whether it parses, the provider of prod, the default         *)
(* environment, and everything else.                                       *)
defaultInitConfig == [ok |-> TRUE, prod |-> "aws", def |-> "dev", rest |-> "default"]
Written == [ok : BOOLEAN, prod : {"aws", "local"}, def : {"dev", "prod"}, rest : {"mine"}]

NoCmd == [pc |-> "idle", setup |-> FALSE, force |-> FALSE, changed |-> FALSE, existing |-> <<>>,
          data |-> defaultInitConfig, provider |-> "aws", flag |-> "none", authed |-> FALSE, touched |-> FALSE,
          bak0 |-> <<>>]

ConfigInit ==
  /\ skretYaml \in {<<>>} \cup {<<c>> : c \in Written}
  /\ bak \in {<<>>, <<[defaultInitConfig EXCEPT !.rest = "old"]>>}
  /\ ignored = {}
  /\ cmd = NoCmd /\ inits = 0 /\ outside = 0

CmdAt(pc) == cmd.pc = pc
CmdGoes(pc) == cmd' = [cmd EXCEPT !.pc = pc]
providerOf(c) == IF c.def = "dev" THEN "local" ELSE c.prod

(* The file is read, merged or replaced by the defaults, and the flags are *)
(* applied; a dry run ends here.  Without a provider flag, a merge         *)
(* authenticates the provider of the default environment.                  *)
init_run ==
  /\ CmdAt("idle") /\ inits < MaxInits
  /\ inits' = inits + 1
  /\ \E setup, force, dry \in BOOLEAN, flag \in {"none", "aws", "local"} :
       LET exists  == skretYaml # <<>>
           merges  == exists /\ ~force
           base    == IF merges THEN skretYaml[1] ELSE defaultInitConfig
           changed == force \/ flag # "none"
           r       == [NoCmd EXCEPT !.setup = setup, !.force = force, !.changed = changed, !.flag = flag,
                         !.existing = skretYaml, !.bak0 = bak,
                         !.data = IF flag = "none" THEN base ELSE [base EXCEPT !.prod = flag],
                         !.provider = IF flag # "none" THEN flag
                                      ELSE IF merges THEN providerOf(base) ELSE "aws"]
       IN  cmd' = IF dry \/ (merges /\ ~base.ok) THEN r ELSE [r EXCEPT !.pc = "before"]
  /\ UNCHANGED <<skretYaml, bak, ignored, outside>>

(* setup's hook: a provider other than local has to be logged in to.       *)
beforeCommit ==
  /\ CmdAt("before")
  /\ IF cmd.setup /\ cmd.provider # "local"
     THEN cmd' = [cmd EXCEPT !.pc = "commit", !.authed = TRUE]
     ELSE CmdGoes("commit")
  /\ UNCHANGED <<skretYaml, bak, ignored, inits, outside>>

(* Bytes that are the ones read are not written.  Flags that change        *)
(* nothing may still change the bytes, when the file was not formatted the *)
(* way it is marshalled.                                                   *)
Unchanged ==
  LET same == cmd.existing # <<>> /\ cmd.data = cmd.existing[1] IN
  /\ CmdAt("commit")
  /\ \/ same /\ CmdGoes("ignore")
     \/ ~(same /\ ~cmd.changed) /\ CmdGoes(IF cmd.existing # <<>> THEN "backup" ELSE "write")
  /\ UNCHANGED <<skretYaml, bak, ignored, inits, outside>>

(* Faulty variant: the backup is made of the new content.                  *)
writeBackupAtomically_new ==
  /\ CmdAt("backup")
  /\ bak' = <<cmd.data>> /\ CmdGoes("write")
  /\ UNCHANGED <<skretYaml, ignored, inits, outside>>

(* A rename that cannot replace the old backup is tried again after the    *)
(* old backup is removed.                                                  *)
writeBackupAtomically ==
  /\ \/ CmdAt("backup") /\ bak' = cmd.existing /\ CmdGoes("write")
     \/ CmdAt("backup") /\ bak # <<>> /\ CmdGoes("unlink") /\ UNCHANGED bak
     \/ CmdAt("unlink") /\ bak' = <<>> /\ CmdGoes("relink")
     \/ CmdAt("relink") /\ bak' = cmd.existing /\ CmdGoes("write")
  /\ UNCHANGED <<skretYaml, ignored, inits, outside>>

(* The new content goes to a temporary file, which is renamed.             *)
writeConfigAtomically ==
  /\ CmdAt("write")
  /\ skretYaml' = <<cmd.data>> /\ CmdGoes("ignore")
  /\ UNCHANGED <<bak, ignored, inits, outside>>

(* The missing entries in their order; a failure is a warning.             *)
appendGitignore ==
  /\ CmdAt("ignore")
  /\ ignored' \in {ignored, ignored \cup {".yaml"}, {".yaml", ".yml"}}
  /\ CmdGoes("idle")
  /\ UNCHANGED <<skretYaml, bak, inits, outside>>

(* A step fails (the login, a write, a rename), or the process dies.       *)
InitFails ==
  /\ cmd.pc # "idle"
  /\ CmdGoes("idle")
  /\ UNCHANGED <<skretYaml, bak, ignored, inits, outside>>

OutsideWrite ==
  /\ outside < MaxOutsideWrites
  /\ outside' = outside + 1
  /\ \E c \in Written : skretYaml' = <<[c EXCEPT !.rest = "edited"]>>
  /\ cmd' = [cmd EXCEPT !.touched = TRUE]
  /\ UNCHANGED <<bak, ignored, inits>>

ConfigNext ==
  \/ init_run \/ beforeCommit \/ Unchanged \/ writeBackupAtomically \/ writeConfigAtomically
  \/ appendGitignore \/ InitFails \/ OutsideWrite

-----------------------------------------------------------------------------
(* Properties. *)

(* The configuration a command found survives it: at every moment, and     *)
(* wherever the command fails or dies, it is in .skret.yaml or in the      *)
(* backup; a merge keeps whatever no flag names; and a setup that did not  *)
(* get its login leaves both files as they were.  A file that somebody     *)
(* else wrote since it was read is left out: the command replaces it and   *)
(* backs up what it read before.                                           *)
PreviousConfigKept ==
  ~cmd.touched =>
    /\ cmd.existing # <<>> => cmd.existing \in {skretYaml, bak}
    /\ cmd.existing # <<>> /\ ~cmd.force =>
         skretYaml[1] \in {cmd.existing[1], [cmd.existing[1] EXCEPT !.prod = cmd.flag]}
    /\ cmd.setup /\ cmd.provider # "local" /\ ~cmd.authed => skretYaml = cmd.existing /\ bak = cmd.bak0
=============================================================================
