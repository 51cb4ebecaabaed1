--------------------------- MODULE StateManifests ---------------------------
(***************************************************************************)
(* Signed state manifests: BuildStateManifest scans a state directory and  *)
(* signs the rows, and `sync-state migrate` verifies a manifest by         *)
(* scanning the directory again, reads the state file it is about and, with *)
(* --remote-execute, submits it.  `skret sync` replaces, adds and removes  *)
(* files in the directory while a scan walks it; a replaced file is a new  *)
(* inode.  --execute hands over to the migration of module StateMigration. *)
(***************************************************************************)
EXTENDS Integers, FiniteSets, FiniteSetsExt, Functions

CONSTANTS StateFiles,         \* names of the files of the directory
          Contents,
          MaxManifestClock,
          MaxManifestLife,    \* MaxStateManifestTTL
          MaxFileEdits        \* changes to the directory during a behaviour

VARIABLES dir,        \* dir.at[f]: the file f; dir.ino: the directory itself
          manifest,   \* the signed manifest, if one was built
          scan,       \* the command in progress
          report,     \* what the last command answered
          mtime,      \* the clock
          nextIno

mvars == <<dir, manifest, scan, report, mtime, nextIno>>

NoFile == [ino |-> 0, data |-> CHOOSE c \in Contents : TRUE]
Here == {f \in StateFiles : dir.at[f].ino # 0}

(* during[f]: the contents f has had since the command began, <<>> for a   *)
(* time when it did not exist.                                             *)
Held(f) == IF dir.at[f].ino = 0 THEN <<>> ELSE <<dir.at[f].data>>
NoScan == [cmd |-> "none", pc |-> "idle", role |-> "operator", state |-> "any", now |-> 0, ino |-> 0,
           left |-> {}, info |-> 0, file |-> CHOOSE f \in StateFiles : TRUE, rows |-> <<>>,
           during |-> [f \in StateFiles |-> {}]]
NoManifest == [role |-> "none", exp |-> 0, rows |-> <<>>, sig |-> <<>>]
NoReport == [phase |-> "none", state |-> "any", source |-> <<>>, during |-> [f \in StateFiles |-> {}]]

(* The signature is over every other field.                                *)
StateSigningBytes(m) == <<m.role, m.exp, m.rows>>

validateStateManifestExpiry(exp, t) == exp > t /\ exp - t <= MaxManifestLife

ManifestsInit ==
  /\ \E fs \in SUBSET StateFiles, d \in [StateFiles -> Contents] :
       dir = [ino |-> 1, at |-> [f \in StateFiles |-> IF f \in fs THEN [ino |-> 2, data |-> d[f]] ELSE NoFile]]
  /\ manifest = NoManifest /\ scan = NoScan /\ report = NoReport
  /\ mtime = 0 /\ nextIno = 3

Continues(s) == scan' = s /\ UNCHANGED <<manifest, report>>

(* The command ends: what it reports is kept with what happened meanwhile. *)
Reports(phase, source) ==
  /\ scan' = NoScan
  /\ report' = IF phase = "error" THEN [NoReport EXCEPT !.phase = "error"]
               ELSE [phase |-> phase, state |-> scan.state, source |-> source, during |-> scan.during]

Begins(cmd, role, state) ==
  scan' = [NoScan EXCEPT !.cmd = cmd, !.pc = "walk", !.role = role, !.state = state, !.now = mtime,
                         !.during = [f \in StateFiles |-> {Held(f)}]]

-----------------------------------------------------------------------------

(* BuildStateManifest up to the scan; the expiry is judged on the clock    *)
(* the command started with.                                               *)
StartBuild ==
  /\ scan.pc = "idle" /\ manifest = NoManifest
  /\ Begins("build", "operator", "any")
  /\ UNCHANGED <<dir, manifest, report, mtime, nextIno>>

(* The row of --state, which may be left out when there is one row.        *)
resolveCLIStateMigrationPath(requested) ==
  {f \in DOMAIN manifest.rows : \/ f = requested
                               \/ (requested = "any" /\ Cardinality(DOMAIN manifest.rows) = 1)}

(* sync-state migrate: the flags, the manifest, the row of --state, then   *)
(* the checks of VerifyStateManifest that need no scan.                    *)
StartMigrate ==
  /\ scan.pc = "idle" /\ manifest # NoManifest
  /\ \E mode \in {"dry", "remote"}, role \in {"operator", "other", ""}, state \in StateFiles \cup {"any"} :
       LET asked   == IF role = "" THEN manifest.role ELSE role
           refused == \/ mode = "remote" /\ role = ""
                      \/ resolveCLIStateMigrationPath(state) = {}
                      \/ ~validateStateManifestExpiry(manifest.exp, mtime)
                      \/ manifest.role # asked
                      \/ manifest.sig # StateSigningBytes(manifest)
       IN  IF refused THEN scan' = NoScan /\ report' = [NoReport EXCEPT !.phase = "error"]
           ELSE /\ \E f \in resolveCLIStateMigrationPath(state) : Begins(mode, asked, f)
                /\ report' = NoReport
  /\ UNCHANGED <<dir, manifest, mtime, nextIno>>

(* WalkDir lists the directory once; the root's identity is kept.          *)
Walk ==
  /\ scan.pc = "walk"
  /\ Continues([scan EXCEPT !.pc = "info", !.ino = dir.ino, !.left = Here])
  /\ UNCHANGED <<dir, mtime, nextIno>>

(* The next entry's Info; a file that is gone by now fails the scan.       *)
EntryInfo ==
  /\ scan.pc = "info" /\ scan.left # {}
  /\ LET f == CHOOSE x \in scan.left : TRUE IN
     IF dir.at[f].ino = 0 THEN Reports("error", <<>>) /\ UNCHANGED manifest
     ELSE Continues([scan EXCEPT !.pc = "hash", !.file = f, !.info = dir.at[f].ino, !.left = @ \ {f}])
  /\ UNCHANGED <<dir, mtime, nextIno>>

(* hashStateManifestFile: the opened file must be the one Info described.  *)
hashStateManifestFile ==
  LET f == scan.file IN
  /\ scan.pc = "hash"
  /\ IF dir.at[f].ino # scan.info THEN Reports("error", <<>>) /\ UNCHANGED manifest
     ELSE Continues([scan EXCEPT !.pc = "info",
                                 !.rows = [x \in DOMAIN @ \cup {f} |-> IF x = f THEN dir.at[f].data ELSE @[x]]])
  /\ UNCHANGED <<dir, mtime, nextIno>>

(* The walked directories must still be the same ones and hold a file.     *)
revalidateStateManifestDirectories ==
  /\ scan.pc = "info" /\ scan.left = {}
  /\ IF dir.ino # scan.ino \/ scan.rows = <<>> THEN Reports("error", <<>>) /\ UNCHANGED manifest
     ELSE Continues([scan EXCEPT !.pc = IF scan.cmd = "build" THEN "sign" ELSE "compare"])
  /\ UNCHANGED <<dir, mtime, nextIno>>

Sign ==
  /\ scan.pc = "sign"
  /\ \E exp \in 1 .. MaxManifestClock :
       LET m == [role |-> scan.role, exp |-> exp, rows |-> scan.rows, sig |-> <<>>] IN
       IF validateStateManifestExpiry(exp, scan.now)
       THEN manifest' = [m EXCEPT !.sig = StateSigningBytes(m)] /\ Reports("signed", <<>>)
       ELSE UNCHANGED manifest /\ Reports("error", <<>>)
  /\ UNCHANGED <<dir, mtime, nextIno>>

(* Faulty variant: every signed row must be found; more files may be there. *)
sameStateManifestFiles_subset(expected, actual) ==
  DOMAIN expected \subseteq DOMAIN actual /\ \A f \in DOMAIN expected : expected[f] = actual[f]

sameStateManifestFiles(expected, actual) == expected = actual

Compare ==
  /\ scan.pc = "compare"
  /\ IF sameStateManifestFiles(manifest.rows, scan.rows)
     THEN Continues([scan EXCEPT !.pc = "source"])
     ELSE Reports("error", <<>>) /\ UNCHANGED manifest
  /\ UNCHANGED <<dir, mtime, nextIno>>

(* The state file is read once more and compared with its row; the result  *)
(* is reported, or sent in an envelope whose answer may not come.          *)
ReadSource ==
  LET f == scan.state IN
  /\ scan.pc = "source"
  /\ IF dir.at[f].ino = 0 \/ dir.at[f].data # manifest.rows[f] THEN Reports("error", <<>>)
     ELSE \/ scan.cmd = "dry" /\ Reports("verified", Held(f))
          \/ scan.cmd = "remote" /\ (Reports("submitted", Held(f)) \/ Reports("error", <<>>))
  /\ UNCHANGED <<dir, manifest, mtime, nextIno>>

-----------------------------------------------------------------------------
(* What happens around a command. *)

Changes(d) ==
  /\ nextIno < 3 + MaxFileEdits
  /\ nextIno' = nextIno + 1
  /\ dir' = d
  /\ scan' = IF scan.pc = "idle" THEN scan
             ELSE [scan EXCEPT !.during = [f \in StateFiles |->
                     @[f] \cup {IF d.at[f].ino = 0 THEN <<>> ELSE <<d.at[f].data>>}]]
  /\ UNCHANGED <<manifest, report, mtime>>

ReplaceFile ==
  \E f \in StateFiles, c \in Contents : Changes([dir EXCEPT !.at[f] = [ino |-> nextIno, data |-> c]])

RemoveFile ==
  \E f \in StateFiles : dir.at[f].ino # 0 /\ Changes([dir EXCEPT !.at[f] = NoFile])

ReplaceDirectory == Changes([dir EXCEPT !.ino = nextIno])

ManifestTick ==
  /\ mtime < MaxManifestClock
  /\ mtime' = mtime + 1
  /\ UNCHANGED <<dir, manifest, scan, report, nextIno>>

ManifestsNext ==
  \/ StartBuild \/ StartMigrate \/ Walk \/ EntryInfo \/ hashStateManifestFile
  \/ revalidateStateManifestDirectories \/ Sign \/ Compare \/ ReadSource
  \/ ReplaceFile \/ RemoveFile \/ ReplaceDirectory \/ ManifestTick

-----------------------------------------------------------------------------
(* Properties. *)

(* A verified manifest described the directory: although files change      *)
(* while the scan walks it, each signed file had its signed contents, and  *)
(* each other name had no file, at some moment of the command that         *)
(* reported it, and the file it goes on with was read as it was signed.    *)
VerifiedWasTrue ==
  report.phase \in {"verified", "submitted"} =>
    /\ \A f \in StateFiles :
         (IF f \in DOMAIN manifest.rows THEN <<manifest.rows[f]>> ELSE <<>>) \in report.during[f]
    /\ report.source = <<manifest.rows[report.state]>>
=============================================================================
