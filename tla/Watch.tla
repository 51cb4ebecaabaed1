------------------------------- MODULE Watch --------------------------------
(***************************************************************************)
(* `skret run --watch`: the secrets are listed once, the command is        *)
(* started with them as environment, and a loop polls the provider's       *)
(* fingerprint and restarts the command when it changed.  Somebody else    *)
(* edits the secrets at any time.                                          *)
(***************************************************************************)
EXTENDS Integers, Sequences, FiniteSets, Functions, TLC

CONSTANTS WatchKeys,      \* secret keys
          EnvName,        \* EnvName[k]: the variable KeyToEnvName makes of k
          Required,       \* required variables of the environment
          MaxEdits, MaxPollErrors

VARIABLES source,   \* "local" (plaintext file) or "remote" (versions per key)
          vault,    \* vault[k]: version and value, version 0 when absent
          memory,   \* the local provider's copy of the file
          run,      \* the running command
          edits, pollErrors

wvars == <<source, vault, memory, run, edits, pollErrors>>

Missing == [ver |-> 0, val |-> "none"]
Dangling == "dangling"     \* a value with a reference no secret resolves
Present(m) == {k \in WatchKeys : m[k].ver # 0}
Vars == Range(EnvName)

(* Fingerprint: the local file hashes values, the others names with their  *)
(* latest version.                                                         *)
FingerprintOf(m) ==
  [k \in WatchKeys |-> IF source = "local" THEN m[k].val ELSE ToString(m[k].ver)]

NoRun == [pc |-> "new", env |-> [v \in Vars |-> "none"], next |-> [v \in Vars |-> "none"],
          fp |-> <<>>, cur |-> <<>>, child |-> "none", signal |-> FALSE,
          blind |-> FALSE, code |-> "none"]

WatchInit ==
  /\ source \in {"local", "remote"}
  /\ vault \in [WatchKeys -> {Missing, [ver |-> 1, val |-> "v0"]}]
  /\ memory = vault
  /\ run = NoRun
  /\ edits = 0 /\ pollErrors = 0

Runs(r) == run' = r
Stops(code) == Runs([run EXCEPT !.pc = "ended", !.code = code, !.next = NoRun.next, !.cur = <<>>])

(* What load leaves in memory: YAML is decoded into the existing map, so   *)
(* an entry that is gone from the file stays.                              *)
load == [k \in WatchKeys |-> IF vault[k].ver = 0 THEN memory[k] ELSE vault[k]]

(* The listing a provider answers.                                         *)
Listing == IF source = "local" THEN memory ELSE vault

NamesCollide(m) == \E k, l \in Present(m) : k # l /\ EnvName[k] = EnvName[l]
Unresolvable(m) == \E k \in Present(m) : m[k].val = Dangling

(* BuildEnv: of two keys with one name the later in the listing wins.      *)
BuildEnv(m) ==
  {e \in [Vars -> {m[k].val : k \in WatchKeys} \cup {"none"}] :
     \A v \in Vars : LET ks == {k \in Present(m) : EnvName[k] = v}
                     IN  IF ks = {} THEN e[v] = "none" ELSE \E k \in ks : e[v] = m[k].val}

-----------------------------------------------------------------------------
(* Somebody else writes or deletes a secret.  A key that is created again  *)
(* starts at version 1.  `blind` records the changes no fingerprint shows: *)
(* one between the first listing and the first fingerprint, a deletion     *)
(* from a plaintext file, a deletion that lets the version start over.     *)
Edit ==
  /\ edits < MaxEdits
  /\ edits' = edits + 1
  /\ \E k \in WatchKeys, val \in {Missing.val, Dangling, ToString(edits)} :
       /\ val = Missing.val => vault[k].ver # 0
       /\ vault' = [vault EXCEPT ![k] =
                      IF val = Missing.val THEN Missing ELSE [ver |-> @.ver + 1, val |-> val]]
       /\ Runs([run EXCEPT !.blind = @ \/ val = Missing.val
                                      \/ (run.pc = "list" /\ source = "local") \/ run.pc = "fingerprint"])
  /\ UNCHANGED <<source, memory, pollErrors>>

(* run: load the provider, list, and refuse a missing required variable, a *)
(* name two keys share or a reference that does not resolve.               *)
RunLoad ==
  /\ run.pc = "new"
  /\ memory' = vault
  /\ Runs([run EXCEPT !.pc = "list"])
  /\ UNCHANGED <<source, vault, edits, pollErrors>>

RunList ==
  /\ run.pc = "list"
  /\ CASE \E v \in Required : \A k \in Present(Listing) : EnvName[k] # v -> Stops("validation")
       [] OTHER ->
            IF NamesCollide(Listing) THEN Stops("config")
            ELSE IF Unresolvable(Listing) THEN Stops("validation")
            ELSE \E e \in BuildEnv(Listing) : Runs([run EXCEPT !.pc = "fingerprint", !.next = e])
  /\ UNCHANGED <<source, vault, memory, edits, pollErrors>>

(* runWatch: the first fingerprint, then the child.                        *)
RunFingerprint ==
  /\ run.pc = "fingerprint"
  /\ \/ LET m == IF source = "local" THEN load ELSE vault
        IN  /\ memory' = (IF source = "local" THEN m ELSE memory)
            /\ Runs([run EXCEPT !.pc = "spawn", !.fp = FingerprintOf(m), !.cur = FingerprintOf(m)])
     \/ Stops("provider") /\ UNCHANGED memory
  /\ UNCHANGED <<source, vault, edits, pollErrors>>

(* Faulty variant: the restart takes its reference fingerprint when the    *)
(* new child runs, not when the change was seen.                           *)
Supervise_late ==
  /\ run.pc = "spawn"
  /\ \/ Runs([run EXCEPT !.pc = "loop", !.env = run.next, !.next = NoRun.next, !.child = "running",
                         !.fp = FingerprintOf(Listing), !.cur = <<>>])
     \/ Stops("exec")
  /\ UNCHANGED <<source, vault, memory, edits, pollErrors>>

Supervise ==
  /\ run.pc = "spawn"
  /\ \/ Runs([run EXCEPT !.pc = "loop", !.env = run.next, !.next = NoRun.next, !.child = "running",
                         !.fp = run.cur, !.cur = <<>>])
     \/ Stops("exec")
  /\ UNCHANGED <<source, vault, memory, edits, pollErrors>>

(* terminate: SIGTERM to the group, after the grace period SIGKILL without *)
(* waiting for it; a group that may not be signalled is left running.      *)
Terminated == {"exited", "killed", "left"}

(* A poll: an error keeps the child; a change ends it.                     *)
Poll ==
  /\ run.pc = "loop"
  /\ \/ /\ pollErrors < MaxPollErrors
        /\ pollErrors' = pollErrors + 1
        /\ UNCHANGED <<run, memory>>
     \/ LET m == IF source = "local" THEN load ELSE vault
        IN  /\ memory' = (IF source = "local" THEN m ELSE memory)
            /\ IF FingerprintOf(m) = run.fp THEN UNCHANGED run
               ELSE \E c \in Terminated :
                      Runs([run EXCEPT !.pc = "restart", !.cur = FingerprintOf(m), !.child = c])
            /\ UNCHANGED pollErrors
  /\ UNCHANGED <<source, vault, edits>>

(* The restart lists again; neither the required variables nor the name    *)
(* collisions are looked at.  A failure ends the loop, the child is gone.  *)
Restart ==
  /\ run.pc = "restart"
  /\ \/ ~Unresolvable(Listing) /\ \E e \in BuildEnv(Listing) : Runs([run EXCEPT !.pc = "spawn", !.next = e])
     \/ Stops(IF Unresolvable(Listing) THEN "validation" ELSE "exec")
  /\ UNCHANGED <<source, vault, memory, edits, pollErrors>>

(* The child ends by itself, or the user interrupts: a signal waits in its *)
(* channel until the loop looks.                                           *)
CommandExits ==
  /\ run.pc = "loop" /\ run.child = "running"
  /\ \E code \in {"ok", "exec"} : Runs([run EXCEPT !.pc = "ended", !.child = "exited", !.code = code])
  /\ UNCHANGED <<source, vault, memory, edits, pollErrors>>

Signal ==
  /\ run.pc \in {"loop", "restart", "spawn"} /\ run.fp # <<>> /\ run.child # "none" /\ ~run.signal
  /\ Runs([run EXCEPT !.signal = TRUE])
  /\ UNCHANGED <<source, vault, memory, edits, pollErrors>>

Interrupt ==
  /\ run.pc = "loop" /\ run.signal
  /\ \E c \in Terminated : Runs([run EXCEPT !.pc = "ended", !.child = c, !.code = "ok"])
  /\ UNCHANGED <<source, vault, memory, edits, pollErrors>>

WatchNext ==
  \/ Edit \/ RunLoad \/ RunList \/ RunFingerprint \/ Supervise \/ Poll \/ Restart
  \/ CommandExits \/ Signal \/ Interrupt

-----------------------------------------------------------------------------
(* Properties. *)

Seen == IF source = "local" THEN load ELSE vault
Current == run.pc = "loop" /\ FingerprintOf(Seen) = run.fp => run.env \in BuildEnv(vault)

(* The loop misses no change: whenever its next poll would find the        *)
(* fingerprint it remembers, the child runs with the values stored now,    *)
(* whatever was edited while the old child was ended, the secrets were     *)
(* listed and the new child was started.  The changes no fingerprint can   *)
(* show are left out.                                                      *)
NoMissedChange == run.blind \/ Current

(* `skret run --watch` restarts the command when secrets change: without   *)
(* exception, a command the loop is content with has the current secrets.  *)
(* It does not hold for the changes that leave the fingerprint as it was.  *)
RestartsOnEveryChange == Current
=============================================================================
