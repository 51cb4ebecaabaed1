---------------------------- MODULE MCCommandLine ----------------------------
(***************************************************************************)
(* The parts of the command line that share no state, in one run: a        *)
(* behaviour exercises one of them and the others rest.                    *)
(***************************************************************************)
EXTENDS Providers, LocalStore, Watch, Envelopes, JournalMetadata, Credentials, TLC

VARIABLE part   \* which of them this behaviour exercises

mcVars == <<pvars, lvars, wvars, evars, jmVars, kvars, part>>

-----------------------------------------------------------------------------
(* Constants. *)

\* Two keys that become one variable.
MCEnvName == [k \in WatchKeys |-> IF k = "b" THEN "B" ELSE k]

\* The concurrent actors of every part.
Symmetry == Permutations(Clients)

-----------------------------------------------------------------------------
(* A part at rest is in one fixed state. *)

ProvidersRest ==
  /\ kind = "aws" /\ secret = Absent(0) /\ faults = 0
  /\ call = [c \in Clients |-> Idle(MaxOps)] /\ cache = [c \in Clients |-> <<>>]
LocalRests ==
  /\ disk = [form |-> "none", key |-> "none", secrets |-> Empty, meta |-> Empty]
  /\ envKey = "none" /\ ring = "none" /\ cfgEnc = FALSE /\ clobbered = FALSE /\ crashes = 0
  /\ trail = [exists |-> TRUE, log |-> <<"e0">>, bak |-> <<>>] /\ proc = [p \in Shells |-> IdleProc]
WatchRests ==
  /\ source = "local" /\ vault = [k \in WatchKeys |-> Missing] /\ memory = vault
  /\ run = NoRun /\ edits = 0 /\ pollErrors = 0

Is(p, starts, rests) == IF part = p THEN starts ELSE rests

Init ==
  /\ part \in {"providers", "local", "watch", "envelopes", "journal", "credentials"}
  /\ Is("providers", ProvidersInit, ProvidersRest)
  /\ Is("local", LocalInit, LocalRests)
  /\ Is("watch", WatchInit, WatchRests)
  /\ EnvelopesInit
  /\ MetadataInit /\ (part # "journal" => ~ephemeral)
  /\ CredentialsInit /\ (part # "credentials" => ~optedIn)

Next ==
  \/ part = "providers" /\ ProvidersNext /\ UNCHANGED <<lvars, wvars, evars, jmVars, kvars, part>>
  \/ part = "local" /\ LocalNext /\ UNCHANGED <<pvars, wvars, evars, jmVars, kvars, part>>
  \/ part = "watch" /\ WatchNext /\ UNCHANGED <<pvars, lvars, evars, jmVars, kvars, part>>
  \/ part = "envelopes" /\ EnvelopesNext /\ UNCHANGED <<pvars, lvars, wvars, jmVars, kvars, part>>
  \/ part = "journal" /\ MetadataNext /\ UNCHANGED <<pvars, lvars, wvars, evars, kvars, part>>
  \/ part = "credentials" /\ CredentialsNext /\ UNCHANGED <<pvars, lvars, wvars, evars, jmVars, part>>

Spec == Init /\ [][Next]_mcVars
=============================================================================
