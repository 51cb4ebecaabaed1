------------------------------- MODULE MCHost -------------------------------
(***************************************************************************)
(* What a host keeps for skret and what it lets in, in one run: the        *)
(* migration of the state file, state manifests, the configuration file,   *)
(* references between secrets, strict JSON, the names of secrets and the   *)
(* commands that write several of them.  They share no state: a behaviour  *)
(* exercises one of them and the others rest.                              *)
(***************************************************************************)
EXTENDS StateMigration, StrictJSON, StateManifests, References, InitConfig,
        SecretNames, SecretCommands

VARIABLE part   \* which of them this behaviour exercises

-----------------------------------------------------------------------------
(* Constants. *)

UpTo2(S) == UNION {[1..n -> S] : n \in 0..2}

\* Chains up to one hop beyond the limit, cycles, and a missing name.
MCRefScopes ==
  LET tokens == {"x", "A", "B", "C", "D", "M"}
      upTo1  == {<<>>} \cup {<<t>> : t \in tokens}
  IN  {[A |-> a, B |-> b, C |-> c, D |-> d] :
         a \in UpTo2(tokens), b \in upTo1, c \in upTo1, d \in {<<"x">>, <<"A">>, <<"M">>}}

\* Documents of at most two levels, with up to two elements or pairs in each,
\* and some of a third level or with a third pair.
Atoms == {<<"atom", "a">>, <<"atom", "1">>}
Grown(vs) == {<<"list", l>> : l \in UpTo2(vs)} \cup {<<"object", o>> : o \in UpTo2({"a", "b"} \X vs)}
MCJSONValues ==
  Grown(Grown({<<"atom", "a">>}) \cup Atoms) \cup Atoms
    \cup {<<"object", <<<<"a", v>>>>>> : v \in Grown(Grown({<<"atom", "a">>}))}
    \cup {<<"object", o>> : o \in [1..3 -> {"a", "b", "c"} \X {<<"atom", "a">>}]}

\* Keys over the characters the names treat differently.
MCLeaves == {s \in UNION {[1..n -> {"/", "-", "_", "a"}] : n \in 1..3} :
               /\ s[Len(s)] # "/"
               /\ \A i \in 1..(Len(s) - 1) : <<s[i], s[i + 1]>> # <<"/", "/">>}
MCPaths == {<<>>, <<"/">>, <<"/", "a">>, <<"a", "/">>, <<"/", "a", "/", "b">>, <<"/", "a", "-", "b">>}

-----------------------------------------------------------------------------
(* A part at rest is in one fixed state. *)

StrictRests == document = <<"atom", "a">> /\ at = 2 /\ stack = <<>> /\ verdict = "none"
ManifestsRest ==
  /\ dir = [ino |-> 1, at |-> [f \in StateFiles |-> NoFile]]
  /\ manifest = NoManifest /\ scan = NoScan /\ report = NoReport /\ mtime = 0 /\ nextIno = 3
ReferencesRest ==
  /\ raw = [A |-> <<>>, B |-> <<>>, C |-> <<>>, D |-> <<"x">>] /\ value = raw
  /\ left = {} /\ outcome = "none"
ConfigRests ==
  skretYaml = <<>> /\ bak = <<>> /\ ignored = {} /\ cmd = NoCmd /\ inits = 0 /\ outside = 0
NamesRest == backend = "aws" /\ path = <<>> /\ names = <<>> /\ wanted = <<>> /\ puts = 0
CommandsRest ==
  held = [k \in CmdKeys |-> ""] /\ job = NoJob /\ told = [u \in 1..Hooks |-> {}] /\ others = 0

Is(p, starts, rests) == IF part = p THEN starts ELSE rests

HostInit ==
  /\ part \in {"migration", "json", "manifests", "references", "config", "names", "commands"}
  /\ Init
  /\ Is("json", StrictInit, StrictRests)
  /\ Is("manifests", ManifestsInit, ManifestsRest)
  /\ Is("references", ReferencesInit, ReferencesRest)
  /\ Is("config", ConfigInit, ConfigRests)
  /\ Is("names", NamesInit, NamesRest)
  /\ Is("commands", CommandsInit, CommandsRest)

HostNext ==
  \/ part = "migration" /\ Next /\ UNCHANGED <<jvars, mvars, rvars, ivars, nvars, cvars, part>>
  \/ part = "json" /\ StrictNext /\ UNCHANGED <<vars, mvars, rvars, ivars, nvars, cvars, part>>
  \/ part = "manifests" /\ ManifestsNext /\ UNCHANGED <<vars, jvars, rvars, ivars, nvars, cvars, part>>
  \/ part = "references" /\ ReferencesNext /\ UNCHANGED <<vars, jvars, mvars, ivars, nvars, cvars, part>>
  \/ part = "config" /\ ConfigNext /\ UNCHANGED <<vars, jvars, mvars, rvars, nvars, cvars, part>>
  \/ part = "names" /\ NamesNext /\ UNCHANGED <<vars, jvars, mvars, rvars, ivars, cvars, part>>
  \/ part = "commands" /\ CommandsNext /\ UNCHANGED <<vars, jvars, mvars, rvars, ivars, nvars, part>>

\* The fairness is that of a call of the migration.
HostSpec ==
  /\ HostInit
  /\ [][HostNext]_<<vars, jvars, mvars, rvars, ivars, nvars, cvars, part>>
  /\ \A p \in Proc : WF_vars(Step(p))
=============================================================================
