---------------------------- MODULE SecretNames -----------------------------
(***************************************************************************)
(* What becomes of a key: the command qualifies it with the configured     *)
(* path, the backend turns it into a name of its own, a listing of the     *)
(* path turns names back into keys, and `run` and `env` turn keys into     *)
(* environment variables.  Strings are sequences of characters.            *)
(***************************************************************************)
EXTENDS Integers, Sequences, SequencesExt, FiniteSets

CONSTANTS Backends,    \* of "aws", "gcp", "oci", "azure"
          Leaves,      \* key arguments
          Paths,       \* values of the environment's `path`
          MaxPuts

VARIABLES backend, path,
          names,     \* names[n]: the value the backend holds under name n
          wanted,    \* wanted[v]: what the variable v was last set to
          puts

nvars == <<backend, path, names, wanted, puts>>

-----------------------------------------------------------------------------
(* Strings. *)

HasPrefix(s, p) == Len(p) <= Len(s) /\ SubSeq(s, 1, Len(p)) = p
DropFirst(s, n) == SubSeq(s, n + 1, Len(s))
TrimPrefix(s, p) == IF HasPrefix(s, p) THEN DropFirst(s, Len(p)) ELSE s
Each(s, Op(_)) == [i \in DOMAIN s |-> Op(s[i])]
Kept(s, c) == {i \in DOMAIN s : s[i] # c}
TrimRight(s, c) == SubSeq(s, 1, CHOOSE n \in 0..Len(s) :
                                  /\ \A i \in Kept(s, c) : i <= n
                                  /\ n = 0 \/ n \in Kept(s, c))
TrimLeft(s, c) == Reverse(TrimRight(Reverse(s), c))
Trim(s, c) == TrimLeft(TrimRight(s, c), c)
SlashToDash(s) == Each(s, LAMBDA c : IF c = "/" THEN "-" ELSE c)

(* NormalizeSSMPath on a path of the configuration file. *)
NormalizeSSMPath(p) == IF p = <<>> \/ p[1] = "/" THEN p ELSE <<"/">> \o p

(* A bare leaf goes under the path, a qualified key stays, a key that      *)
(* holds the path further in is cut to it, another absolute key passes.    *)
ResolveKey(p, key) ==
  LET rp    == TrimRight(p, "/")
      under == rp \o <<"/">>
      found == {i \in 2..Len(key) : HasPrefix(DropFirst(key, i - 1), under)}
  IN
  CASE rp = <<>> \/ key = <<>>                  -> key
    [] rp # <<>> /\ key # <<>> /\ (key = rp \/ HasPrefix(key, under)) -> key
    [] OTHER ->
         IF found # {} THEN DropFirst(key, (CHOOSE i \in found : \A j \in found : i <= j) - 1)
         ELSE IF key[1] = "/" THEN key ELSE under \o key

Upper(c) == CASE c \in {"/", "-"} -> "_" [] c = "a" -> "A" [] c = "b" -> "B" [] OTHER -> c

KeyToEnvName(key, prefix) ==
  LET stripped == IF prefix # <<>> /\ HasPrefix(key, prefix)
                  THEN TrimPrefix(DropFirst(key, Len(prefix)), <<"/">>) ELSE key
  IN  Each(stripped, Upper)

-----------------------------------------------------------------------------
(* Backend names.  <<>> stands for a key the backend refuses. *)

(* Parameter Store takes the key; a hierarchy level is never empty.        *)
aws_Name(key) ==
  IF key = <<>> \/ Last(key) = "/" \/ (\E i \in 1..(Len(key) - 1) : key[i] = "/" /\ key[i + 1] = "/")
  THEN <<>> ELSE key

gcp_secretID(key) ==
  LET id == TrimPrefix(key, <<"/">>)
  IN  IF \E i \in DOMAIN id : id[i] = "/" THEN <<>> ELSE id

oci_pathToken(p) == SlashToDash(Trim(p, "/"))

validSecretName(name) == Len(name) \in 1..255 /\ \A i \in DOMAIN name : name[i] # "/"

(* Faulty variant: a slash inside the leaf is dropped, not encoded.        *)
oci_secretNameFor_flat(p, key) ==
  LET token == oci_pathToken(p)
      rp    == TrimRight(p, "/")
  IN  IF token = <<>> THEN SelectSeq(key, LAMBDA c : c # "/")
      ELSE IF ~HasPrefix(key, rp \o <<"/">>) THEN <<>>
      ELSE token \o <<"_">> \o SelectSeq(DropFirst(key, Len(rp) + 1), LAMBDA c : c # "/")

oci_secretNameFor(p, key) ==
  LET token == oci_pathToken(p)
      rp    == TrimRight(p, "/")
      leaf  == CASE token = <<>>                                   -> TrimPrefix(key, <<"/">>)
                 [] token # <<>> /\ HasPrefix(key, rp \o <<"/">>)  -> DropFirst(key, Len(rp) + 1)
                 [] OTHER -> IF key = <<>> \/ key[1] = "/" THEN <<>> ELSE key
      inside == token = <<>> \/ HasPrefix(key, rp \o <<"/">>) \/ (key # <<>> /\ key[1] # "/")
      name   == (IF token = <<>> THEN <<>> ELSE token \o <<"_">>) \o SlashToDash(leaf)
  IN  IF key = <<>> \/ ~inside \/ ~validSecretName(name) THEN <<>> ELSE name

(* The key a name stands for under a path, or <<>> when it is not of it.   *)
oci_secretKeyFor(p, name) ==
  LET rp     == TrimRight(p, "/")
      prefix == oci_pathToken(p) \o <<"_">>
  IN  IF rp = <<>> THEN name
      ELSE IF ~HasPrefix(name, prefix) \/ Len(name) = Len(prefix) THEN <<>>
      ELSE rp \o <<"/">> \o DropFirst(name, Len(prefix))

(* Everything outside letters, digits and dashes becomes a dash, runs of   *)
(* dashes collapse, and the ends are trimmed.                              *)
azure_sanitizeKey(key) ==
  LET dashed == Each(key, LAMBDA c : IF c \in {"/", "_"} THEN "-" ELSE c)
      once   == FoldLeft(LAMBDA acc, c : IF c = "-" /\ acc # <<>> /\ Last(acc) = "-" THEN acc
                                         ELSE Append(acc, c), <<>>, dashed)
  IN  Trim(once, "-")

azure_prefixFilter(p) == Trim(p, "/")

NameOf(b, p, key) ==
  CASE b = "aws"   -> aws_Name(key)
    [] b = "gcp"   -> gcp_secretID(key)
    [] b = "oci"   -> oci_secretNameFor(p, key)
    [] b = "azure" -> azure_sanitizeKey(key)

(* The key a listing of the path gives a name, or <<>> when it leaves it   *)
(* out.                                                                    *)
aws_List(p, name) ==
  IF HasPrefix(name, TrimRight(p, "/") \o <<"/">>) \/ TrimRight(p, "/") = <<>> THEN name ELSE <<>>
gcp_List(p, name) == IF HasPrefix(name, TrimPrefix(p, <<"/">>)) THEN name ELSE <<>>
oci_listSecretNames(p) == {n \in DOMAIN names : oci_secretKeyFor(p, n) # <<>>}
oci_List(p, name) == IF name \in oci_listSecretNames(p) THEN oci_secretKeyFor(p, name) ELSE <<>>
azure_listableName(name, filter) == filter = <<>> \/ HasPrefix(name, filter)
azure_List(p, name) == IF azure_listableName(name, azure_prefixFilter(p)) THEN name ELSE <<>>

ListedAs(b, p, name) ==
  CASE b = "aws" -> aws_List(p, name) [] b = "gcp" -> gcp_List(p, name)
    [] b = "oci" -> oci_List(p, name) [] b = "azure" -> azure_List(p, name)

-----------------------------------------------------------------------------

NamesInit ==
  /\ backend \in Backends
  /\ path \in {NormalizeSSMPath(p) : p \in Paths}
  /\ names = <<>> /\ wanted = <<>>
  /\ puts = 0

(* The variable a key stands for.  Without a path the flat backends take   *)
(* "/KEY" and "KEY" for the same key.                                      *)
Meant(key) ==
  KeyToEnvName(IF TrimRight(path, "/") = <<>> /\ backend # "aws" THEN TrimPrefix(key, <<"/">>) ELSE key,
               path)

(* set: qualify the key, name it, write it.  An absolute key that is not   *)
(* under the path, or the path with nothing after its slash, is stored as  *)
(* well, but no variable is expected of it.                                *)
PutKey ==
  /\ puts < MaxPuts
  /\ puts' = puts + 1
  /\ \E leaf \in Leaves :
       LET key  == ResolveKey(path, leaf)
           name == NameOf(backend, path, key)
           v    == Meant(key)
           rp   == TrimRight(path, "/")
       IN
       /\ name # <<>>
       /\ names' = [n \in DOMAIN names \cup {name} |-> IF n = name THEN puts' ELSE names[n]]
       /\ wanted' = IF v = <<>> \/ (rp # <<>> /\ ~HasPrefix(key, rp \o <<"/">>)) THEN wanted
                    ELSE [w \in DOMAIN wanted \cup {v} |-> IF w = v THEN puts' ELSE wanted[w]]
  /\ UNCHANGED <<backend, path>>

NamesNext == PutKey

Listed == {n \in DOMAIN names : ListedAs(backend, path, n) # <<>>}
VariableOf(n) == KeyToEnvName(ListedAs(backend, path, n), path)

(* DetectEnvNameCollisions: two listed keys with one variable.             *)
CollisionReported == \E m, n \in Listed : m # n /\ VariableOf(m) = VariableOf(n)

(* Every secret set under the path reaches the variable its key stands for *)
(* with the value set last, through the backend's naming and back: no two  *)
(* keys with different variables share a name, and none drops out of the   *)
(* listing, unless the command refuses to run over a collision.  Key Vault *)
(* names keep the path as a part of the name and are left out.             *)
StoredIsInjected ==
  backend # "azure" /\ ~CollisionReported =>
    \A v \in DOMAIN wanted : \E n \in Listed : VariableOf(n) = v /\ names[n] = wanted[v]

(* A path with slashes and its dashed spelling select the same Key Vault   *)
(* names (the comment of prefixFilter), so what was stored under a path is *)
(* listed under it.  It does not hold: slashes inside the path stay, and   *)
(* no sanitized name has any.                                              *)
PathSelectsItsNames ==
  backend = "azure" /\ wanted # <<>> => Listed # {}
=============================================================================
