----------------------------- MODULE References -----------------------------
(***************************************************************************)
(* ${NAME} references between the secrets of a scope, as `run`, `env` and  *)
(* the other readers resolve them: every value is expanded, one after the  *)
(* other and in place, against the raw values of the scope.                *)
(*                                                                         *)
(* A value is a sequence of tokens: the name of a reference, or text.  An  *)
(* escaped reference, an unclosed one, and one whose name is no variable   *)
(* name are text.                                                          *)
(***************************************************************************)
EXTENDS Integers, Sequences, SequencesExt, FiniteSets

CONSTANTS RefScopes,    \* the scopes explored: functions from names to values
          RefNames,     \* what may be referred to, present in the scope or not
          MaxRefDepth   \* ref.MaxDepth

VARIABLES raw,       \* the scope as it is stored
          value,     \* the values of the listed secrets, resolved so far
          left,      \* the secrets not visited yet
          outcome    \* "none", "ok", or the kind of the error

rvars == <<raw, value, left, outcome>>

ReferencesInit ==
  /\ raw \in RefScopes
  /\ value = raw /\ left = DOMAIN raw /\ outcome = "none"

isRefName(t) == t \in RefNames

(* expand: a token at a time from left to right; chain is the path of      *)
(* references that led here.  The first error ends it.                     *)
RECURSIVE expand(_, _, _)
expand(s, chain, lookup) ==
  LET Extend(acc, t) ==
        IF acc.err # "none" THEN acc
        ELSE IF ~isRefName(t) THEN [acc EXCEPT !.out = Append(@, t)]
        ELSE IF t \notin DOMAIN lookup THEN [acc EXCEPT !.err = "missing"]
        ELSE IF Contains(chain, t) THEN [acc EXCEPT !.err = "cycle"]
        ELSE LET r == expand(lookup[t], Append(chain, t), lookup)
             IN  [err |-> r.err, out |-> acc.out \o r.out]
  IN  IF Len(chain) > MaxRefDepth THEN [err |-> "depth", out |-> <<>>]
      ELSE FoldLeft(Extend, [err |-> "none", out |-> <<>>], s)

(* Faulty variant: the lookup sees what is already resolved.               *)
scopeLookup_live == value

(* The lookup is a copy made before the first value is replaced.           *)
scopeLookup == raw

hasReferenceToken(s) == \E i \in DOMAIN s : isRefName(s[i])

resolveValue(s) == expand(s, <<>>, scopeLookup)

(* One round of the loop; the provider lists the secrets in any order.     *)
resolveInPlace ==
  /\ outcome = "none" /\ left # {}
  /\ \E k \in left :
       LET r == resolveValue(value[k]) IN
       IF ~hasReferenceToken(value[k]) THEN left' = left \ {k} /\ UNCHANGED <<value, outcome>>
       ELSE IF r.err # "none" THEN outcome' = r.err /\ UNCHANGED <<value, left>>
       ELSE value' = [value EXCEPT ![k] = r.out] /\ left' = left \ {k} /\ UNCHANGED outcome
  /\ UNCHANGED raw

Resolved ==
  /\ outcome = "none" /\ left = {}
  /\ outcome' = "ok"
  /\ UNCHANGED <<raw, value, left>>

ReferencesNext == resolveInPlace \/ Resolved

-----------------------------------------------------------------------------
(* Properties. *)

(* The paths of references a value starts, one hop beyond the limit.       *)
PathsFrom(s) ==
  {p \in UNION {[1..n -> RefNames] : n \in 1..(MaxRefDepth + 1)} :
     /\ Contains(s, p[1])
     /\ \A i \in 1..(Len(p) - 1) : p[i] \in DOMAIN raw /\ Contains(raw[p[i]], p[i + 1])}

Resolvable(s) ==
  \A p \in PathsFrom(s) :
    /\ Len(p) <= MaxRefDepth
    /\ Last(p) \in DOMAIN raw
    /\ \A i, j \in DOMAIN p : p[i] = p[j] => i = j

(* Every reference of a value replaced at once, as often as the limit is.  *)
ReplaceOnce(s) == FlattenSeq([i \in DOMAIN s |-> IF s[i] \in DOMAIN raw THEN raw[s[i]] ELSE <<s[i]>>])
Meaning(s) == FoldLeft(LAMBDA acc, i : ReplaceOnce(acc), s, [i \in 1..MaxRefDepth |-> i])

(* Resolution means what the scope says, in whatever order the provider    *)
(* lists it: the command fails exactly when some value leads to a missing  *)
(* name, a cycle or a chain beyond the limit (and not because an earlier   *)
(* value was already replaced), and otherwise every value is the one that  *)
(* replacing the references step by step gives.                            *)
ResolutionIsExact ==
  /\ outcome \notin {"none", "ok"} => \E k \in DOMAIN raw : ~Resolvable(raw[k])
  /\ outcome = "ok" => \A k \in DOMAIN raw : Resolvable(raw[k]) /\ value[k] = Meaning(raw[k])
=============================================================================
