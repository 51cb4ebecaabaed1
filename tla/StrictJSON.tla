----------------------------- MODULE StrictJSON -----------------------------
(***************************************************************************)
(* The two scans for repeated keys.  detectJSONDuplicateKeys, which        *)
(* `sync-state migrate` runs on the bytes of a state manifest before it    *)
(* decodes them, is a pass over the decoder's tokens with a stack of open  *)
(* objects and arrays.  rejectDuplicatePlanFields, which the plan server   *)
(* runs on a request, descends recursively with limits on depth and keys.  *)
(*                                                                         *)
(* A JSON value is <<"atom", s>>, <<"list", vs>> or <<"object", kvs>>,     *)
(* where kvs is a sequence of pairs and may name a key twice.  The decoder *)
(* only emits the tokens of well-formed text; a key and a string are the   *)
(* same token.                                                             *)
(***************************************************************************)
EXTENDS Integers, Sequences, SequencesExt, FiniteSets

CONSTANTS JSONValues,         \* the documents to scan
          maxPlanJSONDepth,   \* containers within containers
          maxPlanObjectKeys

VARIABLES document, at, stack, verdict

jvars == <<document, at, stack, verdict>>

RECURSIVE Tokens(_)
Tokens(v) ==
  CASE v[1] = "atom"   -> <<v[2]>>
    [] v[1] = "list"   -> <<"[">> \o FlattenSeq([i \in DOMAIN v[2] |-> Tokens(v[2][i])]) \o <<"]">>
    [] v[1] = "object" -> <<"{">> \o FlattenSeq([i \in DOMAIN v[2] |-> <<v[2][i][1]>> \o Tokens(v[2][i][2])])
                                  \o <<"}">>

RECURSIVE RepeatsAKey(_)
RepeatsAKey(v) ==
  CASE v[1] = "atom"   -> FALSE
    [] v[1] = "list"   -> \E i \in DOMAIN v[2] : RepeatsAKey(v[2][i])
    [] v[1] = "object" -> \/ \E i, j \in DOMAIN v[2] : i # j /\ v[2][i][1] = v[2][j][1]
                          \/ \E i \in DOMAIN v[2] : RepeatsAKey(v[2][i][2])

StrictInit ==
  /\ document \in JSONValues
  /\ at = 1 /\ stack = <<>> /\ verdict = "none"

Token == Tokens(document)[at]
Top == Last(stack)
Below == Front(stack)
Open(isObject) == [isObject |-> isObject, expectingKey |-> isObject, keys |-> {}]

(* The frame under a value has had its value and waits for the next key.   *)
Filled(frames) ==
  IF frames # <<>> /\ Last(frames).isObject
  THEN Append(Front(frames), [Last(frames) EXCEPT !.expectingKey = TRUE]) ELSE frames

Consumes(frames) == at' = at + 1 /\ stack' = frames /\ UNCHANGED <<document, verdict>>
Concludes(v) == verdict' = v /\ UNCHANGED <<document, at, stack>>
Scanning == verdict = "none" /\ at <= Len(Tokens(document))

OpenDelim ==
  /\ Scanning /\ Token \in {"{", "["}
  /\ IF stack # <<>> /\ Top.isObject /\ Top.expectingKey THEN Concludes("invalid")
     ELSE Consumes(Append(Filled(stack), Open(Token = "{")))

CloseDelim ==
  /\ Scanning /\ Token \in {"}", "]"}
  /\ IF Top.isObject # (Token = "}") \/ (Top.isObject /\ ~Top.expectingKey) THEN Concludes("invalid")
     ELSE Consumes(Filled(Below))

(* Faulty variant: every string of an object counts as a key.              *)
Scalar_anyString ==
  /\ Scanning /\ Token \notin {"{", "[", "}", "]"}
  /\ IF stack = <<>> \/ ~Top.isObject THEN Consumes(stack)
     ELSE IF Token \in Top.keys THEN Concludes("duplicate")
     ELSE Consumes(Append(Below, [Top EXCEPT !.keys = @ \cup {Token}, !.expectingKey = ~@]))

Scalar ==
  /\ Scanning /\ Token \notin {"{", "[", "}", "]"}
  /\ IF stack = <<>> \/ ~Top.isObject THEN Consumes(stack)
     ELSE IF ~Top.expectingKey THEN Consumes(Filled(stack))
     ELSE IF Token \in Top.keys THEN Concludes("duplicate")
     ELSE Consumes(Append(Below, [Top EXCEPT !.keys = @ \cup {Token}, !.expectingKey = FALSE]))

EndOfText ==
  /\ verdict = "none" /\ at > Len(Tokens(document))
  /\ Concludes(IF stack = <<>> THEN "unique" ELSE "invalid")

StrictNext == OpenDelim \/ CloseDelim \/ Scalar \/ EndOfText

-----------------------------------------------------------------------------
(* The recursive scan: each operator returns the position after what it    *)
(* has consumed, or 0 for an error.                                        *)

RECURSIVE scanPlanObject(_, _, _, _), scanPlanArray(_, _, _)

scanPlanValue(ts, i, depth) ==
  CASE ts[i] = "{" -> IF depth > maxPlanJSONDepth THEN 0 ELSE scanPlanObject(ts, i + 1, {}, depth)
    [] ts[i] = "[" -> IF depth > maxPlanJSONDepth THEN 0 ELSE scanPlanArray(ts, i + 1, depth)
    [] ts[i] \in {"}", "]"} -> 0
    [] OTHER -> i + 1

scanPlanObject(ts, i, seen, depth) ==
  IF ts[i] \in {"}", "]"} THEN IF ts[i] = "}" THEN i + 1 ELSE 0
  ELSE IF ts[i] \in seen \/ Cardinality(seen) >= maxPlanObjectKeys THEN 0
  ELSE LET next == scanPlanValue(ts, i + 1, depth + 1)
       IN  IF next = 0 THEN 0 ELSE scanPlanObject(ts, next, seen \cup {ts[i]}, depth)

scanPlanArray(ts, i, depth) ==
  IF ts[i] \in {"}", "]"} THEN IF ts[i] = "]" THEN i + 1 ELSE 0
  ELSE LET next == scanPlanValue(ts, i, depth + 1)
       IN  IF next = 0 THEN 0 ELSE scanPlanArray(ts, next, depth)

(* A request is one object and nothing after it.                           *)
rejectDuplicatePlanFields(ts) == ts[1] # "{" \/ scanPlanValue(ts, 1, 1) # Len(ts) + 1

-----------------------------------------------------------------------------
(* Properties. *)

RECURSIVE Exceeds(_, _)
Exceeds(v, depth) ==
  /\ v[1] # "atom"
  /\ \/ depth > maxPlanJSONDepth
     \/ v[1] = "list" /\ \E i \in DOMAIN v[2] : Exceeds(v[2][i], depth + 1)
     \/ v[1] = "object" /\ (\/ Len(v[2]) > maxPlanObjectKeys
                            \/ \E i \in DOMAIN v[2] : Exceeds(v[2][i][2], depth + 1))

(* Both scans answer what the definition by recursion on the value says.   *)
(* The stack-based one reports a duplicate exactly when some object of the *)
(* document, however deep, names a key twice (the same name in sibling or  *)
(* nested objects, or as a string value, is none), and never takes a       *)
(* document to be malformed.  The recursive one rejects exactly those, the *)
(* documents beyond a limit and the ones that are no object.               *)
DuplicatesAreFound ==
  /\ verdict \in {"none", "unique", "duplicate"}
  /\ verdict = "unique" => ~RepeatsAKey(document)
  /\ verdict = "duplicate" => RepeatsAKey(document)
  /\ at = 1 => rejectDuplicatePlanFields(Tokens(document))
                  = (document[1] # "object" \/ RepeatsAKey(document) \/ Exceeds(document, 1))
=============================================================================
