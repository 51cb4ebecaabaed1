---------------------------- MODULE MCHubObjects ----------------------------
(* Model-checking instance of HubObjects. *)
EXTENDS HubObjects, TLC

CONSTANTS e1, f1, e2, k1, k2, a, b, j, l, o1, o2, t1

\* Provider: two owner-gated operations of one generation contend for one
\* target; the second outlives the first.
GatedRequests ==
    {[id |-> o, target |-> t1, capability |-> "owner_risk_gate",
      deadline |-> IF o = o1 THEN 1 ELSE 2, source |-> [gen |-> "g", version |-> 1]] :
         o \in {o1, o2}}

\* Executor.  executeMetadataMigration never asks for the lane.
MetadataMigration(o) == [op |-> o, lane |-> "a", exclusive |-> FALSE, fingerprint |-> "f"]

Requests == {MetadataMigration(1), MetadataMigration(2)}

\* Two envelopes for the first migration, one for the second.
RequestOf(e) == MetadataMigration(IF e = e2 THEN 2 ELSE 1)

\* Migrations: one binds two rows, or a row in another state; scans find
\* nothing or the first row.
Rows == {(k1 :> a) @@ (k2 :> b), (k1 :> b)}

FoundRows == {<<>>, (k1 :> a)}

\* Authorizations: two first generations, rivals for the second, successors
\* that skip it, and one that drops everybody.
D(hash, generation, previous, issued, expires, mappings) ==
    [hash |-> hash, generation |-> generation, previous |-> previous,
     issued |-> issued, expires |-> expires, mappings |-> mappings]

Documents ==
    {D("d1", 1, None, 0, 2, {<<j, "x">>, <<l, "x">>}), D("e1", 1, None, 0, 3, {<<j, "x">>}),
     D("d2", 2, "d1", 0, 3, {<<l, "x">>}), D("e2", 2, "d1", 1, 3, {<<j, "x">>}),
     D("d3", 3, "d2", 1, 3, {<<j, "x">>}), D("e3", 3, "d1", 0, 2, {<<j, "x">>, <<l, "x">>}),
     D("f3", 3, "e1", 0, 3, {})}

Subjects == {<<j, "x">>, <<l, "x">>, <<j, "y">>}

Symmetry == Permutations(Handler) \cup Permutations({e1, f1})
=============================================================================
