--------------------------- MODULE LaunchManifest ---------------------------
(***************************************************************************)
(* The signed launch manifest of internal/secretlaunch: its validity       *)
(* window, the renewals a signer may issue, the labels a container of a    *)
(* launch carries and the order in which its services start.  A manifest   *)
(* is a record with its generation and its window; everything else a       *)
(* signature covers is fixed by the generation, so the generation stands   *)
(* for AuthorityBytes.                                                     *)
(***************************************************************************)
EXTENDS Integers, SequencesExt

CONSTANTS ServicesOf,        \* generation -> the services its model declares
          DependsOn,         \* service -> the services it depends on
          MaxManifestTTL,    \* the longest window, in clock ticks
          MaxAge             \* the signer's --max-age, in clock ticks

ASSUME LaunchAssumption ==
    /\ MaxManifestTTL \in Nat \ {0} /\ MaxAge \in Nat \ {0}
    /\ \A g \in DOMAIN ServicesOf : ServicesOf[g] \subseteq DOMAIN DependsOn

\* Manifest.Validate: what a manifest must satisfy at any time.
Validate(m) ==
    /\ m.gen # 0
    /\ m.issued > 0 /\ m.expires > m.issued
    /\ m.expires - m.issued <= MaxManifestTTL
    /\ ServicesOf[m.gen] # {}

\* Manifest.ValidateAt: issued_at <= now < expires_at.
ValidateAt(m, now) == Validate(m) /\ m.issued <= now /\ now < m.expires

\* Manifest.AuthorityDigest: what stays the same across renewals.
AuthorityDigest(m) == m.gen

\* RenewManifest: the same authority with a window of ttl starting now.
RenewManifest(m, now, ttl) == [m EXCEPT !.issued = now, !.expires = now + ttl]

\* RenewSignedManifest: a template is renewed only while it is young enough.
\* Its own window is ignored; its age is taken from its own issued_at.
MayRenew(template, now, ttl) ==
    /\ Validate(template)
    /\ template.issued <= now /\ now - template.issued <= MaxAge
    /\ ttl \in 1 .. MaxManifestTTL

\* Faulty variant: any window that is open now is taken.
AcceptRenewal_anyWindow(current, candidate, now) ==
    /\ ValidateAt(candidate, now)
    /\ AuthorityDigest(candidate) = AuthorityDigest(current)

\* AcceptRenewal: may candidate replace current at now?
AcceptRenewal(current, candidate, now) ==
    /\ ValidateAt(candidate, now)
    /\ AuthorityDigest(candidate) = AuthorityDigest(current)
    /\ candidate.expires >= current.expires

-----------------------------------------------------------------------------
(* Labels: a function from label names to values.                          *)

OwnershipScopeLabels == [scope |-> "launch"]

OwnershipLabels(m) ==
    [scope |-> "launch", generation |-> m.gen, manifest |-> AuthorityDigest(m)]

LaunchLabels(m, service) ==
    [scope |-> "launch", generation |-> m.gen, manifest |-> AuthorityDigest(m), service |-> service]

ContainsLabels(actual, required) ==
    \A l \in DOMAIN required : l \in DOMAIN actual /\ actual[l] = required[l]

ExactLabels(actual, expected) == actual = expected

currentOwnedGeneration(labels, m, service) == ContainsLabels(labels, LaunchLabels(m, service))

\* Faulty variant: a container of a future generation counts as owned.
ownedGenerationInScope_future(labels, current) ==
    /\ ContainsLabels(labels, OwnershipScopeLabels)
    /\ {"service", "generation", "manifest"} \subseteq DOMAIN labels

\* An owned container of this generation or an older one, whatever its service.
ownedGenerationInScope(labels, current) ==
    /\ ContainsLabels(labels, OwnershipScopeLabels)
    /\ {"service", "generation", "manifest"} \subseteq DOMAIN labels
    /\ labels.generation > 0 /\ labels.generation <= current

olderOwnedGeneration(labels, service, current) ==
    /\ ownedGenerationInScope(labels, current)
    /\ labels.generation < current /\ labels.service = service

-----------------------------------------------------------------------------
(* OrderServices: depth-first over the services by name, dependencies      *)
(* first; a cycle or an unknown dependency is an error.                    *)

RECURSIVE Visit(_, _)
Visit(walk, name) ==
    IF ~ walk.ok \/ walk.mark[name] = "done" THEN walk
    ELSE IF walk.mark[name] = "open" \/ ~ DependsOn[name] \subseteq DOMAIN walk.mark
    THEN [walk EXCEPT !.ok = FALSE]
    ELSE LET below == FoldLeft(Visit, [walk EXCEPT !.mark[name] = "open"],
                               SetToSortSeq(DependsOn[name], <))
         IN IF ~ below.ok THEN below
            ELSE [below EXCEPT !.mark[name] = "done", !.ordered = Append(@, name)]

OrderServices(services) ==
    FoldLeft(Visit, [ok |-> TRUE, mark |-> [s \in services |-> "new"], ordered |-> <<>>],
             SetToSortSeq(services, <))

\* The order of each generation's services.
LaunchOrder == [g \in DOMAIN ServicesOf |-> OrderServices(ServicesOf[g])]
=============================================================================
