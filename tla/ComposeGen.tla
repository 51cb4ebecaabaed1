----------------------------- MODULE ComposeGen -----------------------------
(***************************************************************************)
(* skret-compose-gen: from a resolved compose file and its options to the  *)
(* signed manifest, the trust document and the model, and on to the        *)
(* environment a helper gives the child of a service.  A value is "plain", *)
(* "raw" (it still holds an interpolation) or "secret" (a provider key).   *)
(***************************************************************************)
EXTENDS Naturals, FiniteSets

CONSTANTS Services,      \* services of the compose file
          EnvNames,      \* names of environment entries and of provider keys
          SecretLike,    \* the names the heuristic takes for secrets
          allowedParentVars   \* the names a child inherits from its helper

ASSUME ComposeAssumption ==
    /\ SecretLike \subseteq EnvNames /\ IsFiniteSet(EnvNames)
    /\ allowedParentVars \cap SecretLike = {}

VARIABLES compose,   \* service -> [env, needs]
          options,   \* [selected, secrets, pubkey]
          outcome,   \* "none", "refused", "written" or "rejected" (by the self-check)
          launch     \* the artifacts: [services, trust]

genVars == <<compose, options, outcome, launch>>

Environments == UNION {[names -> {"plain", "raw"}] : names \in SUBSET EnvNames}

\* --secret service=ENV=NAME, and whether a --pubkey replaces the signer's key.
GenInit ==
    /\ compose \in [Services -> [env : Environments, needs : SUBSET Services]]
    /\ options \in [selected : (SUBSET Services) \ {{}},
                    secrets : {m \in SUBSET (EnvNames \X EnvNames) : Cardinality(m) <= 1},
                    pubkey : BOOLEAN]
    /\ outcome = "none" /\ launch = <<>>

-----------------------------------------------------------------------------
\* A key of the manifest: where it came from, the provider's name, the variable.
Key(from, name, env) == [from |-> from, name |-> name, env |-> env]

\* Faulty variant: an entry with a secret's name goes, and no key replaces it.
autoKeys_none(env) == {}

\* Secret-named entries become keys of their own name.
autoKeys(env) == {Key("environment", e, e) : e \in DOMAIN env \cap SecretLike}

\* buildAuthority of one service; every service gets the mapped secrets here.
buildAuthority(s) ==
    LET env == compose[s].env
        keys == {Key("flag", m[2], m[1]) : m \in options.secrets} \cup autoKeys(env)
        kept == (DOMAIN env \ SecretLike) \ {k.env : k \in keys}
    IN [ok |-> keys # {} /\ \A e \in DOMAIN env : env[e] # "raw",
        environment |-> [e \in kept |-> env[e]],
        keys |-> keys,
        dependencies |-> compose[s].needs \cap options.selected]

\* validateServiceAuthority, as SignManifest and ModelDigest apply it.
validateServiceAuthority(s, a) ==
    /\ a.keys # {}
    /\ \A k, l \in a.keys : k # l => k.name # l.name /\ k.env # l.env
    /\ \A k \in a.keys : k.env \notin DOMAIN a.environment
    /\ s \notin a.dependencies
    /\ DOMAIN a.environment \cap SecretLike = {}

\* loadKeys: is the key trusted under the signer's ID its own?  A --pubkey
\* with that ID takes its place.
loadKeys == ~ options.pubkey

\* buildTrust: every key name of every service, and the loaded public keys.
buildTrust(services) ==
    [names |-> UNION {{k.name : k \in services[s].keys} : s \in DOMAIN services},
     signer |-> loadKeys]

\* verifyManifestTrust: the signature under a trusted key, and known keys only.
verifyManifestTrust(services, trust) ==
    /\ trust.signer
    /\ \A s \in DOMAIN services : {k.name : k \in services[s].keys} \subseteq trust.names

\* generate: everything is checked before a file is written, but the
\* self-check reads the written files back.
Generate ==
    /\ outcome = "none"
    /\ LET services == [s \in options.selected |-> buildAuthority(s)]
           trust == buildTrust(services)
       IN IF \A s \in options.selected : services[s].ok /\ validateServiceAuthority(s, services[s])
          THEN /\ launch' = [services |-> services, trust |-> trust]
               /\ outcome' = IF verifyManifestTrust(services, trust) THEN "written" ELSE "rejected"
          ELSE outcome' = "refused" /\ launch' = launch
    /\ UNCHANGED <<compose, options>>

GenNext == Generate

-----------------------------------------------------------------------------
\* ExecStarter.Start: the allowed variables of the helper's own environment,
\* the declared ones over them and the secrets over both.
filteredEnvironment(parent, a) ==
    LET secrets == {k.env : k \in a.keys}
    IN [e \in (parent \cap allowedParentVars) \cup DOMAIN a.environment \cup secrets |->
           CASE e \in secrets -> "secret"
             [] e \in DOMAIN a.environment \ secrets -> a.environment[e]
             [] OTHER -> "parent"]

\* What was generated and verified starts every child with each variable of its
\* compose service and each mapped secret, and with no secret-named one in
\* clear, whatever its helper's own environment holds: buildAuthority moves
\* entries, the validators and filteredEnvironment neither lose nor expose one,
\* and nothing inherited takes the place of a declared variable.
ChildEnvironmentIsComplete ==
    outcome = "written" =>
        \A s \in options.selected, parent \in SUBSET EnvNames :
            LET child == filteredEnvironment(parent, launch.services[s])
                own == DOMAIN compose[s].env \cup {m[1] : m \in options.secrets}
            IN /\ DOMAIN child = own \cup (parent \cap allowedParentVars)
               /\ \A e \in own : child[e] # "parent"
               /\ \A e \in DOMAIN child \cap SecretLike : child[e] = "secret"
               /\ \A m \in options.secrets : child[m[1]] = "secret"
=============================================================================
