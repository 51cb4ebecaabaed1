------------------------------ MODULE Envelopes ------------------------------
(***************************************************************************)
(* Signed executor envelopes: EnvelopeClient.Submit builds, signs and      *)
(* posts one, the transport may deliver it late, twice, damaged or not at  *)
(* all, and VerifyAndConsumeSignedEnvelope admits each audience, role and  *)
(* nonce once through a bounded replay store that several handlers share.  *)
(*                                                                         *)
(* A handler reads the clock before it verifies and hands that reading to  *)
(* Consume, which takes the store's lock only then: the readings that      *)
(* reach the store are not in the order of the clock.                      *)
(***************************************************************************)
EXTENDS Integers, FiniteSets, FiniteSetsExt, Functions

CONSTANTS Scopes,           \* audience, role and nonce
          Bodies,
          Handlers,         \* concurrent calls of VerifyAndConsume
          MaxEnvelopeTTL,
          ReplayCapacity,   \* entries the replay store may hold
          MaxEnvelopes,     \* submissions
          MaxEnvelopeClock

VARIABLES now,       \* the clock
          client,    \* the submission in progress
          wire,      \* envelopes the transport may deliver, any number of times
          entries,   \* entries[s]: expiry of the consumed scope s
          handler,   \* handler[h]: the envelope in hand and the clock it read
          accepted,  \* envelopes admitted so far, with their scope's last expiry
          swept      \* the latest clock an expiry sweep was made with

evars == <<now, client, wire, entries, handler, accepted, swept>>

NoEnvelope == [scope |-> CHOOSE s \in Scopes : TRUE, exp |-> 0, body |-> CHOOSE b \in Bodies : TRUE,
               digest |-> CHOOSE b \in Bodies : TRUE, sig |-> <<>>]

(* The signature covers every field but itself; a digest is its argument.  *)
CanonicalSigningBytes(e) == <<e.scope, e.exp, e.digest, e.body>>

validateExpiry(exp, t) == exp > t /\ exp - t <= MaxEnvelopeTTL

BuildSignedEnvelope(s, exp, body) ==
  LET e == [scope |-> s, exp |-> exp, body |-> body, digest |-> body, sig |-> <<>>]
  IN  [e EXCEPT !.sig = CanonicalSigningBytes(e)]

VerifySignedEnvelope(e, t) ==
  /\ e.digest = e.body
  /\ validateExpiry(e.exp, t)
  /\ e.sig = CanonicalSigningBytes(e)

EnvelopesInit ==
  /\ now = 0
  /\ client = [state |-> "idle", env |-> NoEnvelope, sent |-> 0]
  /\ wire = {}
  /\ entries = <<>>
  /\ handler = [h \in Handlers |-> [state |-> "idle", env |-> NoEnvelope, now |-> 0]]
  /\ accepted = {}
  /\ swept = 0

(* Submit: the envelope is built for the clock of the call and posted once *)
(* (redirects are not followed, nothing is retried).                       *)
Submit ==
  /\ client.state # "waiting" /\ client.sent < MaxEnvelopes
  /\ \E s \in Scopes, exp \in 1 .. MaxEnvelopeClock, body \in Bodies :
       LET e == BuildSignedEnvelope(s, exp, body) IN
       IF validateExpiry(exp, now)
       THEN /\ client' = [state |-> "waiting", env |-> e, sent |-> client.sent + 1]
            /\ wire' = wire \cup {e}
       ELSE /\ client' = [state |-> "failed", env |-> e, sent |-> client.sent + 1]
            /\ UNCHANGED wire
  /\ UNCHANGED <<now, entries, handler, accepted, swept>>

(* The answer: a 2xx of bounded size is returned, any other status and a   *)
(* lost or oversized answer are errors.                                    *)
Respond ==
  /\ client.state = "waiting"
  /\ \/ client' = [client EXCEPT !.state = "failed"]
     \/ /\ \E a \in accepted : a.env = client.env
        /\ client' = [client EXCEPT !.state = "ok"]
  /\ UNCHANGED <<now, wire, entries, handler, accepted, swept>>

(* The transport damages a body in a copy that may be delivered as well.   *)
Damage ==
  /\ \E e \in wire, body \in Bodies :
       /\ body # e.body /\ e.digest = e.body
       /\ wire' = wire \cup {[e EXCEPT !.body = body]}
  /\ UNCHANGED <<now, client, entries, handler, accepted, swept>>

(* A handler takes a delivery and verifies it on the clock it reads; what  *)
(* fails the verification never reaches the store.                         *)
Receive(h) ==
  /\ handler[h].state = "idle"
  /\ \E e \in wire :
       /\ VerifySignedEnvelope(e, now)
       /\ handler' = [handler EXCEPT ![h] = [state |-> "verified", env |-> e, now |-> now]]
  /\ UNCHANGED <<now, client, wire, entries, accepted, swept>>

cleanupExpired(t) == Restrict(entries, {s \in DOMAIN entries : entries[s] > t})

(* What Consume answers: "replay", "full" or "consumed".                   *)
ConsumeAnswer(kept, s) ==
  CASE s \in DOMAIN kept                                                      -> "replay"
    [] s \notin DOMAIN kept /\ Cardinality(DOMAIN kept) >= ReplayCapacity     -> "full"
    [] OTHER                                                                  -> "consumed"

(* Faulty variant: a full store makes room by dropping its entries.        *)
Consume_evict(h) ==
  LET t    == handler[h].now
      s    == handler[h].env.scope
      kept == IF Cardinality(DOMAIN cleanupExpired(t)) >= ReplayCapacity /\ s \notin DOMAIN cleanupExpired(t)
              THEN <<>> ELSE cleanupExpired(t)
      ok   == s \notin DOMAIN kept
  IN
  /\ handler[h].state = "verified"
  /\ entries' = IF ok THEN [x \in DOMAIN kept \cup {s} |-> IF x = s THEN handler[h].env.exp ELSE kept[x]] ELSE kept
  /\ accepted' = IF ok THEN accepted \cup {[env |-> handler[h].env, by |-> t]} ELSE accepted
  /\ swept' = Max({swept, t})
  /\ handler' = [handler EXCEPT ![h] = [state |-> "idle", env |-> NoEnvelope, now |-> 0]]
  /\ UNCHANGED <<now, client, wire>>

(* Consume, under the store's lock: sweep the entries that have expired on *)
(* the caller's clock, refuse a scope that is still held, refuse when the  *)
(* store is full, and otherwise keep the scope until it expires.           *)
Consume(h) ==
  LET t    == handler[h].now
      e    == handler[h].env
      kept == cleanupExpired(t)
      ok   == ConsumeAnswer(kept, e.scope) = "consumed"
  IN
  /\ handler[h].state = "verified"
  /\ entries' = IF ok THEN [x \in DOMAIN kept \cup {e.scope} |-> IF x = e.scope THEN e.exp ELSE kept[x]] ELSE kept
  /\ accepted' = IF ok THEN accepted \cup {[env |-> e, by |-> t]} ELSE accepted
  /\ swept' = Max({swept, t})
  /\ handler' = [handler EXCEPT ![h] = [state |-> "idle", env |-> NoEnvelope, now |-> 0]]
  /\ UNCHANGED <<now, client, wire>>

EnvelopeTick ==
  /\ now < MaxEnvelopeClock
  /\ now' = now + 1
  /\ UNCHANGED <<client, wire, entries, handler, accepted, swept>>

EnvelopesNext ==
  \/ Submit \/ Respond \/ Damage \/ EnvelopeTick
  \/ \E h \in Handlers : Receive(h) \/ Consume(h)

-----------------------------------------------------------------------------
(* Properties. *)

(* A nonce is single-use in its scope: no envelope is admitted while one   *)
(* with the same scope was admitted and is unexpired on the caller's       *)
(* clock, whichever handlers took them, however full the store is.  The    *)
(* one exception is a caller whose clock reading is older than the expiry  *)
(* sweep of another call: the entry it should have met is gone.            *)
NonceIsSingleUse ==
  [][\A a \in accepted', b \in accepted :
       /\ a \notin accepted /\ a.env.scope = b.env.scope /\ b.env.exp > a.by
       => swept >= b.env.exp]_evars
=============================================================================
