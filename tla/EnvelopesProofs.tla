--------------------------- MODULE EnvelopesProofs ---------------------------
(***************************************************************************)
(* The replay store admits each scope once, for any number of handlers,    *)
(* scopes and envelopes and any capacity: Envelopes' NonceIsSingleUse.     *)
(***************************************************************************)
EXTENDS Envelopes, TLAPS

EnvelopesSpec == EnvelopesInit /\ [][EnvelopesNext]_evars

(* Times are integers, wherever they are kept.                             *)
Times ==
  /\ now \in Int /\ swept \in Int
  /\ \A s \in DOMAIN entries : entries[s] \in Int
  /\ \A e \in wire : "exp" \in DOMAIN e /\ e.exp \in Int
  /\ \A b \in accepted : b.env.exp \in Int
  /\ handler = [h \in Handlers |-> handler[h]]
  /\ \A h \in Handlers : handler[h].now \in Int /\ handler[h].env.exp \in Int

(* The scope of an admitted envelope is held for as long as the envelope   *)
(* lives, until a sweep on a clock at which it has expired.                *)
Held(b) ==
  \/ b.env.scope \in DOMAIN entries /\ entries[b.env.scope] >= b.env.exp
  \/ swept >= b.env.exp

EnvelopesInv == Times /\ \A b \in accepted : Held(b)

-----------------------------------------------------------------------------

\* Max of two integers is an integer no smaller than either.
LEMMA MaxOfTwo ==
  ASSUME NEW x \in Int, NEW y \in Int
  PROVE  Max({x, y}) \in Int /\ Max({x, y}) >= x /\ Max({x, y}) >= y
<1>1. \E m \in {x, y} : \A z \in {x, y} : m >= z
  <2>1. CASE x >= y BY <2>1
  <2>2. CASE y >= x BY <2>2
  <2> QED BY <2>1, <2>2
<1>2. Max({x, y}) \in {x, y} /\ \A z \in {x, y} : Max({x, y}) >= z
  BY <1>1 DEF Max
<1> QED BY <1>2

(* A sweep keeps exactly the entries that outlive its clock.               *)
LEMMA SweepKeeps ==
  ASSUME NEW t
  PROVE  /\ DOMAIN cleanupExpired(t) = {s \in DOMAIN entries : entries[s] > t}
         /\ \A s \in DOMAIN cleanupExpired(t) : cleanupExpired(t)[s] = entries[s]
  BY DEF cleanupExpired, Restrict

\* Consume answers "consumed" only for a nonce that is not kept yet.
LEMMA ConsumedWasFree ==
  ASSUME NEW kept, NEW s, ConsumeAnswer(kept, s) = "consumed"
  PROVE  s \notin DOMAIN kept
  BY DEF ConsumeAnswer

(* An admitted envelope stays held over a sweep and, if its scope is       *)
(* consumed again, has been swept.                                         *)
LEMMA ConsumeHolds ==
  ASSUME EnvelopesInv, NEW h \in Handlers, Consume(h)
  PROVE  EnvelopesInv'
<1> DEFINE t    == handler[h].now
           e    == handler[h].env
           kept == cleanupExpired(t)
           ok   == ConsumeAnswer(kept, e.scope) = "consumed"
<1>1. t \in Int /\ e.exp \in Int /\ swept \in Int
  BY DEF EnvelopesInv, Times
<1>2. swept' \in Int /\ swept' >= swept /\ swept' >= t
  BY <1>1, MaxOfTwo DEF Consume
<1>3. /\ DOMAIN kept = {s \in DOMAIN entries : entries[s] > t}
      /\ \A s \in DOMAIN kept : kept[s] = entries[s]
  BY SweepKeeps
<1>4. entries' = IF ok THEN [x \in DOMAIN kept \cup {e.scope} |-> IF x = e.scope THEN e.exp ELSE kept[x]]
                 ELSE kept
  BY DEF Consume
<1>5. accepted' = IF ok THEN accepted \cup {[env |-> e, by |-> t]} ELSE accepted
  BY DEF Consume
<1>6. ok => e.scope \notin DOMAIN kept
  BY ConsumedWasFree
<1> HIDE DEF kept, ok
<1>7. Times'
  <2>1. \A s \in DOMAIN entries' : entries'[s] \in Int
    BY <1>1, <1>3, <1>4 DEF EnvelopesInv, Times
  <2>2. \A b \in accepted' : b.env.exp \in Int
    BY <1>1, <1>5 DEF EnvelopesInv, Times
  <2>3. /\ handler' = [i \in Handlers |-> handler'[i]]
        /\ \A i \in Handlers : handler'[i].now \in Int /\ handler'[i].env.exp \in Int
    <3>1. NoEnvelope.exp = 0
      BY DEF NoEnvelope
    <3>2. handler' = [handler EXCEPT ![h] = [state |-> "idle", env |-> NoEnvelope, now |-> 0]]
      BY DEF Consume
    <3> QED BY <3>1, <3>2 DEF EnvelopesInv, Times
  <2> QED
    BY <2>1, <2>2, <2>3, <1>2 DEF Consume, EnvelopesInv, Times
<1>8. ASSUME NEW b \in accepted'
      PROVE  Held(b)'
  <2>1. CASE b \in accepted
    <3>1. b.env.exp \in Int
      BY <2>1 DEF EnvelopesInv, Times
    <3>2. CASE swept >= b.env.exp
      BY <3>1, <3>2, <1>1, <1>2 DEF Held
    <3>3. CASE b.env.scope \in DOMAIN entries /\ entries[b.env.scope] >= b.env.exp
      <4>1. entries[b.env.scope] \in Int
        BY <3>3 DEF EnvelopesInv, Times
      <4>2. CASE b.env.scope \in DOMAIN kept
        <5>1. b.env.scope \in DOMAIN entries' /\ entries'[b.env.scope] = entries[b.env.scope]
          BY <4>2, <1>3, <1>4, <1>6
        <5> QED BY <5>1, <3>3 DEF Held
      <4>3. CASE b.env.scope \notin DOMAIN kept
        <5>1. entries[b.env.scope] <= t
          BY <4>1, <4>3, <3>3, <1>1, <1>3
        <5> QED BY <5>1, <4>1, <3>1, <3>3, <1>1, <1>2 DEF Held
      <4> QED BY <4>2, <4>3
    <3> QED BY <2>1, <3>2, <3>3 DEF EnvelopesInv, Held
  <2>2. CASE ok /\ b = [env |-> e, by |-> t]
    <3>1. e.scope \in DOMAIN entries' /\ entries'[e.scope] = e.exp
      BY <2>2, <1>4
    <3> QED BY <3>1, <2>2, <1>1 DEF Held
  <2> QED BY <2>1, <2>2, <1>5
<1> QED BY <1>7, <1>8 DEF EnvelopesInv

(* EnvelopesInv is inductive.                                              *)
THEOREM EnvelopesInvariance == EnvelopesSpec => []EnvelopesInv
<1>1. EnvelopesInit => EnvelopesInv
  BY DEF EnvelopesInit, EnvelopesInv, Times, NoEnvelope
<1>2. EnvelopesInv /\ [EnvelopesNext]_evars => EnvelopesInv'
  <2> SUFFICES ASSUME EnvelopesInv, [EnvelopesNext]_evars
               PROVE  EnvelopesInv'
    OBVIOUS
  <2>1. CASE UNCHANGED evars
    BY <2>1 DEF evars, EnvelopesInv, Times, Held
  <2>2. CASE Submit
    <3>1. \A e \in wire' : "exp" \in DOMAIN e /\ e.exp \in Int
      BY <2>2 DEF Submit, EnvelopesInv, Times, BuildSignedEnvelope
    <3> QED BY <2>2, <3>1 DEF Submit, EnvelopesInv, Times, Held
  <2>3. CASE Respond
    BY <2>3 DEF Respond, EnvelopesInv, Times, Held
  <2>4. CASE Damage
    <3>1. PICK e \in wire, body \in Bodies : wire' = wire \cup {[e EXCEPT !.body = body]}
      BY <2>4 DEF Damage
    <3>2. \A f \in wire' : "exp" \in DOMAIN f /\ f.exp \in Int
      BY <3>1 DEF EnvelopesInv, Times
    <3> QED BY <2>4, <3>2 DEF Damage, EnvelopesInv, Times, Held
  <2>5. CASE EnvelopeTick
    BY <2>5 DEF EnvelopeTick, EnvelopesInv, Times, Held
  <2>6. ASSUME NEW h \in Handlers, Receive(h)
        PROVE  EnvelopesInv'
    <3>1. /\ handler' = [i \in Handlers |-> handler'[i]]
          /\ \A i \in Handlers : handler'[i].now \in Int /\ handler'[i].env.exp \in Int
      BY <2>6 DEF Receive, EnvelopesInv, Times
    <3> QED BY <2>6, <3>1 DEF Receive, EnvelopesInv, Times, Held
  <2>7. ASSUME NEW h \in Handlers, Consume(h)
        PROVE  EnvelopesInv'
    BY <2>7, ConsumeHolds
  <2> QED
    BY <2>1, <2>2, <2>3, <2>4, <2>5, <2>6, <2>7 DEF EnvelopesNext
<1> QED
  BY <1>1, <1>2, PTL DEF EnvelopesSpec

(* However deliveries repeat and handlers overlap, no envelope is admitted *)
(* while one of its scope was admitted and lives on the handler's clock,   *)
(* unless a sweep on a later clock has already dropped that one.           *)
THEOREM NoncesAreSingleUse == EnvelopesSpec => NonceIsSingleUse
<1> DEFINE Admit == \A a \in accepted', b \in accepted :
                      /\ a \notin accepted /\ a.env.scope = b.env.scope /\ b.env.exp > a.by
                      => swept >= b.env.exp
<1>1. EnvelopesInv /\ [EnvelopesNext]_evars => [Admit]_evars
  <2> SUFFICES ASSUME EnvelopesInv, EnvelopesNext,
                      NEW a \in accepted', NEW b \in accepted,
                      a \notin accepted, a.env.scope = b.env.scope, b.env.exp > a.by
               PROVE  swept >= b.env.exp
    OBVIOUS
  <2>1. PICK h \in Handlers : Consume(h)
    BY DEF EnvelopesNext, Submit, Respond, Damage, EnvelopeTick, Receive
  <2> DEFINE t    == handler[h].now
             e    == handler[h].env
             kept == cleanupExpired(t)
  <2>2. a = [env |-> e, by |-> t] /\ ConsumeAnswer(kept, e.scope) = "consumed"
    BY <2>1 DEF Consume
  <2>3. e.scope \notin DOMAIN kept
    BY <2>2, ConsumedWasFree
  <2>4. DOMAIN kept = {s \in DOMAIN entries : entries[s] > t}
    BY SweepKeeps
  <2> HIDE DEF kept
  <2>5. t \in Int /\ b.env.exp \in Int /\ \A s \in DOMAIN entries : entries[s] \in Int
    BY DEF EnvelopesInv, Times
  <2>6. ~(b.env.scope \in DOMAIN entries /\ entries[b.env.scope] >= b.env.exp)
    BY <2>2, <2>3, <2>4, <2>5
  <2> QED BY <2>6 DEF EnvelopesInv, Held
<1>2. EnvelopesSpec => [][Admit]_evars
  BY <1>1, EnvelopesInvariance, PTL DEF EnvelopesSpec
<1> QED
  BY <1>2 DEF NonceIsSingleUse
=============================================================================
