------------------------- MODULE HostAuthorization -------------------------
(***************************************************************************)
(* The chain of signed host authorization generations and its head         *)
(* (hub/src/host-authorization-store.ts).  A document names its generation *)
(* and the hash of the document it replaces; lookups are answered from the *)
(* document of the head.                                                   *)
(*                                                                         *)
(* activate checks the dates and the signature, waits for the key          *)
(* operations, and only then opens its transaction, so activations of      *)
(* several callers overlap.  Signatures are valid and hashes do not        *)
(* collide.  lookup changes nothing and is an operator.                    *)
(***************************************************************************)
EXTENDS Naturals

CONSTANTS Document,     \* [hash, generation, previous, issued, expires, mappings]
          Caller,
          Subject,      \* pairs of a token hash and an instance
          MaxClock,     \* bound
          Missing

ASSUME DocumentsAreWellFormed ==
    \A d, f \in Document :
      /\ d.generation \in Nat \ {0} /\ d.expires > d.issued
      /\ d.generation = 1 <=> d.previous = Missing
      /\ d.hash = f.hash => d = f
      /\ d # Missing /\ [generation |-> d.generation, hash |-> d.hash] # Missing

VARIABLES authHead,     \* [generation, hash] or Missing
          stored,       \* the documents kept, by generation
          authClock,
          call          \* per caller the activation in progress or Missing

authVars == <<authHead, stored, authClock, call>>

Generation == {d.generation : d \in Document}

HostInit ==
    /\ authHead = Missing
    /\ stored = [g \in Generation |-> Missing]
    /\ authClock = 0
    /\ call = [c \in Caller |-> Missing]

currentHash == IF authHead = Missing THEN Missing ELSE authHead.hash

InDate(d, now) == d.issued <= now /\ now < d.expires

\* activate up to the transaction.  A caller may pin the head it has read.
ActivateStart(c, d) ==
    /\ call[c] = Missing
    /\ InDate(d, authClock)
    /\ \E pinned \in BOOLEAN :
         call' = [call EXCEPT ![c] = [doc |-> d, pinned |-> pinned, expected |-> currentHash]]
    /\ UNCHANGED <<authHead, stored, authClock>>

\* Faulty variant: the number alone decides.
Follows_newer(d) ==
    /\ stored[d.generation] = Missing
    /\ authHead # Missing => d.generation > authHead.generation

\* A document may follow the head if it is newer, its slot is free and it
\* names the head as the document it replaces; generations may be skipped.
Follows(d) ==
    /\ stored[d.generation] = Missing
    /\ IF authHead = Missing
         THEN d.generation = 1
         ELSE d.generation > authHead.generation /\ d.previous = authHead.hash

\* The transaction: head_mismatch, stale, conflict and replay change nothing.
ActivateCommit(c) ==
    LET d == call[c].doc
        admitted == (call[c].pinned => call[c].expected = currentHash) /\ Follows(d)
    IN  /\ call[c] # Missing
        /\ call' = [call EXCEPT ![c] = Missing]
        /\ stored' = IF admitted THEN [stored EXCEPT ![d.generation] = d] ELSE stored
        /\ authHead' = IF admitted THEN [generation |-> d.generation, hash |-> d.hash]
                                   ELSE authHead
        /\ UNCHANGED authClock

\* The caller's Worker goes away before or after its transaction.
Abandon(c) ==
    /\ call[c] # Missing
    /\ call' = [call EXCEPT ![c] = Missing]
    /\ UNCHANGED <<authHead, stored, authClock>>

AuthTick ==
    /\ authClock < MaxClock
    /\ authClock' = authClock + 1
    /\ UNCHANGED <<authHead, stored, call>>

HostNext ==
    \/ \E c \in Caller : (\E d \in Document : ActivateStart(c, d)) \/ ActivateCommit(c) \/ Abandon(c)
    \/ AuthTick

lookup(jwt, instance, now) ==
    IF authHead = Missing THEN "not_found" ELSE
    LET d == stored[authHead.generation]
    IN  IF d = Missing \/ d.generation # authHead.generation \/ d.hash # authHead.hash
        THEN "invalid_state"
        ELSE CASE now < d.issued -> "not_yet_valid"
               [] now >= d.expires -> "expired"
               [] InDate(d, now) /\ <<jwt, instance>> \in d.mappings -> "authorized"
               [] InDate(d, now) /\ (\E m \in d.mappings : m[1] = jwt)
                    /\ <<jwt, instance>> \notin d.mappings -> "cross_instance"
               [] OTHER -> "not_found"

-----------------------------------------------------------------------------
(* Properties *)

\* What is stored is one chain: each document names the one stored below it,
\* the lowest is the first generation, and the head is the highest.  However
\* activations overlap, they never fork the chain, no replaced document comes
\* back, and a lookup always finds the document of the head intact.
ChainIntact ==
    /\ \A g \in Generation : stored[g] # Missing =>
         /\ authHead # Missing /\ g <= authHead.generation
         /\ g > 1 => \E b \in Generation :
              /\ b < g /\ stored[b] # Missing /\ stored[b].hash = stored[g].previous
              /\ \A x \in Generation : b < x /\ x < g => stored[x] = Missing
    /\ \A s \in Subject, now \in 0..MaxClock : lookup(s[1], s[2], now) # "invalid_state"
=============================================================================
