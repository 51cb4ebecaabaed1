----------------------- MODULE HostAuthorizationProofs -----------------------
(***************************************************************************)
(* The chain of host authorizations never forks and its head is always     *)
(* intact, for any documents, callers and clock: HostAuthorization's       *)
(* ChainIntact.                                                            *)
(***************************************************************************)
EXTENDS HostAuthorization, TLAPS

HostSpec == HostInit /\ [][HostNext]_authVars

(* An activation in progress carries a document.                           *)
CallsCarryDocuments == \A c \in Caller : call[c] # Missing => call[c].doc \in Document

(* Each slot is free or holds the document of its generation.              *)
SlotsHoldTheirs ==
    /\ DOMAIN stored = Generation
    /\ \A g \in Generation : stored[g] # Missing => stored[g] \in Document /\ stored[g].generation = g

(* The head names a stored document; without a head nothing is stored.     *)
HeadIsStored ==
    IF authHead = Missing THEN \A g \in Generation : stored[g] = Missing
    ELSE /\ authHead.generation \in Generation
         /\ stored[authHead.generation] # Missing
         /\ stored[authHead.generation].hash = authHead.hash

(* Nothing is stored above the head, and every document but the first      *)
(* names its nearest predecessor.                                          *)
Linked ==
    \A g \in Generation : stored[g] # Missing =>
      /\ authHead # Missing /\ g <= authHead.generation
      /\ g > 1 => \E b \in Generation :
           /\ b < g /\ stored[b] # Missing /\ stored[b].hash = stored[g].previous
           /\ \A x \in Generation : b < x /\ x < g => stored[x] = Missing

HostInv == CallsCarryDocuments /\ SlotsHoldTheirs /\ HeadIsStored /\ Linked

-----------------------------------------------------------------------------

\* Every generation is a positive number.
LEMMA GenerationsAreNatural == \A g \in Generation : g \in Nat /\ g > 0
  BY DocumentsAreWellFormed DEF Generation

(* A lookup in a state that satisfies the invariant finds the head intact. *)
LEMMA HeadIsIntact ==
  ASSUME HostInv, NEW jwt, NEW instance, NEW now
  PROVE  lookup(jwt, instance, now) # "invalid_state"
<1>1. CASE authHead = Missing
  BY <1>1 DEF lookup
<1>2. CASE authHead # Missing
  <2>1. stored[authHead.generation] # Missing
        /\ stored[authHead.generation].generation = authHead.generation
        /\ stored[authHead.generation].hash = authHead.hash
    BY <1>2 DEF HostInv, HeadIsStored, SlotsHoldTheirs
  <2> QED
    BY <1>2, <2>1 DEF lookup
<1> QED BY <1>1, <1>2

(* A document that follows the head extends the chain by one link.         *)
LEMMA CommitKeepsChain ==
  ASSUME HostInv, NEW c \in Caller, ActivateCommit(c)
  PROVE  HostInv'
<1> DEFINE d == call[c].doc
<1>1. d \in Document /\ d.generation \in Generation
  BY DEF ActivateCommit, HostInv, CallsCarryDocuments, Generation
<1>2. CallsCarryDocuments'
  BY DEF ActivateCommit, HostInv, CallsCarryDocuments
<1>3. CASE ~Follows(d) \/ ~(call[c].pinned => call[c].expected = currentHash)
  <2>1. UNCHANGED <<stored, authHead>>
    BY <1>3 DEF ActivateCommit
  <2> QED
    BY <1>2, <2>1 DEF HostInv, SlotsHoldTheirs, HeadIsStored, Linked
<1>4. CASE Follows(d) /\ (call[c].pinned => call[c].expected = currentHash)
  <2>1. /\ stored' = [stored EXCEPT ![d.generation] = d]
        /\ authHead' = [generation |-> d.generation, hash |-> d.hash]
    BY <1>4 DEF ActivateCommit
  <2>2. authHead' # Missing /\ d # Missing
    BY <1>1, <2>1, DocumentsAreWellFormed
  <2>3. SlotsHoldTheirs'
    BY <1>1, <2>1 DEF HostInv, SlotsHoldTheirs
  <2>4. HeadIsStored'
    BY <1>1, <2>1, <2>2 DEF HostInv, SlotsHoldTheirs, HeadIsStored
  <2>5. \A g \in Generation : stored[g] # Missing => g < d.generation
    BY <1>1, <1>4, GenerationsAreNatural DEF HostInv, HeadIsStored, Linked, Follows
  <2>6. Linked'
    <3> SUFFICES ASSUME NEW g \in Generation, stored'[g] # Missing
                 PROVE  /\ g <= authHead'.generation
                        /\ g > 1 => \E b \in Generation :
                             /\ b < g /\ stored'[b] # Missing /\ stored'[b].hash = stored'[g].previous
                             /\ \A x \in Generation : b < x /\ x < g => stored'[x] = Missing
      BY <2>2 DEF Linked
    <3>1. CASE g = d.generation
      <4>1. g <= authHead'.generation
        BY <3>1, <2>1, GenerationsAreNatural
      <4>2. ASSUME g > 1
            PROVE  \E b \in Generation :
                     /\ b < g /\ stored'[b] # Missing /\ stored'[b].hash = stored'[g].previous
                     /\ \A x \in Generation : b < x /\ x < g => stored'[x] = Missing
        <5>1. /\ authHead # Missing /\ authHead.generation \in Generation
              /\ d.generation > authHead.generation /\ d.previous = authHead.hash
          BY <4>2, <3>1, <1>4, GenerationsAreNatural DEF Follows, HostInv, HeadIsStored
        <5>2. stored[authHead.generation] # Missing /\ stored[authHead.generation].hash = authHead.hash
          BY <5>1 DEF HostInv, HeadIsStored
        <5>3. \A x \in Generation : authHead.generation < x => stored[x] = Missing
          BY <5>1, GenerationsAreNatural DEF HostInv, Linked
        <5>4. stored'[g] = d /\ \A x \in Generation : x # g => stored'[x] = stored[x]
          BY <1>1, <2>1, <3>1 DEF HostInv, SlotsHoldTheirs
        <5> QED
          BY <5>1, <5>2, <5>3, <5>4, <3>1, GenerationsAreNatural
      <4> QED BY <4>1, <4>2
    <3>2. CASE g # d.generation
      <4>1. stored[g] # Missing /\ stored'[g] = stored[g]
        BY <1>1, <2>1, <3>2 DEF HostInv, SlotsHoldTheirs
      <4>2. g < d.generation
        BY <4>1, <2>5
      <4>3. ASSUME g > 1
            PROVE  \E b \in Generation :
                     /\ b < g /\ stored'[b] # Missing /\ stored'[b].hash = stored'[g].previous
                     /\ \A x \in Generation : b < x /\ x < g => stored'[x] = Missing
        <5>1. PICK b \in Generation :
                     /\ b < g /\ stored[b] # Missing /\ stored[b].hash = stored[g].previous
                     /\ \A x \in Generation : b < x /\ x < g => stored[x] = Missing
          BY <4>1, <4>3 DEF HostInv, Linked
        <5>2. \A x \in Generation : x < d.generation => stored'[x] = stored[x]
          BY <1>1, <2>1, GenerationsAreNatural DEF HostInv, SlotsHoldTheirs
        <5> QED
          BY <5>1, <5>2, <4>1, <4>2, <1>1, GenerationsAreNatural
      <4> QED
        BY <4>2, <4>3, <2>1, <1>1, GenerationsAreNatural
    <3> QED BY <3>1, <3>2
  <2> QED
    BY <1>2, <2>3, <2>4, <2>6 DEF HostInv
<1> QED BY <1>3, <1>4

(* HostInv is inductive.                                                   *)
THEOREM HostInvariance == HostSpec => []HostInv
<1>1. HostInit => HostInv
  BY DEF HostInit, HostInv, CallsCarryDocuments, SlotsHoldTheirs, HeadIsStored, Linked
<1>2. HostInv /\ [HostNext]_authVars => HostInv'
  <2> SUFFICES ASSUME HostInv, [HostNext]_authVars
               PROVE  HostInv'
    OBVIOUS
  <2>1. CASE UNCHANGED authVars
    BY <2>1 DEF authVars, HostInv, CallsCarryDocuments, SlotsHoldTheirs, HeadIsStored, Linked
  <2>2. ASSUME NEW c \in Caller, NEW d \in Document, ActivateStart(c, d)
        PROVE  HostInv'
    <3>1. CallsCarryDocuments'
      BY <2>2 DEF ActivateStart, HostInv, CallsCarryDocuments
    <3> QED
      BY <2>2, <3>1 DEF ActivateStart, HostInv, SlotsHoldTheirs, HeadIsStored, Linked
  <2>3. ASSUME NEW c \in Caller, ActivateCommit(c)
        PROVE  HostInv'
    BY <2>3, CommitKeepsChain
  <2>4. ASSUME NEW c \in Caller, Abandon(c)
        PROVE  HostInv'
    BY <2>4 DEF Abandon, HostInv, CallsCarryDocuments, SlotsHoldTheirs, HeadIsStored, Linked
  <2>5. CASE AuthTick
    BY <2>5 DEF AuthTick, HostInv, CallsCarryDocuments, SlotsHoldTheirs, HeadIsStored, Linked
  <2> QED
    BY <2>1, <2>2, <2>3, <2>4, <2>5 DEF HostNext
<1> QED
  BY <1>1, <1>2, PTL DEF HostSpec

(* However the activations of any number of callers overlap, what is       *)
(* stored is one chain and every lookup finds the document of the head     *)
(* intact.                                                                 *)
THEOREM ChainIsIntact == HostSpec => []ChainIntact
<1>1. HostInv => ChainIntact
  BY HeadIsIntact DEF HostInv, Linked, ChainIntact
<1> QED
  BY <1>1, HostInvariance, PTL
=============================================================================
