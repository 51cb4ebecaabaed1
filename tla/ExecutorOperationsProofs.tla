---------------------- MODULE ExecutorOperationsProofs ----------------------
(***************************************************************************)
(* The lanes of the security executor stay orderly and its answers true,   *)
(* for any number of operations, clients, lanes and calls:                 *)
(* ExecutorOperations' LaneDiscipline, AnswersAgree and TerminalIsFinal.   *)
(* The invariant is one of the store alone, so each transaction is shown   *)
(* to keep it for every store, whoever calls it at whatever time.          *)
(***************************************************************************)
EXTENDS ExecutorOperations, FiniteSetTheorems, WellFoundedInduction, TLAPS

(* The indexes list exactly the running and the waiting operations; a      *)
(* running exclusive operation is the holder of its lane; a lane names an   *)
(* exclusive operation of its own; and a waiting operation is exclusive    *)
(* and its lane's holder runs.                                             *)
LanesInOrder(s) ==
    /\ \A o \in Op : (o \in s.active) <=> holdsExecutionLane(s.op[o].status)
    /\ \A o \in Op : (o \in s.queue) <=> (s.op[o].status = "queued")
    /\ \A o \in s.active : s.op[o].req.exclusive => s.lane[s.op[o].req.lane] = o
    /\ \A l \in Lane : s.lane[l] # None =>
         /\ Known(s, s.lane[l]) /\ s.op[s.lane[l]].req.exclusive
         /\ s.op[s.lane[l]].req.lane = l
    /\ \A o \in s.queue : s.op[o].req.exclusive /\ s.lane[s.op[o].req.lane] \in s.active

(* The indexes are finite and within their bound.                          *)
WithinBound(s) ==
    /\ IsFiniteSet(s.active) /\ IsFiniteSet(s.queue)
    /\ Cardinality(s.active) + Cardinality(s.queue) <= MaxActive

(* Outcomes and results speak of operations that ended as they say.        *)
OutcomesTrue(s) ==
    /\ \A i \in Invocation : s.outcome[i] \in {"succeeded", "failed"} => s.outcome[i] = s.op[opOf(i)].status
    /\ \A o \in s.result : s.op[o].status = "succeeded"

StoreInv(s) == s \in Store /\ LanesInOrder(s) /\ WithinBound(s) /\ OutcomesTrue(s)

ExecutorInv == StoreInv(store) /\ clock \in Nat /\ PatientWatchdog

-----------------------------------------------------------------------------
(* Numbers and sets *)

\* Every set of numbers has a least one.
LEMMA Least ==
    ASSUME NEW T \in SUBSET Nat, T # {}
    PROVE  \E x \in T : \A y \in T : x <= y
<1>1. PICK x \in T : \A y \in T : ~(<<y, x>> \in OpToRel(<, Nat))
  BY NatLessThanWellFounded, WFMin
<1>2. \A y \in T : ~(y < x)
  BY <1>1 DEF OpToRel
<1> QED BY <1>2

\* Moving elements from one set to another, and dropping some of the other,
\* does not raise the number of elements in both.
LEMMA MovedElements ==
    ASSUME NEW A, NEW Q, IsFiniteSet(A), IsFiniteSet(Q), NEW B \in SUBSET A, NEW P \in SUBSET Q
    PROVE  /\ IsFiniteSet(B \cup P) /\ IsFiniteSet(Q \ P)
           /\ Cardinality(B \cup P) + Cardinality(Q \ P) <= Cardinality(A) + Cardinality(Q)
<1>1. IsFiniteSet(B) /\ IsFiniteSet(P) /\ Cardinality(B) <= Cardinality(A)
  BY FS_Subset
<1>2. IsFiniteSet(B \cup P) /\ Cardinality(B \cup P) = Cardinality(B) + Cardinality(P) - Cardinality(B \cap P)
  BY <1>1, FS_Union
<1>3. IsFiniteSet(Q \ P) /\ Cardinality(Q \ P) = Cardinality(Q) - Cardinality(Q \cap P)
  BY FS_Difference
<1>4. Q \cap P = P
  OBVIOUS
<1>5. IsFiniteSet(B \cap P)
  BY <1>1, FS_Subset
<1>6. /\ Cardinality(A) \in Nat /\ Cardinality(Q) \in Nat /\ Cardinality(B) \in Nat
      /\ Cardinality(P) \in Nat /\ Cardinality(B \cap P) \in Nat
  BY <1>1, <1>5, FS_CardinalityType
<1>7. Cardinality(B \cup P) \in Nat /\ Cardinality(Q \ P) \in Nat
  BY <1>2, <1>3, FS_CardinalityType
<1>8. \A a, b, i, p, q, u, d \in Nat : b <= a /\ u = b + p - i /\ d = q - p => u + d <= a + q
  OBVIOUS
<1>9. Cardinality(B \cup P) + Cardinality(Q \ P) <= Cardinality(A) + Cardinality(Q)
  <2>1. Cardinality(Q \ P) = Cardinality(Q) - Cardinality(P)
    BY <1>3, <1>4
  <2> QED BY ONLY <1>1, <1>2, <2>1, <1>6, <1>7, <1>8
<1> QED BY <1>2, <1>3, <1>9

\* An index with room takes one more.
LEMMA OneMore ==
    ASSUME NEW A, NEW Q, IsFiniteSet(A), IsFiniteSet(Q), NEW x,
           ~(Cardinality(A) + Cardinality(Q) >= MaxActive)
    PROVE  /\ IsFiniteSet(A \cup {x})
           /\ Cardinality(A \cup {x}) + Cardinality(Q) <= MaxActive
           /\ Cardinality(Q) + Cardinality(A \cup {x}) <= MaxActive
<1>1. /\ IsFiniteSet(A \cup {x})
      /\ Cardinality(A \cup {x}) = Cardinality(A) \/ Cardinality(A \cup {x}) = Cardinality(A) + 1
  BY FS_AddElement
<1>2. Cardinality(A) \in Nat /\ Cardinality(Q) \in Nat /\ Cardinality(A \cup {x}) \in Nat
  BY <1>1, FS_CardinalityType
<1>3. MaxActive \in Nat
  BY StoreBounds
<1>4. \A a, b, q, m \in Nat : (b = a \/ b = a + 1) /\ ~(a + q >= m) => b + q <= m /\ q + b <= m
  OBVIOUS
<1> QED BY ONLY <1>1, <1>2, <1>3, <1>4, ~(Cardinality(A) + Cardinality(Q) >= MaxActive)

\* The oldest of some waiting operations is one of them.
LEMMA OldestIsOne ==
    ASSUME NEW s \in Store, NEW ops \in SUBSET Op, ops # {}, \A o \in ops : Known(s, o)
    PROVE  Oldest(s, ops) \in ops
<1>1. \A o \in ops : s.op[o].created \in Nat /\ o \in Nat
  BY RequestAssumption DEF Store, ExecutorOperationRecord, NoOperation, Known
<1> DEFINE times == {s.op[o].created : o \in ops}
<1>2. PICK t \in times : \A u \in times : t <= u
  <2>1. times \in SUBSET Nat /\ times # {}
    BY <1>1
  <2> HIDE DEF times
  <2> QED BY <2>1, Least
<1> DEFINE first == {o \in ops : s.op[o].created = t}
<1>3. PICK o \in first : \A p \in first : o <= p
  <2>1. first \in SUBSET Nat /\ first # {}
    BY <1>1
  <2> HIDE DEF first
  <2> QED BY <2>1, Least
<1>4. \A p \in ops : s.op[o].created < s.op[p].created \/ (s.op[o].created = s.op[p].created /\ o <= p)
  <2> SUFFICES ASSUME NEW p \in ops
               PROVE  s.op[o].created < s.op[p].created \/ (s.op[o].created = s.op[p].created /\ o <= p)
    OBVIOUS
  <2>1. s.op[o].created = t /\ s.op[p].created \in times
    BY <1>3
  <2>2. t <= s.op[p].created /\ t \in Nat /\ s.op[p].created \in Nat
    BY <1>1, <1>2, <2>1
  <2>3. CASE s.op[p].created = t
    BY <1>3, <2>1, <2>3
  <2>4. CASE s.op[p].created # t
    BY <2>1, <2>2, <2>4
  <2> QED BY <2>3, <2>4
<1>5. o \in ops
  BY <1>3
<1> QED BY <1>4, <1>5 DEF Oldest

-----------------------------------------------------------------------------
(* The transactions *)

\* The fields of a known operation.
LEMMA KnownRecord ==
    ASSUME NEW s \in Store, NEW o \in Op, Known(s, o)
    PROVE  /\ s.op[o] \in ExecutorOperationRecord
           /\ s.op[o].req \in Request /\ s.op[o].req.lane \in Lane /\ s.op[o].req.exclusive \in BOOLEAN
           /\ s.op[o].status \in ExecutorOperationStatus /\ s.op[o].deadline \in Nat
BY RequestAssumption DEF Store, Known, NoOperation, ExecutorOperationRecord, Lane

\* An exclusive operation of the lane l.
ExclusiveOf(s, o, l) == Known(s, o) /\ s.op[o].req.exclusive /\ s.op[o].req.lane = l

\* The operation a lane names is an exclusive one of that lane.
LEMMA Holder ==
    ASSUME NEW s \in Store, LanesInOrder(s), NEW l \in Lane, NEW o \in Op, o = s.lane[l]
    PROVE  ExclusiveOf(s, o, l)
<1>1. s.lane[l] # None
  BY NoneAssumption
<1>2. Known(s, s.lane[l]) /\ s.op[s.lane[l]].req.exclusive /\ s.op[s.lane[l]].req.lane = l
  BY <1>1 DEF LanesInOrder
<1> QED BY ONLY <1>2, o = s.lane[l] DEF ExclusiveOf

\* A waiting operation is exclusive and the holder of its lane runs.
LEMMA Waiter ==
    ASSUME NEW s \in Store, LanesInOrder(s), NEW o \in s.queue
    PROVE  /\ o \in Op /\ Known(s, o) /\ s.op[o].status = "queued" /\ o \notin s.active
           /\ s.op[o].req.exclusive /\ s.op[o].req.lane \in Lane
           /\ s.lane[s.op[o].req.lane] \in s.active
<1>1. o \in Op
  BY DEF Store
<1>2. s.op[o].status = "queued"
  BY <1>1 DEF LanesInOrder
<1>3. Known(s, o) /\ ~holdsExecutionLane(s.op[o].status)
  BY <1>2 DEF Known, holdsExecutionLane
<1>4. o \notin s.active
  BY <1>1, <1>3 DEF LanesInOrder
<1>5. s.op[o].req.lane \in Lane
  BY <1>1, <1>3, KnownRecord
<1>6. s.op[o].req.exclusive /\ s.lane[s.op[o].req.lane] \in s.active
  BY DEF LanesInOrder
<1> QED BY <1>1, <1>2, <1>3, <1>4, <1>5, <1>6

\* A running operation that is exclusive holds its lane.
LEMMA Runner ==
    ASSUME NEW s \in Store, LanesInOrder(s), NEW o \in s.active
    PROVE  /\ o \in Op /\ Known(s, o) /\ holdsExecutionLane(s.op[o].status) /\ s.op[o].req.lane \in Lane
           /\ s.op[o].req.exclusive => s.lane[s.op[o].req.lane] = o
<1>1. o \in Op
  BY DEF Store
<1>2. holdsExecutionLane(s.op[o].status)
  BY <1>1 DEF LanesInOrder
<1>3. Known(s, o)
  BY <1>2 DEF Known, holdsExecutionLane
<1>4. s.op[o].req.lane \in Lane
  BY <1>1, <1>3, KnownRecord
<1>5. s.op[o].req.exclusive => s.lane[s.op[o].req.lane] = o
  BY DEF LanesInOrder
<1> QED BY <1>1, <1>2, <1>3, <1>4, <1>5

\* The store t is s with some running operations given another status of a
\* running one.
OnlyRelabels(t, s) ==
    /\ t \in Store
    /\ t.active = s.active /\ t.queue = s.queue /\ t.lane = s.lane /\ t.result = s.result
    /\ \A i \in Invocation : t.outcome[i] = s.outcome[i] \/ t.outcome[i] = "timed_out"
    /\ \A o \in Op : \/ t.op[o] = s.op[o]
                     \/ /\ holdsExecutionLane(s.op[o].status) /\ holdsExecutionLane(t.op[o].status)
                        /\ t.op[o].req = s.op[o].req

\* A running operation changes its status and stays a running one.
LEMMA Relabelled ==
    ASSUME NEW s, StoreInv(s), NEW t, OnlyRelabels(t, s)
    PROVE  StoreInv(t)
<1>1. s \in Store /\ LanesInOrder(s) /\ WithinBound(s) /\ OutcomesTrue(s)
  BY DEF StoreInv
<1>a. /\ t \in Store
      /\ t.active = s.active /\ t.queue = s.queue /\ t.lane = s.lane /\ t.result = s.result
      /\ \A i \in Invocation : t.outcome[i] = s.outcome[i] \/ t.outcome[i] = "timed_out"
      /\ \A o \in Op : \/ t.op[o] = s.op[o]
                       \/ /\ holdsExecutionLane(s.op[o].status) /\ holdsExecutionLane(t.op[o].status)
                          /\ t.op[o].req = s.op[o].req
  BY DEF OnlyRelabels
<1>2. \A o \in Op : /\ holdsExecutionLane(t.op[o].status) <=> holdsExecutionLane(s.op[o].status)
                    /\ (t.op[o].status = "queued") <=> (s.op[o].status = "queued")
                    /\ t.op[o].req = s.op[o].req
                    /\ Known(s, o) => Known(t, o)
                    /\ s.op[o].status \in {"succeeded", "failed"} => t.op[o].status = s.op[o].status
  BY ONLY <1>a DEF holdsExecutionLane, Known
<1>3. s.active \subseteq Op /\ s.queue \subseteq Op /\ s.result \subseteq Op /\ s.lane \in [Lane -> Op \cup {None}]
  BY <1>1 DEF Store
<1>4. LanesInOrder(t)
  <2>1. \A o \in Op : (o \in t.active) <=> holdsExecutionLane(t.op[o].status)
    BY ONLY <1>1, <1>2, <1>a DEF LanesInOrder
  <2>2. \A o \in Op : (o \in t.queue) <=> (t.op[o].status = "queued")
    BY ONLY <1>1, <1>2, <1>a DEF LanesInOrder
  <2>3. ASSUME NEW o \in t.active, t.op[o].req.exclusive PROVE t.lane[t.op[o].req.lane] = o
    <3>1. o \in s.active /\ o \in Op
      BY <1>3, <1>a
    <3>2. s.op[o].req.exclusive => s.lane[s.op[o].req.lane] = o
      BY <1>1, <3>1, Runner
    <3> QED BY ONLY <1>2, <1>a, <2>3, <3>1, <3>2
  <2>4. ASSUME NEW l \in Lane, t.lane[l] # None
        PROVE  Known(t, t.lane[l]) /\ t.op[t.lane[l]].req.exclusive /\ t.op[t.lane[l]].req.lane = l
    <3>1. PICK o \in Op : o = s.lane[l]
      BY <1>3, <1>a, <2>4
    <3>2. Known(s, o) /\ s.op[o].req.exclusive /\ s.op[o].req.lane = l
      <4>1. ExclusiveOf(s, o, l)
        BY ONLY <1>1, l \in Lane, <3>1, Holder
      <4> QED BY ONLY <4>1 DEF ExclusiveOf
    <3>3. Known(t, o) /\ t.op[o].req.exclusive /\ t.op[o].req.lane = l
      BY ONLY <1>2, <3>2, o \in Op
    <3> QED BY ONLY <1>a, <3>1, <3>3
  <2>5. ASSUME NEW o \in t.queue PROVE t.op[o].req.exclusive /\ t.lane[t.op[o].req.lane] \in t.active
    <3>1. o \in Op /\ s.op[o].req.exclusive /\ s.lane[s.op[o].req.lane] \in s.active
      BY <1>1, <1>a, <2>5, Waiter
    <3> QED BY ONLY <1>2, <1>a, <3>1
  <2> QED BY <2>1, <2>2, <2>3, <2>4, <2>5 DEF LanesInOrder
<1>5. WithinBound(t)
  BY <1>1, <1>a DEF WithinBound
<1>6. OutcomesTrue(t)
  <2>1. ASSUME NEW i \in Invocation, t.outcome[i] \in {"succeeded", "failed"}
        PROVE  t.outcome[i] = t.op[opOf(i)].status
    <3>1. opOf(i) \in Op /\ t.outcome[i] = s.outcome[i]
      BY <2>1, <1>a, SignedAssumption
    <3>2. s.outcome[i] = s.op[opOf(i)].status
      BY <1>1, <2>1, <3>1 DEF OutcomesTrue
    <3> QED BY ONLY <1>2, <2>1, <3>1, <3>2
  <2>2. \A o \in t.result : t.op[o].status = "succeeded"
    BY ONLY <1>1, <1>2, <1>3, <1>a DEF OutcomesTrue
  <2> QED BY <2>1, <2>2 DEF OutcomesTrue
<1> QED BY <1>a, <1>4, <1>5, <1>6 DEF StoreInv

\* The store m is s after the operations ended ceased to run, before their
\* lanes are passed on.
Ended(m, s, ended) ==
    /\ m.active = s.active \ ended /\ m.queue = s.queue /\ m.lane = s.lane
    /\ \A o \in Op \ s.active : m.op[o] = s.op[o]
    /\ \A o \in s.active : m.op[o].req = s.op[o].req
    /\ \A o \in ended : m.op[o].status \in Terminal
    /\ \A o \in s.active \ ended : holdsExecutionLane(m.op[o].status)

\* The store t is m with its lanes in order: it promotes waiting operations
\* and changes nothing else of them.
HandedOver(t, m, s) ==
    /\ t \in Store /\ LanesInOrder(t) /\ WithinBound(t)
    /\ t.outcome = m.outcome /\ t.result = m.result
    /\ \A o \in Op : t.op[o] = m.op[o] \/ (s.op[o].status = "queued" /\ t.op[o].status = "active")

\* Handing over the lanes of ended operations puts the lanes in order again:
\* each passes to one of those that wait for it, or to nobody.
LEMMA ReleasedInOrder ==
    ASSUME NEW s \in Store, LanesInOrder(s), WithinBound(s), NEW ended \in SUBSET s.active,
           NEW m \in Store, Ended(m, s, ended)
    PROVE  HandedOver(Released(m, HeldLanes(s, ended), ended), m, s)
<1> DEFINE lanes == HeldLanes(s, ended)
           next(l) == IF Candidates(m, l) = {} THEN None ELSE Oldest(m, Candidates(m, l))
           promoted == {next(l) : l \in lanes} \ {None}
           t == Released(m, lanes, ended)
<1>1. /\ s.active \subseteq Op /\ s.queue \subseteq Op
      /\ m.active \subseteq Op /\ m.queue \subseteq Op
      /\ s.lane \in [Lane -> Op \cup {None}] /\ None \notin Op
  BY NoneAssumption DEF Store
<1>2. \A o \in s.queue : /\ o \notin s.active /\ m.op[o] = s.op[o] /\ m.op[o].status = "queued"
                         /\ Known(s, o) /\ Known(m, o)
  <2> SUFFICES ASSUME NEW o \in s.queue
               PROVE  /\ o \notin s.active /\ m.op[o] = s.op[o] /\ m.op[o].status = "queued"
                      /\ Known(s, o) /\ Known(m, o)
    OBVIOUS
  <2>1. o \in Op /\ Known(s, o) /\ s.op[o].status = "queued" /\ o \notin s.active
    BY Waiter
  <2>2. m.op[o] = s.op[o]
    BY <2>1 DEF Ended
  <2> QED BY ONLY <2>1, <2>2 DEF Known
<1>3. \A l \in Lane : Candidates(m, l) = {o \in s.queue : s.op[o].req.lane = l}
  BY <1>1, <1>2 DEF Candidates, Ended
<1>4. \A l \in Lane : /\ Candidates(m, l) = {} => next(l) = None
                      /\ Candidates(m, l) # {} => next(l) \in Candidates(m, l)
  <2> SUFFICES ASSUME NEW l \in Lane, Candidates(m, l) # {}
               PROVE  Oldest(m, Candidates(m, l)) \in Candidates(m, l)
    OBVIOUS
  <2>1. Candidates(m, l) \in SUBSET Op /\ \A o \in Candidates(m, l) : Known(m, o)
    BY <1>1, <1>2, <1>3
  <2> QED BY <2>1, OldestIsOne
<1>5. \A o \in s.active : /\ Known(s, o) /\ s.op[o].req.lane \in Lane
                          /\ s.op[o].req.exclusive => s.lane[s.op[o].req.lane] = o
  BY Runner
<1>6. \A o \in s.queue : s.op[o].req.lane \in Lane
  BY Waiter
<1>7. lanes \subseteq Lane /\ \A l \in lanes : s.lane[l] \in ended
  BY <1>5 DEF HeldLanes
<1>8. \A l \in Lane : s.lane[l] \in ended => l \in lanes
  <2> SUFFICES ASSUME NEW l \in Lane, NEW o \in ended, o = s.lane[l] PROVE l \in lanes
    OBVIOUS
  <2>1. s.op[o].req.exclusive /\ s.op[o].req.lane = l
    <3>1. ExclusiveOf(s, o, l)
      BY ONLY s \in Store, LanesInOrder(s), ended \in SUBSET s.active, o \in ended, o = s.lane[l], l \in Lane, <1>1, Holder
    <3> QED BY ONLY <3>1 DEF ExclusiveOf
  <2> QED BY ONLY <2>1, o \in ended DEF HeldLanes
<1> HIDE DEF lanes
<1>9. t = [m EXCEPT !.lane   = [l \in Lane |-> IF l \in lanes
                                  THEN IF next(l) # None \/ @[l] \in ended THEN next(l) ELSE @[l]
                                  ELSE @[l]],
                    !.active = @ \cup promoted,
                    !.queue  = @ \ promoted,
                    !.op     = [o \in Op |-> IF o \in promoted THEN [@[o] EXCEPT !.status = "active"]
                                                               ELSE @[o]]]
  BY DEF Released
<1> HIDE DEF next, t
<1>10. /\ t.lane = [l \in Lane |-> IF l \in lanes THEN next(l) ELSE s.lane[l]]
       /\ t.active = (s.active \ ended) \cup promoted
       /\ t.queue = s.queue \ promoted
       /\ t.outcome = m.outcome /\ t.result = m.result
  BY <1>7, <1>9 DEF Store, Ended
<1>11. t.op = [o \in Op |-> IF o \in promoted THEN [m.op[o] EXCEPT !.status = "active"] ELSE m.op[o]]
  BY <1>9 DEF Store
<1>12. promoted \subseteq s.queue
       /\ \A o \in promoted : s.op[o].req.lane \in lanes /\ next(s.op[o].req.lane) = o
  <2> SUFFICES ASSUME NEW l \in lanes, next(l) # None
               PROVE  next(l) \in s.queue /\ s.op[next(l)].req.lane = l
    OBVIOUS
  <2>1. l \in Lane
    BY <1>7
  <2>2. next(l) \in Candidates(m, l)
    BY <1>4, <2>1
  <2> QED BY <1>3, <2>1, <2>2
<1>13. \A l \in lanes : next(l) # None => next(l) \in promoted
  OBVIOUS
<1> HIDE DEF promoted
<1>14. \A o \in promoted : /\ t.op[o].status = "active" /\ t.op[o].req = s.op[o].req
                           /\ t.op[o] \in ExecutorOperationRecord
  <2> SUFFICES ASSUME NEW o \in promoted
               PROVE  /\ t.op[o].status = "active" /\ t.op[o].req = s.op[o].req
                      /\ t.op[o] \in ExecutorOperationRecord
    OBVIOUS
  <2>1. o \in Op /\ m.op[o] \in ExecutorOperationRecord /\ m.op[o] = s.op[o]
    BY <1>1, <1>2, <1>12, KnownRecord
  <2>2. t.op[o] = [m.op[o] EXCEPT !.status = "active"]
    BY <1>11, <2>1
  <2> QED BY <2>1, <2>2 DEF ExecutorOperationRecord, ExecutorOperationStatus
<1>15. \A o \in Op \ promoted : t.op[o] = m.op[o]
  BY <1>11
<1>16. t \in Store
  <2>1. t.op \in [Op -> ExecutorOperationRecord \cup {NoOperation}]
    <3>1. \A o \in Op : t.op[o] \in ExecutorOperationRecord \cup {NoOperation}
      BY <1>14, <1>15 DEF Store
    <3> QED BY <1>11, <3>1
  <2>2. \A l \in Lane : next(l) \in Op \cup {None}
    <3> SUFFICES ASSUME NEW l \in Lane PROVE next(l) \in Op \cup {None}
      OBVIOUS
    <3>1. Candidates(m, l) \subseteq Op
      BY <1>1, <1>3
    <3> QED BY <1>4, <3>1
  <2>3. t.lane \in [Lane -> Op \cup {None}]
    BY <1>1, <1>10, <2>2
  <2> QED BY <1>1, <1>9, <1>10, <1>12, <2>1, <2>3 DEF Store
<1>17. \A o \in Op : /\ (o \in promoted \cup (s.active \ ended)) <=> holdsExecutionLane(t.op[o].status)
                     /\ (o \in s.queue \ promoted) <=> (t.op[o].status = "queued")
                     /\ Known(s, o) => Known(t, o) /\ t.op[o].req = s.op[o].req
  <2> SUFFICES ASSUME NEW o \in Op
               PROVE  /\ (o \in promoted \cup (s.active \ ended)) <=> holdsExecutionLane(t.op[o].status)
                      /\ (o \in s.queue \ promoted) <=> (t.op[o].status = "queued")
                      /\ Known(s, o) => Known(t, o) /\ t.op[o].req = s.op[o].req
    OBVIOUS
  <2>1. CASE o \in promoted
    BY <1>14, <2>1 DEF holdsExecutionLane, Known
  <2>2. CASE o \in s.active
    <3>1. o \notin promoted /\ o \notin s.queue /\ t.op[o] = m.op[o] /\ m.op[o].req = s.op[o].req
      BY <1>2, <1>12, <1>15, <2>2 DEF Ended
    <3>2. IF o \in ended THEN m.op[o].status \in Terminal ELSE holdsExecutionLane(m.op[o].status)
      BY <2>2 DEF Ended
    <3> QED BY <2>2, <3>1, <3>2 DEF holdsExecutionLane, Known, Terminal
  <2>3. CASE o \notin promoted /\ o \notin s.active
    <3>1. t.op[o] = s.op[o]
      BY <1>15, <2>3 DEF Ended
    <3> QED BY <2>3, <3>1 DEF LanesInOrder, holdsExecutionLane, Known
  <2> QED BY <2>1, <2>2, <2>3
<1>18. LanesInOrder(t)
  <2>1. \A o \in Op : (o \in t.active) <=> holdsExecutionLane(t.op[o].status)
    BY ONLY <1>10, <1>17
  <2>2. \A o \in Op : (o \in t.queue) <=> (t.op[o].status = "queued")
    BY ONLY <1>10, <1>17
  <2>3. ASSUME NEW o \in t.active, t.op[o].req.exclusive PROVE t.lane[t.op[o].req.lane] = o
    <3>1. CASE o \in promoted
      <4>1. t.op[o].req = s.op[o].req /\ s.op[o].req.lane \in lanes /\ next(s.op[o].req.lane) = o
        BY <1>12, <1>14, <3>1
      <4> QED BY <1>7, <1>10, <4>1
    <3>2. CASE o \in s.active \ ended
      <4>1. t.op[o].req = s.op[o].req /\ s.op[o].req.lane \in Lane
        BY <1>1, <1>5, <1>17, <3>2
      <4>2. s.lane[s.op[o].req.lane] = o
        BY <1>5, <2>3, <3>2, <4>1
      <4>3. s.op[o].req.lane \notin lanes
        BY ONLY <1>7, <3>2, <4>2
      <4>4. t.lane[s.op[o].req.lane] = s.lane[s.op[o].req.lane]
        BY ONLY <1>10, <4>1, <4>3
      <4> QED BY ONLY <4>1, <4>2, <4>4
    <3> QED BY <1>10, <2>3, <3>1, <3>2
  <2>4. ASSUME NEW l \in Lane, t.lane[l] # None
        PROVE  Known(t, t.lane[l]) /\ t.op[t.lane[l]].req.exclusive /\ t.op[t.lane[l]].req.lane = l
    <3>1. PICK o \in Op : /\ t.lane[l] = o /\ Known(s, o)
                          /\ s.op[o].req.exclusive /\ s.op[o].req.lane = l
      <4>1. CASE l \in lanes
        <5>1. t.lane[l] = next(l) /\ next(l) \in Candidates(m, l)
          BY <1>4, <1>10, <2>4, <4>1
        <5>2. next(l) \in s.queue /\ s.op[next(l)].req.lane = l
          BY ONLY <1>3, <5>1, l \in Lane
        <5>3. next(l) \in Op /\ Known(s, next(l)) /\ s.op[next(l)].req.exclusive
          BY <5>2, Waiter
        <5> QED BY ONLY <5>1, <5>2, <5>3
      <4>2. CASE l \notin lanes
        <5>1. s.lane[l] \in Op /\ t.lane[l] = s.lane[l]
          BY <1>1, <1>10, <2>4, <4>2
        <5>2. Known(s, s.lane[l]) /\ s.op[s.lane[l]].req.exclusive /\ s.op[s.lane[l]].req.lane = l
          <6>1. ExclusiveOf(s, s.lane[l], l)
            BY ONLY s \in Store, LanesInOrder(s), l \in Lane, <5>1, Holder
          <6> QED BY ONLY <6>1 DEF ExclusiveOf
        <5> QED BY ONLY <5>1, <5>2
      <4> QED BY <4>1, <4>2
    <3> QED BY <1>17, <3>1
  <2>5. ASSUME NEW o \in t.queue PROVE t.op[o].req.exclusive /\ t.lane[t.op[o].req.lane] \in t.active
    <3>1. o \in s.queue /\ t.op[o].req = s.op[o].req /\ s.op[o].req.lane \in Lane
      BY <1>1, <1>2, <1>6, <1>10, <1>17
    <3>2. s.op[o].req.exclusive /\ s.lane[s.op[o].req.lane] \in s.active
      BY <3>1, Waiter
    <3> DEFINE l == s.op[o].req.lane
    <3>3. CASE l \in lanes
      <4>1. o \in Candidates(m, l)
        BY <1>3, <3>1
      <4>2. next(l) # None
        BY <1>1, <1>3, <1>4, <3>1, <4>1
      <4>3. t.lane[l] = next(l) /\ next(l) \in t.active
        BY ONLY <1>10, <1>13, <3>1, <3>3, <4>2
      <4> QED BY ONLY <3>1, <3>2, <4>3
    <3>4. CASE l \notin lanes
      <4>1. s.lane[l] \notin ended /\ t.lane[l] = s.lane[l]
        BY ONLY <1>8, <1>10, <3>1, <3>4
      <4> QED BY ONLY <1>10, <3>1, <3>2, <4>1
    <3> QED BY <3>3, <3>4
  <2> QED BY <2>1, <2>2, <2>3, <2>4, <2>5 DEF LanesInOrder
<1>19. WithinBound(t)
  <2>1. /\ IsFiniteSet(t.active) /\ IsFiniteSet(t.queue)
        /\ Cardinality(t.active) + Cardinality(t.queue) <= Cardinality(s.active) + Cardinality(s.queue)
    <3>1. /\ IsFiniteSet(s.active) /\ IsFiniteSet(s.queue)
          /\ s.active \ ended \in SUBSET s.active /\ promoted \in SUBSET s.queue
      BY <1>12 DEF WithinBound
    <3>2. /\ IsFiniteSet((s.active \ ended) \cup promoted) /\ IsFiniteSet(s.queue \ promoted)
          /\ Cardinality((s.active \ ended) \cup promoted) + Cardinality(s.queue \ promoted)
               <= Cardinality(s.active) + Cardinality(s.queue)
      BY ONLY <3>1, MovedElements
    <3> QED BY ONLY <1>10, <3>2
  <2>2. /\ Cardinality(t.active) \in Nat /\ Cardinality(t.queue) \in Nat
        /\ Cardinality(s.active) \in Nat /\ Cardinality(s.queue) \in Nat /\ MaxActive \in Nat
        /\ Cardinality(s.active) + Cardinality(s.queue) <= MaxActive
    BY <2>1, FS_CardinalityType, StoreBounds DEF WithinBound
  <2>3. \A a, b, c, d, n \in Nat : a + b <= c + d /\ c + d <= n => a + b <= n
    OBVIOUS
  <2>4. Cardinality(t.active) + Cardinality(t.queue) <= MaxActive
    BY ONLY <2>1, <2>2, <2>3
  <2> QED BY <2>1, <2>4 DEF WithinBound
<1>20. \A o \in Op : t.op[o] = m.op[o] \/ (s.op[o].status = "queued" /\ t.op[o].status = "active")
  BY <1>2, <1>12, <1>14, <1>15
<1>21. HandedOver(t, m, s)
  BY <1>10, <1>16, <1>18, <1>19, <1>20 DEF HandedOver
<1> QED BY <1>21 DEF t, lanes

\* What a transaction that leaves t of s at time now may do: it keeps the
\* invariant, leaves finished operations alone and gives up late ones only.
Sound(t, s, now) ==
    /\ StoreInv(t)
    /\ \A o \in Op : s.op[o].status \in Terminal => t.op[o] = s.op[o]
    /\ \A o \in Op : t.op[o].status = "needs_reconciliation" =>
                     t.op[o] = s.op[o] \/ now >= t.op[o].deadline + Lifetime

\* Changing nothing is sound.
LEMMA UnchangedIsSound ==
    ASSUME NEW s, StoreInv(s), NEW now
    PROVE  Sound(s, s, now)
BY DEF Sound

\* A promoted operation is taken over by the client that comes back.
LEMMA ResumedIsSound ==
    ASSUME NEW s, StoreInv(s), NEW now, NEW o \in Op, NEW i \in Invocation,
           s.op[o].status \in {"active", "timed_out"}
    PROVE  Sound(Resumed(s, o, i), s, now)
<1> DEFINE t == Resumed(s, o, i)
<1>1. s \in Store /\ LanesInOrder(s) /\ Known(s, o)
  BY DEF StoreInv, Known
<1>2. s.op[o] \in ExecutorOperationRecord /\ s.op[o].req.lane \in Lane
  BY <1>1, KnownRecord
<1>3. o \in s.active /\ (s.op[o].req.exclusive => s.lane[s.op[o].req.lane] = o)
  BY <1>1 DEF LanesInOrder, holdsExecutionLane
<1>4. t = [s EXCEPT !.op[o]  = [@ EXCEPT !.status = "active", !.inv = i],
                    !.lane[s.op[o].req.lane] = IF s.op[o].req.exclusive THEN o ELSE @,
                    !.active = @ \cup {o}]
  BY DEF Resumed
<1> HIDE DEF t
<1>a. /\ t.op = [s.op EXCEPT ![o] = [s.op[o] EXCEPT !.status = "active", !.inv = i]]
      /\ t.queue = s.queue /\ t.outcome = s.outcome /\ t.result = s.result
  BY <1>1, <1>4 DEF Store
<1>5. t.lane = s.lane /\ t.active = s.active
  <2>1. s.lane \in [Lane -> Op \cup {None}]
    BY <1>1 DEF Store
  <2>2. /\ t.lane = [s.lane EXCEPT ![s.op[o].req.lane] = IF s.op[o].req.exclusive THEN o ELSE @]
        /\ t.active = s.active \cup {o}
    BY <1>1, <1>4 DEF Store
  <2>3. \A l \in Lane : t.lane[l] = s.lane[l]
    BY ONLY <1>2, <1>3, <2>1, <2>2
  <2>4. t.lane \in [Lane -> Op \cup {None}]
    BY ONLY <1>2, <2>1, <2>2, o \in Op
  <2>5. t.lane = s.lane
    BY ONLY <2>1, <2>3, <2>4
  <2> QED BY ONLY <1>3, <2>2, <2>5
<1>6. \A p \in Op : \/ t.op[p] = s.op[p]
                    \/ /\ holdsExecutionLane(s.op[p].status) /\ holdsExecutionLane(t.op[p].status)
                       /\ t.op[p].req = s.op[p].req /\ t.op[p].status = "active"
  BY <1>1, <1>2, <1>a DEF holdsExecutionLane, Store, ExecutorOperationRecord
<1>7. t \in Store
  <2>1. t.op \in [Op -> ExecutorOperationRecord \cup {NoOperation}]
    <3>1. [s.op[o] EXCEPT !.status = "active", !.inv = i] \in ExecutorOperationRecord
      BY <1>2 DEF ExecutorOperationRecord, ExecutorOperationStatus
    <3> QED BY <1>1, <1>a, <3>1 DEF Store
  <2> QED BY <1>1, <1>4, <1>5, <1>a, <2>1 DEF Store
<1>8. StoreInv(t)
  <2>1. \A k \in Invocation : t.outcome[k] = s.outcome[k] \/ t.outcome[k] = "timed_out"
    BY <1>a
  <2>2. OnlyRelabels(t, s)
    BY ONLY <1>a, <1>5, <1>6, <1>7, <2>1 DEF OnlyRelabels
  <2> QED BY ONLY StoreInv(s), <2>2, Relabelled
<1>9. \A p \in Op : s.op[p].status \in Terminal => t.op[p] = s.op[p]
  BY <1>6 DEF holdsExecutionLane, Terminal
<1> QED BY <1>6, <1>8, <1>9 DEF Sound, t

\* A new operation takes a free lane.
LEMMA StartedIsSound ==
    ASSUME NEW s, StoreInv(s), NEW now, NEW r \in Request, NEW i \in Invocation,
           NEW deadline \in Nat, NEW created \in Nat, ~Known(s, r.op), ~Full(s), LaneFree(s, r)
    PROVE  Sound([s EXCEPT !.op[r.op]     = NewOperation(r, "active", i, deadline, created),
                           !.active       = @ \cup {r.op},
                           !.lane[r.lane] = IF r.exclusive THEN r.op ELSE @], s, now)
<1> DEFINE n == NewOperation(r, "active", i, deadline, created)
           t == [s EXCEPT !.op[r.op]     = n,
                          !.active       = @ \cup {r.op},
                          !.lane[r.lane] = IF r.exclusive THEN r.op ELSE @]
<1>1. /\ s \in Store /\ LanesInOrder(s) /\ WithinBound(s) /\ OutcomesTrue(s)
      /\ r.op \in Op /\ r.lane \in Lane /\ r.exclusive \in BOOLEAN
  BY RequestAssumption DEF StoreInv, Op, Lane
<1>2. n \in ExecutorOperationRecord /\ n.req = r /\ n.status = "active"
  BY DEF NewOperation, ExecutorOperationRecord, ExecutorOperationStatus
<1>3. t = [s EXCEPT !.op[r.op]     = n,
                    !.active       = @ \cup {r.op},
                    !.lane[r.lane] = IF r.exclusive THEN r.op ELSE @]
  OBVIOUS
<1> HIDE DEF n, t
<1>4. /\ t.op = [s.op EXCEPT ![r.op] = n] /\ t.active = s.active \cup {r.op} /\ t.queue = s.queue
      /\ t.lane = [s.lane EXCEPT ![r.lane] = IF r.exclusive THEN r.op ELSE @]
      /\ t.outcome = s.outcome /\ t.result = s.result
  BY <1>1, <1>3 DEF Store
<1>5. t \in Store
  <2>1. t.op \in [Op -> ExecutorOperationRecord \cup {NoOperation}] /\ t.lane \in [Lane -> Op \cup {None}]
    BY <1>1, <1>2, <1>4 DEF Store
  <2> QED BY <1>1, <1>3, <1>4, <2>1 DEF Store
<1>6. /\ t.op[r.op] = n /\ \A o \in Op \ {r.op} : t.op[o] = s.op[o]
      /\ s.op[r.op].status = "none"
  BY <1>1, <1>4 DEF Store, Known
<1>7. /\ s.active \subseteq Op /\ s.queue \subseteq Op /\ s.lane \in [Lane -> Op \cup {None}]
      /\ r.op \notin s.active /\ r.op \notin s.queue
  <2>1. s.active \subseteq Op /\ s.queue \subseteq Op /\ s.lane \in [Lane -> Op \cup {None}]
    BY <1>1 DEF Store
  <2>2. ~holdsExecutionLane(s.op[r.op].status) /\ s.op[r.op].status # "queued"
    BY ONLY <1>6 DEF holdsExecutionLane
  <2> QED BY ONLY <1>1, <2>1, <2>2 DEF LanesInOrder
<1>a. \A o \in Op : (o \in s.active) <=> holdsExecutionLane(s.op[o].status)
  BY <1>1 DEF LanesInOrder
<1>b. \A l \in Lane : t.lane[l] = IF l = r.lane /\ r.exclusive THEN r.op ELSE s.lane[l]
  BY ONLY <1>1, <1>4, <1>7
<1>8. r.exclusive => s.lane[r.lane] \notin s.active
  <2> SUFFICES ASSUME r.exclusive, s.lane[r.lane] \in s.active PROVE FALSE
    OBVIOUS
  <2>1. s.lane[r.lane] \in Op /\ s.lane[r.lane] # None
    BY <1>7, NoneAssumption
  <2> QED BY <1>a, <2>1 DEF LaneFree
<1>9. LanesInOrder(t)
  <2>1. \A o \in Op : (o \in t.active) <=> holdsExecutionLane(t.op[o].status)
    BY ONLY <1>2, <1>4, <1>6, <1>7, <1>a DEF holdsExecutionLane
  <2>2. \A o \in Op : (o \in t.queue) <=> (t.op[o].status = "queued")
    <3>1. \A o \in Op : (o \in s.queue) <=> (s.op[o].status = "queued")
      BY <1>1 DEF LanesInOrder
    <3> QED BY ONLY <1>2, <1>4, <1>6, <1>7, <3>1
  <2>3. ASSUME NEW o \in t.active, t.op[o].req.exclusive PROVE t.lane[t.op[o].req.lane] = o
    <3>1. CASE o = r.op
      BY ONLY <1>1, <1>2, <1>6, <1>b, <2>3, <3>1
    <3>2. CASE o # r.op
      <4>1. o \in s.active /\ t.op[o] = s.op[o] /\ o \in Op
        BY <1>4, <1>6, <1>7, <3>2
      <4>2. s.lane[s.op[o].req.lane] = o
        BY <1>1, <2>3, <4>1, Runner
      <4>3. s.op[o].req.lane \in Lane
        BY <1>1, <4>1, Runner
      <4>4. t.lane[s.op[o].req.lane] = s.lane[s.op[o].req.lane]
        BY ONLY <1>8, <1>b, <4>1, <4>2, <4>3
      <4> QED BY ONLY <4>1, <4>2, <4>4
    <3> QED BY <3>1, <3>2
  <2>4. ASSUME NEW l \in Lane, t.lane[l] # None
        PROVE  Known(t, t.lane[l]) /\ t.op[t.lane[l]].req.exclusive /\ t.op[t.lane[l]].req.lane = l
    <3>1. CASE l = r.lane /\ r.exclusive
      <4>1. t.lane[l] = r.op
        BY ONLY <1>b, <3>1, l \in Lane
      <4>2. Known(t, r.op) /\ t.op[r.op].req = r
        BY ONLY <1>2, <1>6 DEF Known
      <4> QED BY ONLY <3>1, <4>1, <4>2
    <3>2. CASE ~(l = r.lane /\ r.exclusive)
      <4>1. PICK o \in Op : o = t.lane[l] /\ o = s.lane[l]
        BY ONLY <1>7, <1>b, <2>4, <3>2, l \in Lane
      <4>2. Known(s, o) /\ s.op[o].req.exclusive /\ s.op[o].req.lane = l
        <5>1. ExclusiveOf(s, o, l)
          BY ONLY <1>1, l \in Lane, <4>1, Holder
        <5> QED BY ONLY <5>1 DEF ExclusiveOf
      <4>3. t.op[o] = s.op[o]
        BY <1>6, <4>2 DEF Known
      <4> QED BY <4>1, <4>2, <4>3 DEF Known
    <3> QED BY <3>1, <3>2
  <2>5. ASSUME NEW o \in t.queue PROVE t.op[o].req.exclusive /\ t.lane[t.op[o].req.lane] \in t.active
    <3>1. o \in s.queue /\ o \in Op /\ t.op[o] = s.op[o]
      BY <1>4, <1>6, <1>7
    <3>2. s.op[o].req.exclusive /\ s.lane[s.op[o].req.lane] \in s.active /\ s.op[o].req.lane \in Lane
      BY <1>1, <3>1, Waiter
    <3>3. t.lane[s.op[o].req.lane] = s.lane[s.op[o].req.lane]
      BY ONLY <1>8, <1>b, <3>2
    <3> QED BY ONLY <1>4, <3>1, <3>2, <3>3
  <2> QED BY <2>1, <2>2, <2>3, <2>4, <2>5 DEF LanesInOrder
<1>10. WithinBound(t)
  <2>1. /\ IsFiniteSet(s.queue) /\ IsFiniteSet(s.active)
        /\ ~(Cardinality(s.active) + Cardinality(s.queue) >= MaxActive)
    BY <1>1 DEF WithinBound, Full
  <2>2. /\ IsFiniteSet(s.active \cup {r.op})
        /\ Cardinality(s.active \cup {r.op}) + Cardinality(s.queue) <= MaxActive
    BY ONLY <2>1, OneMore
  <2> QED BY ONLY <1>4, <2>1, <2>2 DEF WithinBound
<1>11. OutcomesTrue(t)
  <2>1. \A o \in Op : s.op[o].status \in {"succeeded", "failed"} => t.op[o] = s.op[o]
    BY ONLY <1>6
  <2>2. s.result \subseteq Op
    BY <1>1 DEF Store
  <2> QED BY ONLY <1>1, <1>4, <2>1, <2>2, SignedAssumption DEF OutcomesTrue
<1>12. \A o \in Op : t.op[o] = s.op[o] \/ (s.op[o].status = "none" /\ t.op[o].status = "active")
  BY <1>2, <1>6
<1> QED BY <1>5, <1>9, <1>10, <1>11, <1>12 DEF StoreInv, Sound, Terminal, t, n

\* A new operation waits behind the holder of its lane.
LEMMA QueuedIsSound ==
    ASSUME NEW s, StoreInv(s), NEW now, NEW r \in Request,
           NEW deadline \in Nat, NEW created \in Nat, ~Known(s, r.op), ~Full(s), ~LaneFree(s, r)
    PROVE  Sound([s EXCEPT !.op[r.op] = NewOperation(r, "queued", None, deadline, created),
                           !.queue    = @ \cup {r.op}], s, now)
<1> DEFINE n == NewOperation(r, "queued", None, deadline, created)
           t == [s EXCEPT !.op[r.op] = n, !.queue = @ \cup {r.op}]
<1>1. /\ s \in Store /\ LanesInOrder(s) /\ WithinBound(s) /\ OutcomesTrue(s)
      /\ r.op \in Op /\ r.lane \in Lane /\ r.exclusive \in BOOLEAN
  BY RequestAssumption DEF StoreInv, Op, Lane
<1>2. n \in ExecutorOperationRecord /\ n.req = r /\ n.status = "queued"
  BY DEF NewOperation, ExecutorOperationRecord, ExecutorOperationStatus
<1>3. t = [s EXCEPT !.op[r.op] = n, !.queue = @ \cup {r.op}]
  OBVIOUS
<1> HIDE DEF n, t
<1>4. /\ t.op = [s.op EXCEPT ![r.op] = n] /\ t.queue = s.queue \cup {r.op} /\ t.active = s.active
      /\ t.lane = s.lane /\ t.outcome = s.outcome /\ t.result = s.result
  BY <1>1, <1>3 DEF Store
<1>5. t \in Store
  <2>1. t.op \in [Op -> ExecutorOperationRecord \cup {NoOperation}]
    BY <1>1, <1>2, <1>4 DEF Store
  <2> QED BY <1>1, <1>3, <1>4, <2>1 DEF Store
<1>6. /\ t.op[r.op] = n /\ \A o \in Op \ {r.op} : t.op[o] = s.op[o]
      /\ s.op[r.op].status = "none"
  BY <1>1, <1>4 DEF Store, Known
<1>7. /\ s.active \subseteq Op /\ s.queue \subseteq Op /\ s.lane \in [Lane -> Op \cup {None}]
      /\ r.op \notin s.active /\ r.op \notin s.queue
  <2>1. s.active \subseteq Op /\ s.queue \subseteq Op /\ s.lane \in [Lane -> Op \cup {None}]
    BY <1>1 DEF Store
  <2>2. ~holdsExecutionLane(s.op[r.op].status) /\ s.op[r.op].status # "queued"
    BY ONLY <1>6 DEF holdsExecutionLane
  <2> QED BY ONLY <1>1, <2>1, <2>2 DEF LanesInOrder
<1>a. \A o \in Op : (o \in s.active) <=> holdsExecutionLane(s.op[o].status)
  BY <1>1 DEF LanesInOrder
<1>8. r.exclusive /\ s.lane[r.lane] \in s.active
  <2>1. r.exclusive /\ s.lane[r.lane] # None /\ holdsExecutionLane(s.op[s.lane[r.lane]].status)
    BY DEF LaneFree
  <2> QED BY <1>1, <1>7, <1>a, <2>1
<1>9. LanesInOrder(t)
  <2>1. \A o \in Op : (o \in t.active) <=> holdsExecutionLane(t.op[o].status)
    BY ONLY <1>2, <1>4, <1>6, <1>7, <1>a DEF holdsExecutionLane
  <2>2. \A o \in Op : (o \in t.queue) <=> (t.op[o].status = "queued")
    <3>1. \A o \in Op : (o \in s.queue) <=> (s.op[o].status = "queued")
      BY <1>1 DEF LanesInOrder
    <3> QED BY ONLY <1>2, <1>4, <1>6, <1>7, <3>1
  <2>3. \A o \in t.active : t.op[o].req.exclusive => t.lane[t.op[o].req.lane] = o
    <3>1. \A o \in s.active : t.op[o] = s.op[o]
      BY <1>6, <1>7
    <3>2. \A o \in s.active : s.op[o].req.exclusive => s.lane[s.op[o].req.lane] = o
      BY <1>1 DEF LanesInOrder
    <3> QED BY ONLY <1>4, <3>1, <3>2
  <2>4. ASSUME NEW l \in Lane, t.lane[l] # None
        PROVE  Known(t, t.lane[l]) /\ t.op[t.lane[l]].req.exclusive /\ t.op[t.lane[l]].req.lane = l
    <3>1. PICK o \in Op : o = t.lane[l] /\ o = s.lane[l]
      BY <1>4, <1>7, <2>4
    <3>2. Known(s, o) /\ s.op[o].req.exclusive /\ s.op[o].req.lane = l
      <4>1. ExclusiveOf(s, o, l)
        BY ONLY <1>1, l \in Lane, <3>1, Holder
      <4> QED BY ONLY <4>1 DEF ExclusiveOf
    <3>3. t.op[o] = s.op[o]
      BY <1>6, <3>2 DEF Known
    <3> QED BY <3>1, <3>2, <3>3 DEF Known
  <2>5. ASSUME NEW o \in t.queue PROVE t.op[o].req.exclusive /\ t.lane[t.op[o].req.lane] \in t.active
    <3>1. CASE o = r.op
      BY <1>2, <1>4, <1>6, <1>8, <3>1
    <3>2. CASE o # r.op
      <4>1. o \in s.queue /\ t.op[o] = s.op[o]
        BY <1>4, <1>6, <1>7, <3>2
      <4>2. s.op[o].req.exclusive /\ s.lane[s.op[o].req.lane] \in s.active
        BY <1>1, <4>1, Waiter
      <4> QED BY ONLY <1>4, <4>1, <4>2
    <3> QED BY <3>1, <3>2
  <2> QED BY <2>1, <2>2, <2>3, <2>4, <2>5 DEF LanesInOrder
<1>10. WithinBound(t)
  <2>1. /\ IsFiniteSet(s.queue) /\ IsFiniteSet(s.active)
        /\ ~(Cardinality(s.queue) + Cardinality(s.active) >= MaxActive)
    <3>1. /\ IsFiniteSet(s.queue) /\ IsFiniteSet(s.active)
          /\ ~(Cardinality(s.active) + Cardinality(s.queue) >= MaxActive)
      BY <1>1 DEF WithinBound, Full
    <3>2. Cardinality(s.active) \in Nat /\ Cardinality(s.queue) \in Nat
      BY <3>1, FS_CardinalityType
    <3> QED BY <3>1, <3>2
  <2>2. /\ IsFiniteSet(s.queue \cup {r.op})
        /\ Cardinality(s.active) + Cardinality(s.queue \cup {r.op}) <= MaxActive
    BY ONLY <2>1, OneMore
  <2> QED BY ONLY <1>4, <2>1, <2>2 DEF WithinBound
<1>11. OutcomesTrue(t)
  <2>1. \A o \in Op : s.op[o].status \in {"succeeded", "failed"} => t.op[o] = s.op[o]
    BY ONLY <1>6
  <2>2. s.result \subseteq Op
    BY <1>1 DEF Store
  <2> QED BY ONLY <1>1, <1>4, <2>1, <2>2, SignedAssumption DEF OutcomesTrue
<1>12. \A o \in Op : t.op[o] = s.op[o] \/ (s.op[o].status = "none" /\ t.op[o].status = "queued")
  BY <1>2, <1>6
<1> QED BY <1>5, <1>9, <1>10, <1>11, <1>12 DEF StoreInv, Sound, Terminal, t, n

\* begin is sound, whatever it answers.
LEMMA BeginIsSound ==
    ASSUME NEW s, StoreInv(s), NEW r \in Request, NEW i \in Invocation,
           NEW deadline \in Nat, NEW now \in Nat
    PROVE  Sound(begin(s, r, i, deadline, now).store, s, now)
<1> DEFINE t == begin(s, r, i, deadline, now).store
<1>1. r.op \in Op
  BY DEF Op
<1>2. CASE t = s
  BY <1>2, UnchangedIsSound
<1>3. CASE t # s /\ Known(s, r.op)
  <2>1. t = Resumed(s, r.op, i) /\ s.op[r.op].status \in {"active", "timed_out"}
    BY <1>3 DEF begin, beginExisting, Answer
  <2> HIDE DEF t
  <2>2. Sound(t, s, now)
    BY <1>1, <2>1, ResumedIsSound
  <2> QED BY <2>2 DEF t
<1>4. CASE t # s /\ ~Known(s, r.op)
  <2> DEFINE started == [s EXCEPT !.op[r.op]     = NewOperation(r, "active", i, deadline, now),
                                  !.active       = @ \cup {r.op},
                                  !.lane[r.lane] = IF r.exclusive THEN r.op ELSE @]
             queued  == [s EXCEPT !.op[r.op] = NewOperation(r, "queued", None, deadline, now),
                                  !.queue    = @ \cup {r.op}]
  <2>1. ~Full(s) /\ (LaneFree(s, r) => t = started) /\ (~LaneFree(s, r) => t = queued)
    BY <1>4 DEF begin, beginNew, Answer
  <2>2. ASSUME LaneFree(s, r) PROVE Sound(started, s, now)
    BY <1>4, <2>1, <2>2, StartedIsSound
  <2>3. ASSUME ~LaneFree(s, r) PROVE Sound(queued, s, now)
    BY <1>4, <2>1, <2>3, QueuedIsSound
  <2> HIDE DEF t, started, queued
  <2>4. Sound(t, s, now)
    BY <2>1, <2>2, <2>3
  <2> QED BY <2>4 DEF t
<1> QED BY <1>2, <1>3, <1>4

\* Noting that an invocation timed out is sound.
LEMMA TimeoutIsSound ==
    ASSUME NEW s, StoreInv(s), NEW now, NEW i \in Invocation, Known(s, opOf(i))
    PROVE  Sound(recordInvocationTimeout(s, opOf(i), i), s, now)
<1> DEFINE o == opOf(i)
           w == writeInvocationOutcome(s, i, "timed_out")
           t == recordInvocationTimeout(s, o, i)
<1>1. s \in Store /\ o \in Op /\ s.op[o] \in ExecutorOperationRecord
  BY SignedAssumption, KnownRecord DEF StoreInv
<1>2. /\ w \in Store /\ w.op = s.op /\ w.active = s.active /\ w.queue = s.queue
      /\ w.lane = s.lane /\ w.result = s.result
      /\ \A k \in Invocation : w.outcome[k] = s.outcome[k] \/ w.outcome[k] = "timed_out"
  BY <1>1 DEF writeInvocationOutcome, Store
<1> HIDE DEF w
<1>3. t = w \/ (s.op[o].status = "active" /\ t = [w EXCEPT !.op[o].status = "timed_out"])
  BY DEF recordInvocationTimeout, w
<1> HIDE DEF t, o
<1>4. /\ t \in Store /\ t.active = s.active /\ t.queue = s.queue /\ t.lane = s.lane /\ t.result = s.result
      /\ \A k \in Invocation : t.outcome[k] = s.outcome[k] \/ t.outcome[k] = "timed_out"
      /\ \A p \in Op : \/ t.op[p] = s.op[p]
                       \/ /\ holdsExecutionLane(s.op[p].status) /\ holdsExecutionLane(t.op[p].status)
                          /\ t.op[p].req = s.op[p].req /\ t.op[p].status = "timed_out"
  <2>1. CASE t = w
    BY <1>2, <2>1
  <2>2. CASE s.op[o].status = "active" /\ t = [w EXCEPT !.op[o].status = "timed_out"]
    <3>1. /\ t.op = [s.op EXCEPT ![o] = [s.op[o] EXCEPT !.status = "timed_out"]]
          /\ t.active = w.active /\ t.queue = w.queue /\ t.lane = w.lane /\ t.result = w.result
          /\ t.outcome = w.outcome
      BY <1>1, <1>2, <2>2 DEF Store
    <3>2. [s.op[o] EXCEPT !.status = "timed_out"] \in ExecutorOperationRecord
      BY <1>1 DEF ExecutorOperationRecord, ExecutorOperationStatus
    <3>3. t.op \in [Op -> ExecutorOperationRecord \cup {NoOperation}]
      BY <1>1, <3>1, <3>2 DEF Store
    <3>4. t \in Store
      BY <1>2, <2>2, <3>1, <3>3 DEF Store
    <3>5. \A p \in Op : \/ t.op[p] = s.op[p]
                        \/ /\ holdsExecutionLane(s.op[p].status) /\ holdsExecutionLane(t.op[p].status)
                           /\ t.op[p].req = s.op[p].req /\ t.op[p].status = "timed_out"
      BY <1>1, <2>2, <3>1 DEF Store, ExecutorOperationRecord, holdsExecutionLane
    <3> QED BY <1>2, <3>1, <3>4, <3>5
  <2> QED BY <1>3, <2>1, <2>2
<1>5. StoreInv(t)
  <2>1. OnlyRelabels(t, s)
    BY ONLY <1>4 DEF OnlyRelabels
  <2> QED BY ONLY StoreInv(s), <2>1, Relabelled
<1>6. \A p \in Op : s.op[p].status \in Terminal => t.op[p] = s.op[p]
  BY <1>4 DEF holdsExecutionLane, Terminal
<1> QED BY <1>4, <1>5, <1>6 DEF Sound, t, o

\* A request to cancel is sound.
LEMMA CancelIsSound ==
    ASSUME NEW s, StoreInv(s), NEW now, NEW o \in Op, Known(s, o)
    PROVE  Sound(requestCancel(s, o), s, now)
<1> DEFINE t == requestCancel(s, o)
<1>1. s \in Store /\ s.op[o] \in ExecutorOperationRecord
  BY KnownRecord DEF StoreInv
<1>2. CASE t = s
  BY <1>2, UnchangedIsSound
<1>3. CASE t # s
  <2>1. s.op[o].status \in {"active", "timed_out"} /\ t = [s EXCEPT !.op[o].status = "cancel_requested"]
    BY <1>3 DEF requestCancel
  <2> HIDE DEF t
  <2>2. /\ t.op = [s.op EXCEPT ![o] = [s.op[o] EXCEPT !.status = "cancel_requested"]]
        /\ t.active = s.active /\ t.queue = s.queue /\ t.lane = s.lane /\ t.result = s.result
        /\ t.outcome = s.outcome
    BY <1>1, <2>1 DEF Store
  <2>3. [s.op[o] EXCEPT !.status = "cancel_requested"] \in ExecutorOperationRecord
    BY <1>1 DEF ExecutorOperationRecord, ExecutorOperationStatus
  <2>4. t.op \in [Op -> ExecutorOperationRecord \cup {NoOperation}]
    BY <1>1, <2>2, <2>3 DEF Store
  <2>5. t \in Store
    BY <1>1, <2>1, <2>2, <2>4 DEF Store
  <2>6. \A p \in Op : \/ t.op[p] = s.op[p]
                      \/ /\ holdsExecutionLane(s.op[p].status) /\ holdsExecutionLane(t.op[p].status)
                         /\ t.op[p].req = s.op[p].req /\ t.op[p].status = "cancel_requested"
    BY <1>1, <2>1, <2>2 DEF Store, ExecutorOperationRecord, holdsExecutionLane
  <2>7. \A k \in Invocation : t.outcome[k] = s.outcome[k] \/ t.outcome[k] = "timed_out"
    BY <2>2
  <2>8. StoreInv(t)
    <3>1. OnlyRelabels(t, s)
      BY ONLY <2>2, <2>5, <2>6, <2>7 DEF OnlyRelabels
    <3> QED BY ONLY StoreInv(s), <3>1, Relabelled
  <2>9. \A p \in Op : s.op[p].status \in Terminal => t.op[p] = s.op[p]
    BY <2>6 DEF holdsExecutionLane, Terminal
  <2> QED BY <2>6, <2>8, <2>9 DEF Sound, t
<1> QED BY <1>2, <1>3

\* Completing an operation is sound: its outcome is the one it ends with, and
\* its lane passes on.
LEMMA CompleteIsSound ==
    ASSUME NEW s, StoreInv(s), NEW now, NEW i \in Invocation, Known(s, opOf(i)),
           NEW status \in {"succeeded", "failed"}, NEW stored \in BOOLEAN, stored => status = "succeeded"
    PROVE  Sound(complete(s, opOf(i), i, status, stored).store, s, now)
<1> DEFINE o == opOf(i)
           w == writeInvocationOutcome(s, i, status)
           m == [w EXCEPT !.op[o]  = [@ EXCEPT !.status = status, !.inv = None],
                          !.active = @ \ {o},
                          !.result = IF stored THEN @ \cup {o} ELSE @]
           r == Released(m, HeldLanes(s, {o}), {o})
           t == complete(s, o, i, status, stored).store
<1>1. /\ s \in Store /\ LanesInOrder(s) /\ WithinBound(s) /\ OutcomesTrue(s)
      /\ o \in Op /\ s.op[o] \in ExecutorOperationRecord
  BY SignedAssumption, KnownRecord DEF StoreInv
<1>2. CASE t = s
  BY <1>2, UnchangedIsSound
<1>3. CASE t # s
  <2>1. /\ s.op[o].status \notin Terminal /\ holdsExecutionLane(s.op[o].status)
        /\ t = r
    BY <1>3 DEF complete, Answer
  <2>2. /\ w \in Store /\ w.op = s.op /\ w.active = s.active /\ w.queue = s.queue
        /\ w.lane = s.lane /\ w.result = s.result
        /\ w.outcome = [s.outcome EXCEPT ![i] = IF @ = None THEN status ELSE @]
    BY <1>1 DEF writeInvocationOutcome, Store
  <2>3. m = [w EXCEPT !.op[o]  = [@ EXCEPT !.status = status, !.inv = None],
                      !.active = @ \ {o},
                      !.result = IF stored THEN @ \cup {o} ELSE @]
    OBVIOUS
  <2>a. o \in s.active
    BY <1>1, <2>1 DEF LanesInOrder, holdsExecutionLane
  <2> HIDE DEF w, m, o, t
  <2>4. /\ m.op = [s.op EXCEPT ![o] = [s.op[o] EXCEPT !.status = status, !.inv = None]]
        /\ m.active = s.active \ {o} /\ m.queue = s.queue /\ m.lane = s.lane
        /\ m.result = (IF stored THEN s.result \cup {o} ELSE s.result)
        /\ m.outcome = w.outcome
    BY <2>2, <2>3 DEF Store
  <2>5. /\ [s.op[o] EXCEPT !.status = status, !.inv = None] \in ExecutorOperationRecord
        /\ [s.op[o] EXCEPT !.status = status, !.inv = None].status = status
        /\ [s.op[o] EXCEPT !.status = status, !.inv = None].req = s.op[o].req
    BY <1>1 DEF ExecutorOperationRecord, ExecutorOperationStatus
  <2>6. /\ m.op[o].status = status /\ m.op[o].req = s.op[o].req
        /\ \A p \in Op \ {o} : m.op[p] = s.op[p]
        /\ m.op \in [Op -> ExecutorOperationRecord \cup {NoOperation}]
    BY <1>1, <2>4, <2>5 DEF Store
  <2>7. m \in Store
    BY <1>1, <2>2, <2>3, <2>4, <2>6 DEF Store
  <2>8. Ended(m, s, {o})
    <3>1. s.active \subseteq Op /\ \A p \in s.active : holdsExecutionLane(s.op[p].status)
      BY <1>1 DEF Store, LanesInOrder, holdsExecutionLane
    <3> QED BY <2>4, <2>6, <2>a, <3>1 DEF Ended, Terminal
  <2>9. /\ r \in Store /\ LanesInOrder(r) /\ WithinBound(r)
        /\ r.outcome = m.outcome /\ r.result = m.result
        /\ \A p \in Op : r.op[p] = m.op[p] \/ (s.op[p].status = "queued" /\ r.op[p].status = "active")
    <3>1. {o} \in SUBSET s.active
      BY <2>a
    <3>2. HandedOver(Released(m, HeldLanes(s, {o}), {o}), m, s)
      BY ONLY <1>1, <2>7, <2>8, <3>1, ReleasedInOrder
    <3> QED BY <3>2 DEF HandedOver
  <2> HIDE DEF r
  <2>10. r.op[o].status = status
    BY <1>1, <2>1, <2>6, <2>9 DEF holdsExecutionLane
  <2>11. \A p \in Op : s.op[p].status \in Terminal => r.op[p] = s.op[p] /\ p # o
    BY <2>1, <2>6, <2>9 DEF Terminal
  <2>12. OutcomesTrue(r)
    <3>1. ASSUME NEW k \in Invocation, r.outcome[k] \in {"succeeded", "failed"}
          PROVE  r.outcome[k] = r.op[opOf(k)].status
      <4>0. opOf(k) \in Op /\ r.outcome[k] = w.outcome[k]
        BY <2>4, <2>9, SignedAssumption
      <4>1. CASE s.outcome[k] \in {"succeeded", "failed"}
        <5>1. s.outcome[k] = s.op[opOf(k)].status /\ s.outcome[k] # None
          BY <1>1, <4>1, NoneAssumption DEF OutcomesTrue
        <5>2. r.op[opOf(k)] = s.op[opOf(k)]
          BY <2>11, <4>0, <4>1, <5>1 DEF Terminal
        <5>3. w.outcome[k] = s.outcome[k]
          BY <1>1, <2>2, <5>1 DEF Store
        <5> QED BY <4>0, <5>1, <5>2, <5>3
      <4>2. CASE s.outcome[k] \notin {"succeeded", "failed"}
        <5>1. k = i /\ w.outcome[k] = status
          BY <1>1, <2>2, <3>1, <4>0, <4>2 DEF Store
        <5> QED BY <2>10, <4>0, <5>1 DEF o
      <4> QED BY <4>1, <4>2
    <3>2. ASSUME NEW p \in r.result PROVE r.op[p].status = "succeeded"
      <4>1. CASE p = o /\ stored
        BY <2>10, <4>1
      <4>2. CASE ~(p = o /\ stored)
        <5>1. p \in s.result /\ p \in Op /\ s.op[p].status = "succeeded"
          BY <1>1, <2>4, <2>9, <4>2 DEF OutcomesTrue, Store
        <5> QED BY <2>11, <5>1 DEF Terminal
      <4> QED BY <4>1, <4>2
    <3> QED BY <3>1, <3>2 DEF OutcomesTrue
  <2>13. \A p \in Op : r.op[p].status = "needs_reconciliation" => r.op[p] = s.op[p]
    BY <2>6, <2>9, <2>10
  <2>14. Sound(r, s, now)
    BY <2>9, <2>11, <2>12, <2>13 DEF Sound, StoreInv
  <2> QED BY <2>1, <2>14 DEF t, o
<1> QED BY <1>2, <1>3

\* The watchdog is sound: it gives up late operations only and passes on all
\* their lanes at once.
LEMMA WatchdogIsSound ==
    ASSUME NEW s, StoreInv(s), NEW now \in Nat
    PROVE  Sound(watchdog(s, now), s, now)
<1> DEFINE overdue   == Overdue(s, now)
           givenUp   == GivenUp(s, now)
           remaining == {o \in s.active \ givenUp : holdsExecutionLane(s.op[o].status)}
           ops == [o \in Op |->
             IF o \in givenUp THEN [s.op[o] EXCEPT !.status = "needs_reconciliation", !.inv = None]
             ELSE IF o \in overdue THEN [s.op[o] EXCEPT !.status = "timed_out"] ELSE s.op[o]]
           m == [s EXCEPT !.active = remaining, !.op = ops]
           t == Released(m, HeldLanes(s, givenUp), givenUp)
<1>1. s \in Store /\ LanesInOrder(s) /\ WithinBound(s) /\ OutcomesTrue(s)
  BY DEF StoreInv
<1>2. t = watchdog(s, now)
  BY <1>1 DEF watchdog, Store
<1>3. /\ s.active \subseteq Op /\ \A o \in s.active : holdsExecutionLane(s.op[o].status)
      /\ \A o \in Op : holdsExecutionLane(s.op[o].status) => o \in s.active
  BY <1>1 DEF Store, LanesInOrder, holdsExecutionLane
<1>4. /\ givenUp \in SUBSET s.active /\ remaining = s.active \ givenUp
      /\ overdue \subseteq s.active /\ overdue \cap givenUp = {}
      /\ \A o \in givenUp : now >= s.op[o].deadline + Lifetime
  <2>1. /\ givenUp \in SUBSET s.active /\ overdue \subseteq s.active /\ overdue \cap givenUp = {}
        /\ \A o \in givenUp : now >= s.op[o].deadline + Lifetime
    BY DEF GivenUp, Overdue, terminalDeadline
  <2> QED BY <1>3, <2>1 DEF holdsExecutionLane
<1> HIDE DEF givenUp, overdue, remaining
<1>5. \A o \in s.active : s.op[o] \in ExecutorOperationRecord
  BY <1>1, <1>3, KnownRecord DEF holdsExecutionLane, Known
<1>6. \A o \in Op :
        /\ o \in givenUp => /\ ops[o] \in ExecutorOperationRecord /\ ops[o].status = "needs_reconciliation"
                            /\ ops[o].req = s.op[o].req /\ ops[o].deadline = s.op[o].deadline
        /\ o \in overdue => /\ ops[o] \in ExecutorOperationRecord /\ ops[o].status = "timed_out"
                            /\ ops[o].req = s.op[o].req
        /\ o \notin givenUp \cup overdue => ops[o] = s.op[o]
  <2> SUFFICES ASSUME NEW o \in Op
      PROVE /\ o \in givenUp => /\ ops[o] \in ExecutorOperationRecord /\ ops[o].status = "needs_reconciliation"
                                /\ ops[o].req = s.op[o].req /\ ops[o].deadline = s.op[o].deadline
            /\ o \in overdue => /\ ops[o] \in ExecutorOperationRecord /\ ops[o].status = "timed_out"
                                /\ ops[o].req = s.op[o].req
            /\ o \notin givenUp \cup overdue => ops[o] = s.op[o]
    OBVIOUS
  <2>1. CASE o \in givenUp
    <3>1. s.op[o] \in ExecutorOperationRecord /\ o \notin overdue
      BY <1>4, <1>5, <2>1
    <3>2. ops[o] = [s.op[o] EXCEPT !.status = "needs_reconciliation", !.inv = None]
      BY <2>1
    <3> QED BY <2>1, <3>1, <3>2 DEF ExecutorOperationRecord, ExecutorOperationStatus
  <2>2. CASE o \in overdue
    <3>1. s.op[o] \in ExecutorOperationRecord /\ o \notin givenUp
      BY <1>4, <1>5, <2>2
    <3>2. ops[o] = [s.op[o] EXCEPT !.status = "timed_out"]
      BY <2>2, <3>1
    <3> QED BY <2>2, <3>1, <3>2 DEF ExecutorOperationRecord, ExecutorOperationStatus
  <2>3. CASE o \notin givenUp \cup overdue
    BY <2>3
  <2> QED BY <2>1, <2>2, <2>3
<1>7. ops \in [Op -> ExecutorOperationRecord \cup {NoOperation}]
  <2>1. \A o \in Op : ops[o] \in ExecutorOperationRecord \cup {NoOperation}
    BY <1>1, <1>6 DEF Store
  <2> QED BY <2>1
<1> HIDE DEF ops
<1>8. /\ m \in Store /\ m.op = ops /\ m.active = s.active \ givenUp /\ m.queue = s.queue
      /\ m.lane = s.lane /\ m.outcome = s.outcome /\ m.result = s.result
  BY <1>1, <1>4, <1>7 DEF Store
<1> HIDE DEF m
<1>9. Ended(m, s, givenUp)
  <2>1. \A o \in Op \ s.active : m.op[o] = s.op[o]
    BY <1>4, <1>6, <1>8
  <2>2. \A o \in s.active : m.op[o].req = s.op[o].req
    BY <1>3, <1>6, <1>8
  <2>3. \A o \in givenUp : m.op[o].status \in Terminal
    BY <1>3, <1>4, <1>6, <1>8 DEF Terminal
  <2>4. \A o \in s.active \ givenUp : holdsExecutionLane(m.op[o].status)
    BY <1>3, <1>6, <1>8 DEF holdsExecutionLane
  <2> QED BY <1>8, <2>1, <2>2, <2>3, <2>4 DEF Ended
<1>10. /\ t \in Store /\ LanesInOrder(t) /\ WithinBound(t)
       /\ t.outcome = m.outcome /\ t.result = m.result
       /\ \A o \in Op : t.op[o] = m.op[o] \/ (s.op[o].status = "queued" /\ t.op[o].status = "active")
  <2>1. HandedOver(Released(m, HeldLanes(s, givenUp), givenUp), m, s)
    BY ONLY <1>1, <1>4, <1>8, <1>9, ReleasedInOrder
  <2> QED BY <2>1 DEF HandedOver
<1> HIDE DEF t
<1>11. \A o \in Op : s.op[o].status \in Terminal => t.op[o] = s.op[o]
  <2>1. \A o \in Op : s.op[o].status \in Terminal => o \notin givenUp \cup overdue
    BY <1>3, <1>4 DEF Terminal, holdsExecutionLane
  <2>2. \A o \in Op : s.op[o].status \in Terminal => t.op[o] = m.op[o]
    BY ONLY <1>10 DEF Terminal
  <2> QED BY ONLY <1>6, <1>8, <2>1, <2>2
<1>12. OutcomesTrue(t)
  <2>1. ASSUME NEW k \in Invocation, t.outcome[k] \in {"succeeded", "failed"}
        PROVE  t.outcome[k] = t.op[opOf(k)].status
    <3>1. opOf(k) \in Op /\ t.outcome[k] = s.outcome[k]
      BY <1>8, <1>10, SignedAssumption
    <3>2. s.outcome[k] = s.op[opOf(k)].status
      BY <1>1, <2>1, <3>1 DEF OutcomesTrue
    <3> QED BY <1>11, <2>1, <3>1, <3>2 DEF Terminal
  <2>2. ASSUME NEW o \in t.result PROVE t.op[o].status = "succeeded"
    <3>1. o \in Op /\ s.op[o].status = "succeeded"
      BY <1>1, <1>8, <1>10 DEF OutcomesTrue, Store
    <3> QED BY <1>11, <3>1 DEF Terminal
  <2> QED BY <2>1, <2>2 DEF OutcomesTrue
<1>13. ASSUME NEW o \in Op, t.op[o].status = "needs_reconciliation"
       PROVE  t.op[o] = s.op[o] \/ now >= t.op[o].deadline + Lifetime
  <2>1. t.op[o] = ops[o]
    BY <1>8, <1>10, <1>13
  <2>2. CASE o \in givenUp
    BY <1>4, <1>6, <2>1, <2>2
  <2>3. CASE o \notin givenUp
    BY <1>6, <1>13, <2>1, <2>3
  <2> QED BY <2>2, <2>3
<1>14. Sound(t, s, now)
  BY <1>10, <1>11, <1>12, <1>13 DEF Sound, StoreInv
<1> QED BY <1>2, <1>14

-----------------------------------------------------------------------------
(* The object *)

\* What was late at the time of a call is late now.
LEMMA LaterIsSound ==
    ASSUME NEW t, NEW s, NEW now \in Nat, NEW then \in Nat, now <= then, Sound(t, s, now)
    PROVE  Sound(t, s, then)
<1>1. ASSUME NEW o \in Op, t.op[o].status = "needs_reconciliation", now >= t.op[o].deadline + Lifetime
      PROVE  then >= t.op[o].deadline + Lifetime
  <2>1. t \in Store /\ Known(t, o)
    BY <1>1 DEF Sound, StoreInv, Known
  <2>2. t.op[o].deadline \in Nat /\ Lifetime \in Nat
    BY <2>1, KnownRecord, StoreBounds
  <2>3. \A a, b, c, d \in Nat : a <= b /\ a >= c + d => b >= c + d
    OBVIOUS
  <2> QED BY ONLY <1>1, <2>2, <2>3, now \in Nat, then \in Nat, now <= then
<1> QED BY <1>1 DEF Sound

\* Every step of the object is sound at the time it takes.
LEMMA StepIsSound ==
    ASSUME StoreInv(store), clock \in Nat, [Next]_vars
    PROVE  Sound(store', store, clock) /\ clock' \in Nat /\ clock <= clock'
<1>1. CASE UNCHANGED vars
  BY <1>1, UnchangedIsSound DEF vars
<1>2. ASSUME NEW t \in CallTimes,
             \/ \E r \in Request, i \in Invocation : Begin(r, i, t)
             \/ \E i \in Invocation : RecordInvocationTimeout(i, t) \/ Complete(i, t)
             \/ \E o \in Op : RequestCancel(o, t)
             \/ Scheduled(t)
      PROVE  Sound(store', store, clock) /\ clock' \in Nat /\ clock <= clock'
  <2>1. t \in Nat /\ t <= clock
    BY DEF CallTimes
  <2>2. ASSUME NEW r \in Request, NEW i \in Invocation, Begin(r, i, t)
        PROVE  Sound(store', store, t) /\ clock' = clock
    <3>1. PICK deadline \in t .. t + Lifetime :
            store' = begin(store, r, i, deadline, t).store /\ clock' = clock
      BY <2>2 DEF Begin, Commit
    <3>2. deadline \in Nat
      BY <2>1, StoreBounds
    <3> QED BY <2>1, <3>1, <3>2, BeginIsSound
  <2>3. ASSUME NEW i \in Invocation, RecordInvocationTimeout(i, t)
        PROVE  Sound(store', store, t) /\ clock' = clock
    BY <2>3, TimeoutIsSound DEF RecordInvocationTimeout, Commit
  <2>4. ASSUME NEW i \in Invocation, Complete(i, t)
        PROVE  Sound(store', store, t) /\ clock' = clock
    <3>1. PICK status \in {"succeeded", "failed"}, stored \in BOOLEAN :
            /\ Known(store, opOf(i)) /\ (stored => status = "succeeded") /\ clock' = clock
            /\ store' = complete(store, opOf(i), i, status, stored).store
      BY <2>4 DEF Complete, Commit
    <3> QED BY <3>1, CompleteIsSound
  <2>5. ASSUME NEW o \in Op, RequestCancel(o, t)
        PROVE  Sound(store', store, t) /\ clock' = clock
    BY <2>5, CancelIsSound DEF RequestCancel, Commit
  <2>6. ASSUME Scheduled(t)
        PROVE  Sound(store', store, t) /\ clock' = clock
    BY <2>1, <2>6, WatchdogIsSound DEF Scheduled, Commit
  <2>7. Sound(store', store, t) /\ clock' = clock
    BY <1>2, <2>2, <2>3, <2>4, <2>5, <2>6
  <2> QED BY <2>1, <2>7, LaterIsSound
<1>3. CASE Alarm
  <2>1. (store' = watchdog(store, clock) \/ store' = store) /\ clock' = clock
    BY <1>3 DEF Alarm, Commit
  <2> QED BY <2>1, WatchdogIsSound, UnchangedIsSound
<1>4. CASE Tick
  BY <1>4, UnchangedIsSound DEF Tick
<1> QED BY <1>1, <1>2, <1>3, <1>4 DEF Next

\* The invariant of the object is inductive.
THEOREM ExecutorInvariance == Spec => []ExecutorInv
<1>1. Init => ExecutorInv
  <2> SUFFICES ASSUME Init PROVE ExecutorInv
    OBVIOUS
  <2>1. store = EmptyStore /\ clock \in Nat
    BY DEF Init
  <2>2. \A o \in Op : store.op[o].status = "none"
    BY <2>1 DEF EmptyStore, NoOperation
  <2>3. store \in Store
    BY <2>1 DEF EmptyStore, Store
  <2>4. LanesInOrder(store) /\ OutcomesTrue(store) /\ PatientWatchdog
    BY <2>1, <2>2, NoneAssumption
       DEF EmptyStore, LanesInOrder, OutcomesTrue, PatientWatchdog, holdsExecutionLane
  <2>5. store.active = {} /\ store.queue = {}
    BY <2>1 DEF EmptyStore
  <2>6. WithinBound(store)
    BY <2>5, FS_EmptySet, StoreBounds DEF WithinBound
  <2> QED BY <2>1, <2>3, <2>4, <2>6 DEF ExecutorInv, StoreInv
<1>2. ExecutorInv /\ [Next]_vars => ExecutorInv'
  <2> SUFFICES ASSUME ExecutorInv, [Next]_vars PROVE ExecutorInv'
    OBVIOUS
  <2>1. Sound(store', store, clock) /\ clock \in Nat /\ clock' \in Nat /\ clock <= clock' /\ PatientWatchdog
    BY StepIsSound DEF ExecutorInv
  <2>2. StoreInv(store')
    BY <2>1 DEF Sound
  <2>3. ASSUME NEW o \in Op, store'.op[o].status = "needs_reconciliation"
        PROVE  clock' >= store'.op[o].deadline + Lifetime
    <3>1. clock >= store'.op[o].deadline + Lifetime
      BY <2>1, <2>3 DEF Sound, PatientWatchdog
    <3>2. store'.op[o].deadline \in Nat /\ Lifetime \in Nat
      BY <2>2, <2>3, KnownRecord, StoreBounds DEF StoreInv, Known
    <3>3. \A a, b, c, d \in Nat : a <= b /\ a >= c + d => b >= c + d
      OBVIOUS
    <3> QED BY ONLY <2>1, <3>1, <3>2, <3>3
  <2> QED BY <2>1, <2>2, <2>3 DEF ExecutorInv, PatientWatchdog
<1> QED BY <1>1, <1>2, PTL DEF Spec

\* Two exclusive operations of one lane never run at once, no operation is
\* forgotten in an index or behind a finished one, and the two indexes stay
\* within their bound, although lanes change hands in complete, in the watchdog
\* and when a client comes back.
THEOREM LanesStayOrderly == Spec => []LaneDiscipline
<1>1. ExecutorInv => LaneDiscipline
  <2> SUFFICES ASSUME ExecutorInv PROVE LaneDiscipline
    OBVIOUS
  <2>1. store \in Store /\ LanesInOrder(store) /\ WithinBound(store)
    BY DEF ExecutorInv, StoreInv
  <2>2. \A o \in Op : Holds(o) => o \in store.active
    BY <2>1 DEF LanesInOrder, Holds
  <2>3. LaneExclusive
    <3>1. \A o \in Op : Holds(o) /\ store.op[o].req.exclusive => store.lane[store.op[o].req.lane] = o
      BY <2>1, <2>2, Runner
    <3> QED BY ONLY <3>1 DEF LaneExclusive
  <2>4. ASSUME NEW o \in Op, store.op[o].status = "queued"
        PROVE  /\ o \in store.queue
               /\ \E p \in store.active : /\ Holds(p) /\ store.op[p].req.exclusive
                                          /\ store.op[p].req.lane = store.op[o].req.lane
    <3>1. o \in store.queue
      BY <2>1, <2>4 DEF LanesInOrder
    <3>2. store.op[o].req.lane \in Lane
      BY <2>1, <3>1, Waiter
    <3>3. PICK p \in store.active : p = store.lane[store.op[o].req.lane]
      BY <2>1, <3>1, Waiter
    <3>4. p \in Op /\ Holds(p)
      BY <2>1, Runner DEF Holds
    <3>5. store.op[p].req.exclusive /\ store.op[p].req.lane = store.op[o].req.lane
      <4> DEFINE l == store.op[o].req.lane
      <4>1. l \in Lane /\ p \in Op /\ p = store.lane[l] /\ store \in Store /\ LanesInOrder(store)
        BY <2>1, <3>2, <3>3, <3>4
      <4> HIDE DEF l
      <4>2. store.op[p].req.exclusive /\ store.op[p].req.lane = l
        <5>1. ExclusiveOf(store, p, l)
          BY ONLY <4>1, Holder
        <5> QED BY ONLY <5>1 DEF ExclusiveOf
      <4> QED BY <4>2 DEF l
    <3> QED BY <3>1, <3>4, <3>5
  <2>5. Bounded
    BY <2>1 DEF Bounded, WithinBound
  <2> QED BY <2>2, <2>3, <2>4, <2>5 DEF LaneDiscipline, NothingForgotten
<1> QED BY <1>1, ExecutorInvariance, PTL

\* What clients are told is so: a reported success or failure is the status the
\* operation has, a stored result belongs to a success, and an operation is
\* given up only a whole lifetime after its deadline.
THEOREM AnswersStayTrue == Spec => []AnswersAgree
<1>1. ExecutorInv => AnswersAgree
  BY DEF ExecutorInv, StoreInv, OutcomesTrue, AnswersAgree, OutcomesAgree
<1> QED BY <1>1, ExecutorInvariance, PTL

\* The record of a finished operation never changes again, whichever call,
\* alarm or cron trigger comes after.
THEOREM FinishedStaysFinished == Spec => TerminalIsFinal
<1> DEFINE Kept == \A o \in Op : store.op[o].status \in Terminal => store'.op[o] = store.op[o]
<1>1. ExecutorInv /\ [Next]_vars => [Kept]_vars
  BY StepIsSound DEF ExecutorInv, Sound
<1> QED BY <1>1, ExecutorInvariance, PTL DEF Spec, TerminalIsFinal
=============================================================================
