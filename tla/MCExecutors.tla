---------------------------- MODULE MCExecutors ----------------------------
(***************************************************************************)
(* What the two executors accepted comes to an end through their alarms    *)
(* alone.  They share nothing: a behaviour is one of the security executor *)
(* with several clients of one operation, or one of the provider executor  *)
(* on the coordinator's route, while the other rests.                      *)
(***************************************************************************)
EXTENDS ExecutorOperations

CONSTANTS i1, j1, i2, a, b, t1, Handler

\* Two operations of one lane; two clients ask for the first.  The second is
\* also asked for with another fingerprint, as one that needs no lane.
ClientRequests ==
    {[op |-> o, lane |-> "a", exclusive |-> TRUE, fingerprint |-> "f"] : o \in 1..2}
      \cup {[op |-> 2, lane |-> "a", exclusive |-> FALSE, fingerprint |-> "g"]}

InvokedOp(i) == IF i = i2 THEN 2 ELSE 1

\* The capabilities only the coordinator serves; a second request reuses an id.
CoordinatorRequest(o, capability, deadline) ==
    [id |-> o, target |-> t1, capability |-> capability, deadline |-> deadline,
     source |-> [gen |-> "g", version |-> 1]]

CoordinatorRequests ==
    {CoordinatorRequest(a, "enforced_exclusive", 2), CoordinatorRequest(b, "native_cas", 2),
     CoordinatorRequest(b, "blocked", 1)}

VARIABLES executor,       \* which of the two this behaviour exercises
          provStore, provClock, provAlarm, hand, target, label, envelope, seen, cleaning

provVars == <<provStore, provClock, provAlarm, hand, target, label, envelope, seen, cleaning>>

Coordinator == INSTANCE ProviderExecutor
               WITH store <- provStore, clock <- provClock, alarm <- provAlarm,
                    Request <- CoordinatorRequests, Invocation <- {1, 2},
                    Nonce <- {"n1"}, Route <- {"coordinator"}, MaxTime <- 2

ASSUME CoordinatorConstants == Coordinator!ExecutorConstants

Either(security, provider) ==
    \/ executor = "security" /\ security /\ UNCHANGED <<provVars, executor>>
    \/ executor = "provider" /\ provider /\ UNCHANGED <<vars, executor>>

ExecutorsInit == Init /\ Coordinator!Init /\ executor \in {"provider", "security"}

\* As FairSpec of either module asks: time passes and due alarms are delivered.
ExecutorsSpec ==
    /\ ExecutorsInit
    /\ [][Either(Next, Coordinator!Next)]_<<vars, provVars, executor>>
    /\ WF_<<vars, provVars>>(Either(Tick, Coordinator!Tick))
    /\ WF_<<vars, provVars>>(Either(Alarm, Coordinator!Alarm))

\* On the way there, what clients are told is so (AnswersAgree), and two writes
\* of one target race only where the owner ruled.
ExecutorsAgree == AnswersAgree /\ Coordinator!WritesDoNotRace

\* Again and again, nothing either executor accepted is left open: operations
\* have ended or, at the provider executor, wait for the owner.
AcceptedEnds == OperationsEnd /\ Coordinator!OperationsRest
=============================================================================
