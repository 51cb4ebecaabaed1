--------------------------- MODULE MCHubSchedules ---------------------------
(***************************************************************************)
(* Two durable objects of the hub that keep other work going and share     *)
(* nothing: a behaviour is one of the lanes of the security executor or    *)
(* one of the sync planner's container, while the other rests.             *)
(***************************************************************************)
EXTENDS ExecutorOperations, SyncContainer, TLC

CONSTANTS i1, i2, i3

\* Three operations of one lane, with one client each.
LaneRequests ==
    {[op |-> o, lane |-> "a", exclusive |-> TRUE, fingerprint |-> "f"] : o \in 1..3}

InvokedOp(i) == IF i = i1 THEN 1 ELSE IF i = i2 THEN 2 ELSE 3

VARIABLE part   \* which of the two this behaviour exercises

SchedulesInit == Init /\ PlannerInit /\ part \in {"lanes", "planner"}

\* The planner always has a next step; a lane may have no more to do.
SchedulesNext ==
    \/ part = "lanes" /\ (Next \/ UNCHANGED vars) /\ UNCHANGED <<plannerVars, part>>
    \/ part = "planner" /\ PlannerNext /\ UNCHANGED <<vars, part>>

SchedulesSpec == SchedulesInit /\ [][SchedulesNext]_<<vars, plannerVars, part>>

\* The slots of the onStop calls are interchangeable.
CallSymmetry == Permutations(Call)
=============================================================================
