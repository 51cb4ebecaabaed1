--------------------------- MODULE MCSecretLaunch ---------------------------
(***************************************************************************)
(* The secret launch in one run: a behaviour is one of the generator, of   *)
(* the supervisors and their containers, or of a session in time; the      *)
(* other parts rest.                                                       *)
(***************************************************************************)
EXTENDS LaunchSupervisor, SecretHelper, ComposeGen

VARIABLE part   \* which of the three this behaviour exercises

mcVars == <<launchVars, renewing, helperVars, genVars, part>>

\* Service 1 runs in both generations; service 3, which needs it, is new.
MCServicesOf == [g \in 1 .. 2 |-> IF g = 1 THEN {1} ELSE {1, 3}]
MCDependsOn == [s \in {1, 3} |-> IF s = 3 THEN {1} ELSE {}]

HelperRests == sender.mine /\ expires > MaxClock /\ timeout = MaxHeartbeatTimeout

GenRests ==
    /\ compose = [s \in Services |-> [env |-> <<>>, needs |-> {}]]
    /\ options = [selected |-> Services, secrets |-> {}, pubkey |-> FALSE]
    /\ outcome = "none" /\ launch = <<>>

Init ==
    /\ LaunchInit /\ HelperInit
    /\ \/ part = "supervisor" /\ HelperRests /\ GenRests
       \/ part = "session" /\ renewing = {} /\ GenRests
       \/ part = "generator" /\ renewing = {} /\ HelperRests /\ GenInit

Next ==
    /\ UNCHANGED <<part, renewing>>
    /\ \/ part = "supervisor" /\ LaunchNext /\ UNCHANGED <<helperVars, genVars>>
       \/ part = "session" /\ HelperNext /\ UNCHANGED <<launchVars, genVars>>
       \/ part = "generator" /\ GenNext /\ UNCHANGED <<launchVars, helperVars>>

Spec == Init /\ [][Next]_mcVars /\ LaunchFairness
=============================================================================
