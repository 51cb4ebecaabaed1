-------------------------- MODULE LaunchSupervisor --------------------------
(***************************************************************************)
(* The compose supervisor of internal/secretlaunch and the programs around *)
(* it: skret-manifest-signer renews the manifest file, skret-compose-      *)
(* supervisor reconciles the containers of a launch with it, and in every  *)
(* container skret-secret-helper waits for its keys.  Two supervisor       *)
(* processes may run at once (an old deployment beside its successor).     *)
(* Docker is external: it keeps containers by name, and any call may fail. *)
(***************************************************************************)
EXTENDS LaunchManifest, Functions

CONSTANTS Procs,           \* supervisor processes
          Windows,         \* the --ttl values signers run with
          MaxTime,         \* the clock stops here
          MaxContainers,   \* containers ever created
          MaxStarts,       \* starts of each supervisor process
          MaxFaults        \* failed calls, crashes and child exits

VARIABLES now,         \* the clock every process reads
          template,    \* the signed manifest the signer renews
          file,        \* the published manifest
          signers,     \* manifests signed and not yet published
          containers,  \* docker: id -> container
          created,     \* docker ids handed out
          sup,         \* supervisor process -> its state
          faults,      \* failures that may still happen
          renewing     \* the --ttl of the signers beside the supervisors

launchVars == <<now, template, file, signers, containers, created, sup, faults>>

Generations == DOMAIN ServicesOf
NoLaunch == [gen |-> 0, issued |-> 0, expires |-> 0]
Off == [pc |-> "off", m |-> NoLaunch, stale |-> {}, pending |-> <<>>, id |-> 0,
        sessions |-> {}, starts |-> 0]

\* What an earlier launch left behind: the ownership labels and no service.
Orphan(labels) ==
    [name |-> 0, labels |-> labels, running |-> TRUE, healthy |-> FALSE,
     helper |-> "foreign", m |-> NoLaunch, key |-> NoLaunch.gen]

FirstManifest(g, t) == [gen |-> g, issued |-> t, expires |-> t + MaxManifestTTL]

LaunchInit ==
    /\ now = 1 /\ signers = {}
    /\ template = FirstManifest(1, 1) /\ file = template
    \* Either every process runs, on manifests as deployed and with no failure,
    \* or one of them meets failures and renewals, or one of them launches once
    \* beside signer runs that overlap.
    /\ LET alone == CHOOSE p \in Procs : TRUE
           left(p, n) == sup = [q \in Procs |-> [Off EXCEPT !.starts =
                                     MaxStarts - (IF q \in p THEN n ELSE 0)]]
       IN \/ left(Procs, 1) /\ created = 1 /\ faults = 0 /\ renewing = {}
          \/ left({alone}, MaxStarts) /\ created = 1 /\ faults = MaxFaults /\ renewing = {MaxManifestTTL}
          \/ left({alone}, 1) /\ created = MaxContainers - 1 /\ faults = 0 /\ renewing = Windows
    /\ containers = (created :> Orphan(OwnershipLabels(template)))

-----------------------------------------------------------------------------
(* The clock, the operator and the signer.                                 *)

Tick ==
    /\ now < MaxTime
    /\ now' = now + 1
    /\ UNCHANGED <<template, file, signers, containers, created, sup, faults>>

\* A new deployment replaces the template and publishes its first manifest.
Deploy ==
    /\ template.gen + 1 \in Generations
    /\ template' = FirstManifest(template.gen + 1, now)
    /\ file' = template'
    /\ UNCHANGED <<now, signers, containers, created, sup, faults>>

\* Faulty variant: the signer renews its own output.
Sign_own ==
    /\ Cardinality(signers) < Cardinality(renewing)
    /\ \E ttl \in renewing :
        /\ MayRenew(file, now, ttl)
        /\ signers' = signers \cup {RenewManifest(file, now, ttl)}
    /\ UNCHANGED <<now, template, file, containers, created, sup, faults>>

\* skret-manifest-signer, up to the verified result.  The output file is
\* never the template (refuseSelfRenewal).
Sign ==
    /\ Cardinality(signers) < Cardinality(renewing)
    /\ \E ttl \in renewing :
        /\ MayRenew(template, now, ttl)
        /\ signers' = signers \cup {RenewManifest(template, now, ttl)}
    /\ UNCHANGED <<now, template, file, containers, created, sup, faults>>

\* WriteFileAtomic of the result: runs may publish in any order.
Publish ==
    /\ \E m \in signers : file' = m /\ signers' = signers \ {m}
    /\ UNCHANGED <<now, template, containers, created, sup, faults>>

-----------------------------------------------------------------------------
(* The supervisor process.                                                 *)

Fault == faults > 0 /\ faults' = faults - 1

\* Run returns: its deferred Close closes every session.
Ended(s) == [Off EXCEPT !.starts = s.starts]

\* Faulty variant: the sessions stay open.
End_open(p) == sup' = [sup EXCEPT ![p] = [Ended(@) EXCEPT !.sessions = sup[p].sessions]]

End(p) == sup' = [sup EXCEPT ![p] = Ended(@)]

Without(ids) == Restrict(containers, DOMAIN containers \ ids)

\* main: the published manifest must verify; Run starts with it.
Start(p) ==
    /\ sup[p].pc = "off" /\ sup[p].starts < MaxStarts
    /\ ValidateAt(file, now)
    /\ sup' = [sup EXCEPT ![p] = [Off EXCEPT !.pc = "scavenge", !.m = file,
                                             !.starts = sup[p].starts + 1]]
    /\ UNCHANGED <<now, template, file, signers, containers, created, faults>>

\* ScavengeOrphans: containers with exactly the ownership labels go.
Scavenge(p) ==
    /\ sup[p].pc = "scavenge"
    /\ LET orphans == {c \in DOMAIN containers :
                          ExactLabels(containers[c].labels, OwnershipLabels(sup[p].m))}
       IN /\ containers' = Without(orphans)
          /\ sup' = [sup EXCEPT ![p].pc = "plan", ![p].sessions = @ \ orphans]
    /\ UNCHANGED <<now, template, file, signers, created, faults>>

\* Reconcile on an expired manifest, or on services without an order.
Refuse(p) ==
    /\ sup[p].pc = "plan"
    /\ \/ ~ ValidateAt(sup[p].m, now)
       \/ ~ LaunchOrder[sup[p].m.gen].ok
    /\ End(p)
    /\ UNCHANGED <<now, template, file, signers, containers, created, faults>>

\* The containers that run, or used to run, a desired service.
Matches(m, service) ==
    {c \in DOMAIN containers :
        LET labels == containers[c].labels
        IN /\ containers[c].name = service
           /\ \/ currentOwnedGeneration(labels, m, service)
              \/ olderOwnedGeneration(labels, service, m.gen)}

\* Containers of this launch that no service of the model accounts for.
StaleOwned(m) ==
    {c \in DOMAIN containers :
        LET labels == containers[c].labels
        IN /\ ownedGenerationInScope(labels, m.gen)
           /\ \/ labels.service \notin ServicesOf[m.gen]
              \/ containers[c].name # labels.service}

\* The State that docker ps prints for a container.
PsState(c) ==
    CASE containers[c].running         -> "running"
      [] containers[c].helper = "none" -> "created"
      [] OTHER                         -> "exited"

\* DockerRuntime.List takes a container for running when its State begins with
\* "up", which none of docker's states does (Inspect reads State.Running).
ListedRunning(c) == PsState(c) = "up"

\* A container that Reconcile leaves alone; with ListedRunning there is none,
\* and every reconcile replaces the containers of its own launch.
Reusable(p, service) ==
    LET found == Matches(sup[p].m, service)
    IN /\ Cardinality(found) = 1
       /\ \A c \in found : /\ ListedRunning(c) /\ c \in sup[p].sessions
                           /\ containers[c].running /\ containers[c].healthy
                           /\ currentOwnedGeneration(containers[c].labels, sup[p].m, service)

\* The next call Reconcile makes: it removes what is stale, then for each
\* pending service removes what it replaces, checks and launches it.
Onward(s) ==
    [s EXCEPT !.pc = CASE s.stale # {} -> "sweep"
                       [] s.stale = {} /\ s.pending = <<>> -> "idle"
                       [] s.stale = {} /\ s.pending # <<>> /\ Head(s.pending).old # {} -> "drop"
                       [] OTHER -> "check"]

\* Reconcile up to its first change: the plan, with every pending secret fetched.
Plan(p) ==
    /\ sup[p].pc = "plan"
    /\ ValidateAt(sup[p].m, now)
    /\ LET m == sup[p].m
           order == LaunchOrder[m.gen]
           Pending(s) == ~ Reusable(p, s)
           todo == SelectSeq(order.ordered, Pending)
       IN /\ order.ok
          /\ sup' = [sup EXCEPT ![p] = Onward([@ EXCEPT
                        !.stale = StaleOwned(m),
                        !.pending = [i \in DOMAIN todo |->
                            [service |-> todo[i], old |-> Matches(m, todo[i])]]])]
    /\ UNCHANGED <<now, template, file, signers, containers, created, faults>>

\* A List, Render or Fetch fails: Run ends and nothing was removed.
PlanFails(p) ==
    /\ sup[p].pc \in {"scavenge", "plan", "check"}
    /\ Fault /\ End(p)
    /\ UNCHANGED <<now, template, file, signers, containers, created>>

\* One stale container: its session is closed, then it is removed.
Sweep(p) ==
    /\ sup[p].pc = "sweep"
    /\ \E c \in sup[p].stale :
        /\ containers' = Without({c})
        /\ sup' = [sup EXCEPT ![p] = Onward([@ EXCEPT !.stale = @ \ {c}, !.sessions = @ \ {c}])]
    /\ UNCHANGED <<now, template, file, signers, created, faults>>

\* One container the pending service replaces.
Drop(p) ==
    /\ sup[p].pc = "drop"
    /\ \E c \in Head(sup[p].pending).old :
        /\ containers' = Without({c})
        /\ sup' = [sup EXCEPT ![p] = Onward([@ EXCEPT !.pending[1].old = @ \ {c},
                                                      !.sessions = @ \ {c}])]
    /\ UNCHANGED <<now, template, file, signers, created, faults>>

\* docker rm failed (or found nothing): the session is closed all the same.
RemoveFails(p) ==
    /\ sup[p].pc \in {"sweep", "drop"}
    /\ \/ Fault
       \/ /\ ~ (IF sup[p].pc = "sweep" THEN sup[p].stale ELSE Head(sup[p].pending).old)
                \subseteq DOMAIN containers
          /\ UNCHANGED faults
    /\ End(p)
    /\ UNCHANGED <<now, template, file, signers, containers, created>>

\* checkDependencies: each is there under this launch, running and healthy.
DependencyReady(m, service) ==
    LET found == {c \in DOMAIN containers :
                     /\ containers[c].name = service
                     /\ currentOwnedGeneration(containers[c].labels, m, service)}
    IN found # {} /\ \A c \in found : containers[c].running /\ containers[c].healthy

CheckDependencies(p) ==
    /\ sup[p].pc = "check"
    /\ IF \A d \in DependsOn[Head(sup[p].pending).service] : DependencyReady(sup[p].m, d)
       THEN sup' = [sup EXCEPT ![p].pc = "create"]
       ELSE End(p)
    /\ UNCHANGED <<now, template, file, signers, containers, created, faults>>

NameTaken(service) == \E c \in DOMAIN containers : containers[c].name = service

Create(p) ==
    /\ sup[p].pc = "create" /\ created < MaxContainers
    /\ LET service == Head(sup[p].pending).service
           id == created + 1
       IN /\ ~ NameTaken(service)
          /\ containers' = (id :> [name |-> service, labels |-> LaunchLabels(sup[p].m, service),
                                   running |-> FALSE, healthy |-> FALSE, helper |-> "none",
                                   m |-> NoLaunch, key |-> NoLaunch.gen]) @@ containers
          /\ created' = id
          /\ sup' = [sup EXCEPT ![p].pc = "start", ![p].id = id]
    /\ UNCHANGED <<now, template, file, signers, faults>>

\* docker create fails: the name is taken, or the daemon refused.
CreateFails(p) ==
    /\ sup[p].pc = "create"
    /\ \/ NameTaken(Head(sup[p].pending).service) /\ UNCHANGED faults
       \/ created = MaxContainers /\ UNCHANGED faults
       \/ Fault
    /\ End(p)
    /\ UNCHANGED <<now, template, file, signers, containers, created>>

\* docker attach and docker start: the helper begins to read its manifest.
StartContainer(p) ==
    /\ sup[p].pc = "start" /\ sup[p].id \in DOMAIN containers
    /\ containers' = [containers EXCEPT ![sup[p].id].running = TRUE, ![sup[p].id].helper = "boot"]
    /\ sup' = [sup EXCEPT ![p].pc = "send"]
    /\ UNCHANGED <<now, template, file, signers, created, faults>>

\* SendEnvelope: the helper's handshake is there; every key and the first
\* heartbeat are written and the session is tracked.  Nothing confirms that
\* the helper could open them.
Send(p) ==
    LET id == sup[p].id
    IN /\ sup[p].pc = "send" /\ id \in DOMAIN containers /\ containers[id].helper = "ready"
       /\ containers' = [containers EXCEPT ![id].helper = "keyed",
                                           ![id].key = AuthorityDigest(sup[p].m)]
       /\ sup' = [sup EXCEPT ![p] = Onward([@ EXCEPT !.sessions = @ \cup {id},
                                                     !.pending = Tail(@), !.id = 0])]
       /\ UNCHANGED <<now, template, file, signers, created, faults>>

\* Attach, start or send fails: the container is removed if docker lets it be.
LaunchFails(p) ==
    LET id == sup[p].id
    IN /\ sup[p].pc \in {"start", "send"}
       /\ \/ Fault
          \/ /\ id \in DOMAIN containers => sup[p].pc = "send" /\ containers[id].helper = "gone"
             /\ UNCHANGED faults
       /\ \/ containers' = Without({id})
          \/ faults' < faults /\ UNCHANGED containers
       /\ End(p)
       /\ UNCHANGED <<now, template, file, signers, created>>

\* A docker command, a fetch or the wait for a handshake never returns; none of
\* them has a time limit.  The heartbeats of the open sessions go on.
CallHangs(p) ==
    /\ sup[p].pc \notin {"off", "idle", "hung"} /\ Fault
    /\ sup' = [sup EXCEPT ![p].pc = "hung"]
    /\ UNCHANGED <<now, template, file, signers, containers, created>>

\* The ticker of Run: refreshManifest, then the next reconcile.
Refresh(p) ==
    /\ sup[p].pc = "idle"
    /\ sup' = [sup EXCEPT ![p].pc = "scavenge",
                          ![p].m = IF AcceptRenewal(@, file, now) THEN file ELSE @]
    /\ UNCHANGED <<now, template, file, signers, containers, created, faults>>

\* A heartbeat cannot be written: the stream is closed and no longer counts.
HeartbeatFails(p) ==
    /\ \E c \in sup[p].sessions :
        /\ c \in DOMAIN containers => containers[c].helper = "gone"
        /\ sup' = [sup EXCEPT ![p].sessions = @ \ {c}]
    /\ UNCHANGED <<now, template, file, signers, containers, created, faults>>

\* The context is cancelled.  run takes every signal for a request to stop
\* (NotifyContext without a list), the SIGCHLD of a finished docker command
\* included; before the first of them, or while one hangs, it takes a signal
\* from outside.
Stop(p) ==
    /\ sup[p].pc # "off"
    /\ \/ sup[p].pc \in {"scavenge", "hung"} /\ Fault
       \/ sup[p].pc \notin {"scavenge", "hung"} /\ UNCHANGED faults
    /\ End(p)
    /\ UNCHANGED <<now, template, file, signers, containers, created>>

-----------------------------------------------------------------------------
(* The helper in a container, and docker's health probe.                   *)

Open(c) ==
    \E p \in Procs : \/ c \in sup[p].sessions
                     \/ sup[p].pc \in {"start", "send"} /\ sup[p].id = c

Gone(k) == [k EXCEPT !.helper = "gone", !.running = FALSE, !.healthy = FALSE,
                     !.m = NoLaunch, !.key = NoLaunch.gen]

\* main of the helper: the mounted manifest must verify now.
HelperBoot(c) ==
    /\ containers[c].helper = "boot"
    /\ containers' = [containers EXCEPT ![c] =
           IF ValidateAt(file, now) THEN [@ EXCEPT !.helper = "ready", !.m = file] ELSE Gone(@)]
    /\ UNCHANGED <<now, template, file, signers, created, sup, faults>>

\* Helper.Run: the frames open only under the same authority, and the window
\* is checked once more before the child starts.
HelperRun(c) ==
    /\ containers[c].helper = "keyed"
    /\ containers' = [containers EXCEPT ![c] =
           IF AuthorityDigest(@.m) = @.key /\ ValidateAt(@.m, now)
           THEN [@ EXCEPT !.helper = "child", !.m = NoLaunch, !.key = NoLaunch.gen] ELSE Gone(@)]
    /\ UNCHANGED <<now, template, file, signers, created, sup, faults>>

\* The stream ends: the helper kills its child and exits.
HelperEOF(c) ==
    /\ containers[c].helper \in {"boot", "ready", "keyed", "child"} /\ ~ Open(c)
    /\ containers' = [containers EXCEPT ![c] = Gone(@)]
    /\ UNCHANGED <<now, template, file, signers, created, sup, faults>>

Probe(c) ==
    /\ containers[c].helper = "child" /\ ~ containers[c].healthy
    /\ containers' = [containers EXCEPT ![c].healthy = TRUE]
    /\ UNCHANGED <<now, template, file, signers, created, sup, faults>>

ChildExits(c) ==
    /\ containers[c].helper = "child" /\ Fault
    /\ containers' = [containers EXCEPT ![c] = Gone(@)]
    /\ UNCHANGED <<now, template, file, signers, created, sup>>

Progress(p) ==
    \/ Scavenge(p) \/ Refuse(p) \/ Plan(p) \/ Sweep(p) \/ Drop(p) \/ CheckDependencies(p)
    \/ Create(p) \/ CreateFails(p) \/ StartContainer(p) \/ Send(p)
    \/ LaunchFails(p) \/ Refresh(p)

Helper(c) == HelperBoot(c) \/ HelperRun(c) \/ HelperEOF(c)

LaunchNext ==
    \/ Tick \/ Deploy \/ Sign \/ Publish
    \/ \E p \in Procs : \/ Start(p) \/ Progress(p) \/ PlanFails(p) \/ RemoveFails(p)
                        \/ HeartbeatFails(p) \/ CallHangs(p) \/ Stop(p)
    \/ \E c \in DOMAIN containers : Helper(c) \/ Probe(c) \/ ChildExits(c)

\* When a supervisor has a step of its own: always, save in a call that never
\* returns and while SendEnvelope waits for a handshake.
Able(p) ==
    /\ sup[p].pc \notin {"off", "hung"}
    /\ sup[p].pc = "send" /\ sup[p].id \in DOMAIN containers
       => containers[sup[p].id].helper \in {"ready", "gone"}

\* The clock runs, a supervisor goes on from every call that returns (weak
\* fairness, with its enabling condition spelled out; a call that does not is
\* CallHangs), a helper reacts to its stream.
LaunchFairness ==
    /\ WF_launchVars(Tick)
    /\ \A p \in Procs : []<>(~ Able(p)) \/ []<><<Progress(p)>>_launchVars
    /\ \A c \in 1 .. MaxContainers : WF_launchVars(c \in DOMAIN containers /\ Helper(c))

-----------------------------------------------------------------------------
\* A supervisor removes nothing of a newer generation: when an old deployment
\* and its successor run side by side, the old one's ScavengeOrphans and
\* Reconcile leave the successor's containers alone.
NewerGenerationKept ==
    [][\A c \in DOMAIN containers \ DOMAIN containers' :
          \E p \in Procs : /\ sup'[p] # sup[p]
                           /\ containers[c].labels.generation <= sup[p].m.gen]_launchVars

\* However often the signer renews, and in whatever order its runs publish, no
\* manifest in force outlives the template's age limit and one window:
\* RenewSignedManifest ages the template, not its output.
AgeIsBounded ==
    \A m \in {file} \cup signers \cup {sup[p].m : p \in {q \in Procs : sup[q].pc # "off"}} :
        m.gen = template.gen => m.expires <= template.issued + MaxAge + MaxManifestTTL

\* A late publication of an older or a shorter window, or of another
\* generation, takes nothing from a supervisor at work: from its start to its
\* end its authority stays and its window only moves forward.
WindowAdvances ==
    [][\A p \in Procs : sup[p].pc # "off" /\ sup'[p].pc # "off" =>
          /\ AuthorityDigest(sup'[p].m) = AuthorityDigest(sup[p].m)
          /\ sup'[p].m.expires >= sup[p].m.expires]_launchVars

\* What signers publish, in any order, bounds and never shortens the authority
\* of a supervisor.
AuthorityAges == []AgeIsBounded /\ WindowAdvances

\* Once the template can no longer be renewed and the last window is over, no
\* child goes on serving: Reconcile refuses, Run closes every session and each
\* helper ends with its stream.  The one exception is a child whose supervisor
\* sits in a call that never returns: its heartbeats go on.
FailsClosed ==
    now >= template.issued + MaxAge + MaxManifestTTL
        ~> \/ now < template.issued + MaxAge + MaxManifestTTL
           \/ \A c \in DOMAIN containers : containers[c].helper = "child" =>
                \E p \in Procs : sup[p].pc = "hung" /\ c \in sup[p].sessions

\* While no call fails and the manifest in force is renewed in time, a
\* supervisor goes on: "To keep a long-running supervisor alive, run
\* skret-manifest-signer" (cmd/skret-compose-gen/README.md).
SupervisorLives ==
    [][\A p \in Procs :
          /\ sup[p].pc \in {"idle", "plan"} /\ ValidateAt(sup[p].m, now) /\ faults' = faults
          => sup'[p].pc # "off"]_launchVars
=============================================================================
