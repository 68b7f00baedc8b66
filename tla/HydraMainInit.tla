---------------------------- MODULE HydraMainInit ----------------------------
(***************************************************************************)
(* The start of the process: HydraMainService.onModuleInit() brings up the *)
(* cardano-node container and its network while OgmiosClientService        *)
(* connects; a rejection ends the process, and docker starts it again on   *)
(* what was left half done. Requests, cron jobs and activations of heads   *)
(* come only once both have ended.                                         *)
(*                                                                         *)
(* An action ends at the answer of a call to docker; another process may   *)
(* act between two of them.                                                *)
(***************************************************************************)
EXTENDS OgmiosClient

CONSTANTS
    Boot,         \* the call of queryTip() in onModuleInit
    Main,         \* the task that ensures the network in onModuleInit
    Activations,  \* tasks that ensure it in activateHydraHead
    Modes         \* CARDANO_CONNECTION_MODE of the instance

Tasks == {Main} \cup Activations

ASSUME HydraMainAssumption ==
    /\ Boot \in Callers \ {Own} /\ Asks[Boot] = {} /\ Main \notin Activations
    /\ Modes \subseteq {"cardano-node", "blockfrost"}

VARIABLES
    mode,         \* CARDANO_CONNECTION_MODE
    named,        \* whether the container with the image has the service's name
    networks,     \* how many networks are called hydra-network: docker keeps it to one
    node,         \* the cardano-node container
    attached,     \* whether it is connected to hydra-network
    step,         \* the await onModuleInit is at
    found,        \* what listContainers() said of the container
    ensure,       \* ensure[t]: where task t is in ensureHydraNetwork()
    refresh,      \* whether the listing of updateHydraContainerStatus is under way
    activeNodes,  \* the cache: entries "with heads", "without heads", or "none"
    swallowed,    \* history: ensureCardanoNodeNetworkConnection caught an error
    crashes       \* history: exits of the process, when the container is named

docker  == <<networks, node, attached>>
booting == <<step, found, swallowed>>
cache   == <<refresh, activeNodes>>
setting == <<mode, named>>
mainVars == <<setting, docker, booting, ensure, cache, crashes>>
vars == <<ogmiosVars, mainVars>>

\* HTTP is served, crons run.
Up == step = "ready" /\ pc[Own] \in Resting

Awaiting == {"list", "inspect", "connect", "restart", "create", "start", "exec"}

NoTask == [t \in Tasks |-> "idle"]

FirstStep == IF mode = "cardano-node" THEN "list" ELSE "ready"

MainInit ==
    /\ Init
    /\ mode \in Modes
    /\ node \in {"absent", "stopped", "running"}
    /\ named \in BOOLEAN /\ (node = "absent" => named)
    /\ networks \in {0, 1}
    /\ attached \in BOOLEAN /\ (attached => networks = 1 /\ node # "absent")
    /\ step = FirstStep /\ found = "unknown" /\ ensure = NoTask
    /\ refresh = FALSE /\ activeNodes = "none"
    /\ swallowed = FALSE /\ crashes = 0

\* A rejected hook ends the process; restart: unless-stopped.
Crash ==
    /\ Exit
    /\ step' = FirstStep /\ found' = "unknown" /\ ensure' = NoTask
    /\ refresh' = FALSE /\ activeNodes' = "none"
    /\ swallowed' = FALSE
    /\ crashes' = IF named /\ mode = "cardano-node" THEN crashes + 1 ELSE crashes
    /\ UNCHANGED setting

------------------------------------------------------------------------------
(* ensureHydraNetwork(), of HydraMainService and of DockerService. *)

\* Mutated form of ListNetworks: the network is not recognised.
ListNetworks_OtherName(t) ==
    /\ ensure[t] = "listing"
    /\ ensure' = [ensure EXCEPT ![t] = "creating"]
    /\ UNCHANGED <<ogmiosVars, setting, docker, booting, cache, crashes>>

\* listNetworks() answers.
ListNetworks(t) ==
    /\ ensure[t] = "listing"
    /\ ensure' = [ensure EXCEPT ![t] = IF networks > 0 THEN "done" ELSE "creating"]
    /\ UNCHANGED <<ogmiosVars, setting, docker, booting, cache, crashes>>

\* createNetwork() with CheckDuplicate: it is docker that refuses a second network of
\* the name, and with it the caller who lost the race since its listing.
CreateNetwork(t) ==
    /\ ensure[t] = "creating"
    /\ \/ networks = 0 /\ networks' = 1 /\ ensure' = [ensure EXCEPT ![t] = "done"]
       \/ networks > 0 /\ UNCHANGED networks /\ ensure' = [ensure EXCEPT ![t] = "failed"]
    /\ UNCHANGED <<ogmiosVars, setting, node, attached, booting, cache, crashes>>

\* Mutated form of NetworkCallFails: the error is logged and not thrown.
NetworkCallFails_Swallowed(t) ==
    /\ ensure[t] \in {"listing", "creating"} /\ Mishap
    /\ ensure' = [ensure EXCEPT ![t] = "done"]
    /\ UNCHANGED <<fields, socket, calls, server, stopped, history,
                   setting, docker, booting, cache, crashes>>

NetworkCallFails(t) ==
    /\ ensure[t] \in {"listing", "creating"} /\ Mishap
    /\ ensure' = [ensure EXCEPT ![t] = "failed"]
    /\ UNCHANGED <<fields, socket, calls, server, stopped, history,
                   setting, docker, booting, cache, crashes>>

\* Activation of a head a: again after its last one ended.
Activate(a) ==
    /\ Up /\ ensure[a] \notin {"listing", "creating"}
    /\ ensure' = [ensure EXCEPT ![a] = "listing"]
    /\ UNCHANGED <<ogmiosVars, setting, docker, booting, cache, crashes>>

------------------------------------------------------------------------------
(* onModuleInit() of HydraMainService. *)

\* Mutated form of StartEnsuring: all tasks but this one are forgotten.
StartEnsuring_Alone == ensure' = [t \in {Main} |-> "listing"]

StartEnsuring == ensure' = [ensure EXCEPT ![Main] = "listing"]

\* Mutated form of ListContainers: any container that is found will do.
ListContainers_AnyState ==
    /\ step = "list"
    /\ found' = node
    /\ step' = IF node # "absent" THEN "attach" ELSE "ensure"
    /\ StartEnsuring
    /\ UNCHANGED <<ogmiosVars, setting, docker, swallowed, cache, crashes>>

ListContainers ==
    /\ step = "list"
    /\ found' = node
    /\ step' = IF node = "running" THEN "attach" ELSE "ensure"
    /\ StartEnsuring
    /\ UNCHANGED <<ogmiosVars, setting, docker, swallowed, cache, crashes>>

NetworkIsThere ==
    /\ step = "ensure" /\ ensure[Main] = "done"
    /\ step' = IF found = "absent" THEN "create" ELSE "inspect"
    /\ UNCHANGED <<ogmiosVars, setting, docker, found, swallowed, ensure, cache, crashes>>

NetworkIsNot ==
    /\ step = "ensure" /\ ensure[Main] = "failed"
    /\ Crash /\ UNCHANGED <<docker, mishaps>>

\* The stopped container is connected to the network unless it is, and restarted.
Inspect ==
    /\ step = "inspect"
    /\ step' = IF attached THEN "restart" ELSE "connect"
    /\ UNCHANGED <<ogmiosVars, setting, docker, found, swallowed, ensure, cache, crashes>>

Connect ==
    /\ step = "connect"
    /\ attached' = TRUE /\ step' = "restart"
    /\ UNCHANGED <<ogmiosVars, setting, networks, node, found, swallowed, ensure, cache, crashes>>

Restart ==
    /\ step = "restart"
    /\ node' = "running" /\ step' = "attach"
    /\ StartEnsuring
    /\ UNCHANGED <<ogmiosVars, setting, networks, attached, found, swallowed, cache, crashes>>

Create ==
    /\ step = "create"
    /\ node' = "stopped" /\ attached' = TRUE /\ step' = "start"
    /\ UNCHANGED <<ogmiosVars, setting, networks, found, swallowed, ensure, cache, crashes>>

\* The container that was not found is undefined still, and its Id is read.
Start ==
    /\ step = "start"
    /\ node' = "running"
    /\ Crash /\ UNCHANGED <<networks, attached, mishaps>>

\* Mutated form of Look: a running container is taken to be connected.
Look_Trusts ==
    /\ step = "attach" /\ ensure[Main] = "done"
    /\ step' = "exec"
    /\ UNCHANGED <<ogmiosVars, setting, docker, found, swallowed, ensure, cache, crashes>>

\* ensureCardanoNodeNetworkConnection(): inspect, and connect if need be. An error
\* is logged.
Look ==
    /\ step = "attach" /\ ensure[Main] = "done"
    /\ step' = IF attached THEN "exec" ELSE "link"
    /\ UNCHANGED <<ogmiosVars, setting, docker, found, swallowed, ensure, cache, crashes>>

Link ==
    /\ step = "link"
    /\ attached' = TRUE /\ step' = "exec"
    /\ UNCHANGED <<ogmiosVars, setting, networks, node, found, swallowed, ensure, cache, crashes>>

AttachFails ==
    /\ \/ step = "attach" /\ ensure[Main] = "failed" /\ UNCHANGED mishaps
       \/ step = "attach" /\ ensure[Main] = "done" /\ Mishap
       \/ step = "link" /\ Mishap
    /\ step' = "exec" /\ swallowed' = TRUE
    /\ UNCHANGED <<fields, socket, calls, server, stopped, history,
                   setting, docker, found, ensure, cache, crashes>>

\* cardano-cli runs in the container with the service's name. Then the nodes are
\* listed, which nobody waits for, and the tip is asked of Ogmios.
Exec ==
    /\ step = "exec" /\ node = "running" /\ named
    /\ step' = "tip" /\ refresh' = TRUE
    /\ Call(Boot, "tip")
    /\ UNCHANGED <<setting, docker, found, swallowed, ensure, activeNodes, crashes>>

ExecFails ==
    /\ step = "exec" /\ (node # "running" \/ ~named)
    /\ Crash /\ UNCHANGED <<docker, mishaps>>

\* Mutated form of TipEnds: the start waits for a tip.
TipEnds_NeedsTip ==
    /\ step = "tip" /\ pc[Boot] = "answered"
    /\ step' = "ready"
    /\ UNCHANGED <<ogmiosVars, setting, docker, found, swallowed, ensure, cache, crashes>>

\* queryTip() has ended, one way or another.
TipEnds ==
    /\ step = "tip" /\ pc[Boot] \in Resting
    /\ step' = "ready"
    /\ UNCHANGED <<ogmiosVars, setting, docker, found, swallowed, ensure, cache, crashes>>

\* A call to docker is refused where nothing catches it.
DockerFails ==
    /\ step \in Awaiting /\ Mishap
    /\ Crash /\ UNCHANGED docker

------------------------------------------------------------------------------
(* The cache of active nodes; docker; requests. *)

\* Mutated form of BootRefresh: the @Cron that is commented out is back.
BootRefresh_Cron ==
    /\ refresh
    /\ \/ activeNodes' = "without heads" /\ UNCHANGED mishaps
       \/ activeNodes' = "none" /\ Mishap
    /\ UNCHANGED <<fields, socket, calls, server, stopped, history,
                   setting, docker, booting, ensure, refresh, crashes>>

\* updateHydraContainerStatus() of HydraMainService labels its entries with a
\* party, which no reader of the cache knows.
BootRefresh ==
    /\ refresh /\ refresh' = FALSE
    /\ \/ activeNodes' = "without heads" /\ UNCHANGED mishaps
       \/ activeNodes' = "none" /\ Mishap
    /\ UNCHANGED <<fields, socket, calls, server, stopped, history,
                   setting, docker, booting, ensure, crashes>>

\* DockerService, every ten seconds.
CronRefresh ==
    /\ Up
    /\ \/ activeNodes' = "with heads" /\ UNCHANGED mishaps
       \/ activeNodes' = "none" /\ Mishap
    /\ UNCHANGED <<fields, socket, calls, server, stopped, history,
                   setting, docker, booting, ensure, refresh, crashes>>

NodeStops ==
    /\ node = "running" /\ Mishap
    /\ node' = "stopped"
    /\ UNCHANGED <<fields, socket, calls, server, stopped, history,
                   setting, networks, attached, booting, ensure, cache, crashes>>

\* By its restart policy, or by somebody.
NodeStarts ==
    /\ node = "stopped" /\ node' = "running"
    /\ UNCHANGED <<ogmiosVars, setting, networks, attached, booting, ensure, cache, crashes>>

Kill == Mishap /\ Crash /\ UNCHANGED docker

\* HydraMainService asks Ogmios only in the mode "cardano-node", the routes of
\* OgmiosController in either.
Request(i, k) ==
    /\ Up /\ k \in Asks[i]
    /\ (k # "health" /\ Call(i, k)) \/ (k = "health" /\ IsHealthy(i))
    /\ UNCHANGED mainVars

OgmiosStep ==
    /\ \/ \E i \in Callers : CallStep(i)
       \/ \E s \in Sockets : ErrorEvent(s) \/ CloseEvent(s) \/ Lose(s)
       \/ ServerStops \/ ServerStarts
    /\ UNCHANGED mainVars

------------------------------------------------------------------------------
BootStep ==
    \/ ListContainers \/ NetworkIsThere \/ NetworkIsNot
    \/ Inspect \/ Connect \/ Restart \/ Create \/ Start
    \/ Look \/ Link \/ AttachFails \/ Exec \/ ExecFails \/ TipEnds
    \/ DockerFails

EnsureStep(t) == ListNetworks(t) \/ CreateNetwork(t) \/ NetworkCallFails(t)

MainNext ==
    \/ BootStep
    \/ \E t \in Tasks : EnsureStep(t)
    \/ \E a \in Activations : Activate(a)
    \/ BootRefresh \/ CronRefresh
    \/ NodeStops \/ NodeStarts \/ Kill
    \/ \E i \in Callers, k \in {"tip", "query", "test", "health"} : Request(i, k)
    \/ OgmiosStep

MainSpec == MainInit /\ [][MainNext]_vars

\* Every await ends, docker starts Ogmios again, and the cron comes back.
MainFairness ==
    /\ WF_vars(BootStep) /\ WF_vars(BootRefresh) /\ WF_vars(CronRefresh)
    /\ \A t \in Tasks : WF_vars(EnsureStep(t))
    /\ \A i \in Callers : WF_vars(CallStep(i) /\ UNCHANGED mainVars)
    /\ \A s \in Sockets : WF_vars((ErrorEvent(s) \/ CloseEvent(s)) /\ UNCHANGED mainVars)
    /\ WF_vars(ServerStarts /\ UNCHANGED mainVars)

MainFairSpec == MainSpec /\ MainFairness

------------------------------------------------------------------------------
(* Properties. *)

\* Types.
MainTypeOK ==
    /\ OgmiosTypeOK
    /\ mode \in Modes /\ named \in BOOLEAN
    /\ networks \in 0..1 /\ node \in {"absent", "stopped", "running"}
    /\ attached \in BOOLEAN
    /\ step \in Awaiting \cup {"ensure", "attach", "link", "tip", "ready"}
    /\ found \in {"unknown", "absent", "stopped", "running"}
    /\ ensure \in [Tasks -> {"idle", "listing", "creating", "done", "failed"}]
    /\ refresh \in BOOLEAN
    /\ activeNodes \in {"none", "with heads", "without heads"}
    /\ swallowed \in BOOLEAN /\ crashes \in Nat

\* Once a task is past ensureHydraNetwork(), the network is there, whoever made it.
NetworkBeforeUse == \A t \in Tasks : ensure[t] = "done" => networks = 1

\* When requests are served, cardano-node is on the network of the hydra nodes,
\* whether it was found running, stopped or not at all and at whatever step an
\* earlier start broke off; the one exception is an error that was swallowed.
AttachedWhenUp == (Up /\ mode = "cardano-node") => attached \/ swallowed

\* Starts heal themselves: but for failures from outside, the process exits at most
\* once, after it has created the container itself.
CrashesOnce == crashes <= 1 + mishaps

\* To lose the race for the network is an error, but not a lasting one: when failures
\* from outside are over, in the end every start and every activation that ensures
\* the network gets past it.
EnsuringSettles ==
    <>[][\A t \in Tasks : ensure'[t] = "failed" => ensure[t] = "failed"]_vars

CanBoot == mode = "cardano-node" => named

\* However often a start breaks off, the process is up in the end and stays so, if
\* the container of the image has the name of the service.
BootsInTheEnd == CanBoot => <>[]Up

\* The entries that the start leaves in the cache, and that restartHydraHead could
\* not use, do not outlive the first tick of the cron for long.
HeadsKnownInTheEnd == CanBoot => <>[](activeNodes = "with heads")
=============================================================================
