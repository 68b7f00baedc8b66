------------------------- MODULE HydraMainInitProofs -------------------------
(***************************************************************************)
(* Proofs about HydraMainInit, for any number of activations, calls,       *)
(* sockets and failures: a network that is there before it is used, a      *)
(* sockets and failures: a network that is there before it is used, a      *)
(***************************************************************************)
EXTENDS HydraMainInit, OgmiosClientProofs

Working == {"listing", "creating"}

\* The types of the variables that HydraMainInit adds.
MainOnlyOK ==
    /\ mode \in Modes /\ named \in BOOLEAN
    /\ networks \in 0..1 /\ node \in {"absent", "stopped", "running"}
    /\ attached \in BOOLEAN
    /\ step \in Awaiting \cup {"ensure", "attach", "link", "tip", "ready"}
    /\ found \in {"unknown", "absent", "stopped", "running"}
    /\ ensure \in [Tasks -> {"idle", "listing", "creating", "done", "failed"}]
    /\ refresh \in BOOLEAN
    /\ activeNodes \in {"none", "with heads", "without heads"}
    /\ swallowed \in BOOLEAN /\ crashes \in Nat

\* Past the point where it sees to it, a start has the node attached, or has
\* swallowed the error.
AttachInv ==
    step \in {"exec", "tip", "ready"} /\ mode = "cardano-node" => attached \/ swallowed

\* During a start no activation runs; a network that the start is about to create is
\* not there; and past its use the task has ended.
AloneInv ==
    /\ step # "ready" => \A a \in Activations : ensure[a] = "idle"
    /\ ensure[Main] = "creating" => networks = 0
    /\ step \in {"link", "exec", "tip", "ready"} => ensure[Main] \notin Working

\* A container that was not found is not there until this start creates it.
FoundInv ==
    /\ step \in {"ensure", "create"} /\ found = "absent" => node = "absent"
    /\ step = "create" => found = "absent"

\* An exit that a failure from outside has made certain, and that is still to come.
Owed ==
    IF \/ step = "ensure" /\ ensure[Main] = "failed"
       \/ step \in {"attach", "link", "exec"} /\ node # "running"
    THEN 1 ELSE 0

\* The exit that follows the creation of the container.
First == IF node = "absent" \/ step = "start" THEN 1 ELSE 0

\* Every exit but that one is paid for by a failure.
CrashInv ==
    /\ named /\ mode = "cardano-node" => crashes + Owed + First <= 1 + mishaps
    /\ ~(named /\ mode = "cardano-node") => crashes = 0

------------------------------------------------------------------------------
(* Groups of steps. *)

\* Steps that neither the start nor docker notices.
Quiet ==
    \/ BootRefresh \/ CronRefresh \/ OgmiosStep
    \/ \E i \in Callers, k \in {"tip", "query", "test", "health"} : Request(i, k)

mainOnly == <<setting, docker, booting, ensure, crashes>>

LEMMA QuietFrame == Quiet => UNCHANGED mainOnly
BY DEF Quiet, BootRefresh, CronRefresh, OgmiosStep, Request, mainOnly, mainVars

\* Failures are counted, and by one.
LEMMA QuietMishaps == Quiet => mishaps' \in {mishaps, mishaps + 1}
<1> SUFFICES ASSUME Quiet PROVE mishaps' \in {mishaps, mishaps + 1}
  OBVIOUS
<1>1. CASE BootRefresh \/ CronRefresh
  BY <1>1 DEF BootRefresh, CronRefresh, Mishap
<1>2. ASSUME NEW i \in Callers, CallStep(i) PROVE mishaps' \in {mishaps, mishaps + 1}
  BY <1>2 DEF CallStep, DialSucceeds, DialFails, LedgerReady, LedgerFails, HealthAnswers,
              Answer, Refuse, Mishap
<1>3. ASSUME NEW s \in Sockets, ErrorEvent(s) \/ CloseEvent(s) \/ Lose(s)
      PROVE  mishaps' \in {mishaps, mishaps + 1}
  BY <1>3 DEF ErrorEvent, CloseEvent, Lose, Mishap
<1>4. CASE ServerStops \/ ServerStarts
  BY <1>4 DEF ServerStops, ServerStarts, Mishap
<1>5. ASSUME NEW i \in Callers, NEW k, Request(i, k) PROVE mishaps' = mishaps
  BY <1>5 DEF Request, Call, IsHealthy
<1> QED
  BY <1>1, <1>2, <1>3, <1>4, <1>5 DEF Quiet, OgmiosStep

\* Steps that end in an exit.
Exits == NetworkIsNot \/ Start \/ ExecFails \/ DockerFails \/ Kill

\* Steps of the start that only go on.
Onward ==
    \/ ListContainers \/ NetworkIsThere \/ Inspect \/ Connect \/ Restart \/ Create
    \/ Look \/ Link \/ AttachFails \/ Exec \/ TipEnds

LEMMA Cases ==
    ASSUME MainNext
    PROVE  \/ Onward \/ Exits \/ Quiet \/ NodeStops \/ NodeStarts
           \/ \E t \in Tasks : EnsureStep(t)
           \/ \E a \in Activations : Activate(a)
BY DEF MainNext, BootStep, Onward, Exits, Quiet

LEMMA ExitsCrash == Exits => Crash /\ UNCHANGED networks
BY DEF Exits, NetworkIsNot, Start, ExecFails, DockerFails, Kill, docker

------------------------------------------------------------------------------
(* Types. *)

LEMMA OnwardTypes == MainOnlyOK /\ Onward => MainOnlyOK'
<1> SUFFICES ASSUME MainOnlyOK, Onward PROVE MainOnlyOK'
  OBVIOUS
<1> USE DEF MainOnlyOK, Awaiting, setting, docker, booting, cache
<1>0. Main \in Tasks
  BY DEF Tasks
<1>1. CASE ListContainers
  BY <1>0, <1>1 DEF ListContainers, StartEnsuring
<1>2. CASE NetworkIsThere \/ Inspect \/ Connect
  BY <1>2 DEF NetworkIsThere, Inspect, Connect
<1>3. CASE Restart
  BY <1>0, <1>3 DEF Restart, StartEnsuring
<1>4. CASE Create \/ Look \/ Link
  BY <1>4 DEF Create, Look, Link
<1>5. CASE AttachFails
  BY <1>5 DEF AttachFails
<1>6. CASE Exec \/ TipEnds
  BY <1>6 DEF Exec, TipEnds
<1> QED
  BY <1>1, <1>2, <1>3, <1>4, <1>5, <1>6 DEF Onward

LEMMA ExitsTypes == MainOnlyOK /\ Exits => MainOnlyOK'
<1> SUFFICES ASSUME MainOnlyOK, Exits PROVE MainOnlyOK'
  OBVIOUS
<1>1. Crash /\ UNCHANGED networks
  BY ExitsCrash
<1>2. node' \in {"absent", "stopped", "running"} /\ attached' \in BOOLEAN
  BY DEF MainOnlyOK, Exits, NetworkIsNot, Start, ExecFails, DockerFails, Kill, docker
<1>3. crashes' \in Nat
  <2>1. crashes \in Nat
    BY DEF MainOnlyOK
  <2>2. crashes' = crashes \/ crashes' = crashes + 1
    BY <1>1 DEF Crash
  <2> QED
    BY <2>1, <2>2
<1>4. ensure' \in [Tasks -> {"idle", "listing", "creating", "done", "failed"}]
  BY <1>1 DEF Crash, NoTask
<1>5. step' \in Awaiting \cup {"ready"} /\ found' = "unknown" /\ refresh' = FALSE
      /\ activeNodes' = "none" /\ swallowed' = FALSE /\ UNCHANGED setting
  BY <1>1 DEF Crash, FirstStep, Awaiting
<1> QED
  BY <1>1, <1>2, <1>3, <1>4, <1>5 DEF MainOnlyOK, setting

LEMMA EnsureTypes ==
    ASSUME MainOnlyOK, NEW t \in Tasks, EnsureStep(t) PROVE MainOnlyOK'
<1> USE DEF MainOnlyOK, setting, docker, booting, cache
<1>1. CASE ListNetworks(t)
  BY <1>1 DEF ListNetworks
<1>2. CASE CreateNetwork(t)
  <2>1. networks' \in 0..1
    <3>1. networks \in 0..1 /\ (networks' = 1 \/ networks' = networks)
      BY <1>2 DEF CreateNetwork
    <3> HIDE DEF MainOnlyOK
    <3> QED
      BY <3>1
  <2>2. ensure' \in [Tasks -> {"idle", "listing", "creating", "done", "failed"}]
    <3>1. PICK e \in {"done", "failed"} : ensure' = [ensure EXCEPT ![t] = e]
      BY <1>2 DEF CreateNetwork
    <3>2. ensure \in [Tasks -> {"idle", "listing", "creating", "done", "failed"}]
      OBVIOUS
    <3> HIDE DEF MainOnlyOK
    <3> QED
      BY <3>1, <3>2
  <2>3. UNCHANGED <<setting, node, attached, booting, cache, crashes>>
    BY <1>2 DEF CreateNetwork
  <2> QED
    BY <2>1, <2>2, <2>3
<1>3. CASE NetworkCallFails(t)
  BY <1>3 DEF NetworkCallFails
<1> QED
  BY <1>1, <1>2, <1>3 DEF EnsureStep

LEMMA MainTypesStep == MainOnlyOK /\ [MainNext]_vars => MainOnlyOK'
<1> SUFFICES ASSUME MainOnlyOK, [MainNext]_vars PROVE MainOnlyOK'
  OBVIOUS
<1> USE DEF setting, docker, booting, cache
<1>1. CASE UNCHANGED vars
  BY <1>1 DEF MainOnlyOK, vars, mainVars
<1>2. CASE Quiet
  <2>1. UNCHANGED mainOnly
    BY <1>2, QuietFrame
  <2>2. refresh' \in BOOLEAN /\ activeNodes' \in {"none", "with heads", "without heads"}
    BY <1>2 DEF MainOnlyOK, Quiet, BootRefresh, CronRefresh, OgmiosStep, Request, mainVars
  <2> QED
    BY <2>1, <2>2 DEF MainOnlyOK, mainOnly
<1>3. CASE NodeStops \/ NodeStarts
  BY <1>3 DEF MainOnlyOK, NodeStops, NodeStarts
<1>4. ASSUME NEW a \in Activations, Activate(a) PROVE MainOnlyOK'
  <2>1. a \in Tasks
    BY DEF Tasks
  <2> QED
    BY <1>4, <2>1 DEF MainOnlyOK, Activate
<1> QED
  BY <1>1, <1>2, <1>3, <1>4, Cases, OnwardTypes, ExitsTypes, EnsureTypes

\* The client keeps its types: it moves by its own steps, or exits.
LEMMA ClientTypesStep == OgmiosTypeOK /\ [MainNext]_vars => OgmiosTypeOK'
<1> SUFFICES ASSUME OgmiosTypeOK, [MainNext]_vars PROVE OgmiosTypeOK'
  OBVIOUS
<1>1. ASSUME UNCHANGED ogmiosVars PROVE OgmiosTypeOK'
  BY <1>1, TypesStep
<1>2. ASSUME Mishap, UNCHANGED <<fields, socket, calls, server, stopped, history>>
      PROVE  OgmiosTypeOK'
  <2>1. mishaps' \in 0..MaxMishaps
    BY <1>2, OgmiosAssumption DEF Mishap, OgmiosTypeOK
  <2> QED
    BY <1>2, <2>1 DEF OgmiosTypeOK, fields, calls, history
<1>3. CASE Exits
  <2>1. Exit /\ (Mishap \/ UNCHANGED mishaps)
    BY <1>3 DEF Exits, NetworkIsNot, Start, ExecFails, DockerFails, Kill, Crash
  <2>2. mishaps' \in 0..MaxMishaps
    BY <2>1, OgmiosAssumption DEF Mishap, OgmiosTypeOK
  <2> QED
    BY <2>1, <2>2, ExitTypes
<1>4. CASE Onward
  <2>1. CASE Exec
    <3>1. Boot \in Callers /\ "tip" \in Kinds
      BY HydraMainAssumption DEF Kinds
    <3> QED
      BY <2>1, <3>1, CallTypes DEF Exec
  <2>2. CASE AttachFails
    BY <2>2, <1>1, <1>2 DEF AttachFails, ogmiosVars
  <2> QED
    BY <1>4, <2>1, <2>2, <1>1 DEF Onward, ListContainers, NetworkIsThere, Inspect, Connect,
                                 Restart, Create, Look, Link, TipEnds
<1>5. CASE Quiet
  <2>1. CASE BootRefresh \/ CronRefresh
    BY <2>1, <1>1, <1>2 DEF BootRefresh, CronRefresh, ogmiosVars
  <2>2. CASE OgmiosStep
    BY <2>2, TypesStep DEF OgmiosStep, Next, Environment
  <2>3. ASSUME NEW i \in Callers, NEW k \in {"tip", "query", "test", "health"}, Request(i, k)
        PROVE  OgmiosTypeOK'
    BY <2>3, CallTypes, HealthTypes DEF Request, Kinds
  <2> QED
    BY <1>5, <2>1, <2>2, <2>3 DEF Quiet
<1>6. CASE NodeStops \/ NodeStarts
  BY <1>6, <1>1, <1>2 DEF NodeStops, NodeStarts
<1>7. ASSUME NEW t \in Tasks, EnsureStep(t) PROVE OgmiosTypeOK'
  BY <1>7, <1>1, <1>2 DEF EnsureStep, ListNetworks, CreateNetwork, NetworkCallFails
<1>8. ASSUME NEW a \in Activations, Activate(a) PROVE OgmiosTypeOK'
  BY <1>8, <1>1 DEF Activate
<1> QED
  BY <1>1, <1>3, <1>4, <1>5, <1>6, <1>7, <1>8, Cases DEF vars

------------------------------------------------------------------------------
(* The network. *)

LEMMA NetworkStep == MainOnlyOK /\ NetworkBeforeUse /\ [MainNext]_vars => NetworkBeforeUse'
<1> SUFFICES ASSUME MainOnlyOK, NetworkBeforeUse, [MainNext]_vars PROVE NetworkBeforeUse'
  OBVIOUS
<1>1. ASSUME UNCHANGED networks,
             \A t \in Tasks : ensure'[t] = "done" => ensure[t] = "done"
      PROVE  NetworkBeforeUse'
  BY <1>1 DEF NetworkBeforeUse
<1>2. CASE UNCHANGED vars
  BY <1>1, <1>2 DEF vars, mainVars, docker
<1>3. CASE Quiet
  BY <1>1, <1>3, QuietFrame DEF mainOnly, docker
<1>4. CASE Exits
  BY <1>1, <1>4, ExitsCrash DEF Crash, NoTask
<1>5. CASE Onward
  <2>1. UNCHANGED networks
    BY <1>5 DEF Onward, ListContainers, NetworkIsThere, Inspect, Connect, Restart, Create,
                Look, Link, AttachFails, Exec, TipEnds, docker
  <2>2. UNCHANGED ensure \/ StartEnsuring
    BY <1>5 DEF Onward, ListContainers, NetworkIsThere, Inspect, Connect, Restart, Create,
                Look, Link, AttachFails, Exec, TipEnds
  <2>3. \A t \in Tasks : ensure'[t] = "done" => ensure[t] = "done"
    BY <2>2 DEF StartEnsuring, MainOnlyOK
  <2> QED
    BY <1>1, <2>1, <2>3
<1>6. CASE NodeStops \/ NodeStarts
  BY <1>1, <1>6 DEF NodeStops, NodeStarts
<1>7. ASSUME NEW t \in Tasks, EnsureStep(t) PROVE NetworkBeforeUse'
  <2>1. CASE ListNetworks(t)
    <3>1. networks' = networks /\ \A u \in Tasks : u # t => ensure'[u] = ensure[u]
      BY <2>1 DEF ListNetworks, MainOnlyOK, docker
    <3>2. ensure'[t] = "done" => networks > 0
      BY <2>1 DEF ListNetworks, MainOnlyOK
    <3>3. networks \in 0..1
      BY DEF MainOnlyOK
    <3> QED
      BY <3>1, <3>2, <3>3 DEF NetworkBeforeUse
  <2>2. CASE CreateNetwork(t)
    <3>1. \A u \in Tasks : u # t => ensure'[u] = ensure[u]
      BY <2>2 DEF CreateNetwork, MainOnlyOK
    <3>2. \/ networks' = 1
          \/ networks' = networks /\ ensure'[t] = "failed"
      BY <2>2 DEF CreateNetwork, MainOnlyOK
    <3>3. networks \in 0..1
      BY DEF MainOnlyOK
    <3> QED
      BY <3>1, <3>2, <3>3 DEF NetworkBeforeUse
  <2>3. CASE NetworkCallFails(t)
    BY <1>1, <2>3 DEF NetworkCallFails, MainOnlyOK, docker
  <2> QED
    BY <1>7, <2>1, <2>2, <2>3 DEF EnsureStep
<1>8. ASSUME NEW a \in Activations, Activate(a) PROVE NetworkBeforeUse'
  BY <1>1, <1>8 DEF Activate, MainOnlyOK, docker
<1> QED
  BY <1>2, <1>3, <1>4, <1>5, <1>6, <1>7, <1>8, Cases

------------------------------------------------------------------------------
(* The node is attached. *)

LEMMA AttachStep == MainOnlyOK /\ AttachInv /\ [MainNext]_vars => AttachInv'
<1> SUFFICES ASSUME MainOnlyOK, AttachInv, [MainNext]_vars PROVE AttachInv'
  OBVIOUS
<1> USE DEF setting, docker, booting
<1>1. ASSUME UNCHANGED <<mode, step, attached, swallowed>> PROVE AttachInv'
  BY <1>1 DEF AttachInv
<1>2. CASE UNCHANGED vars
  BY <1>1, <1>2 DEF vars, mainVars
<1>3. CASE Quiet
  BY <1>1, <1>3, QuietFrame DEF mainOnly
<1>4. CASE Exits
  BY <1>4, ExitsCrash DEF AttachInv, Crash, FirstStep
<1>5. CASE ListContainers \/ NetworkIsThere \/ Inspect \/ Connect \/ Restart \/ Create
  BY <1>5 DEF AttachInv, ListContainers, NetworkIsThere, Inspect, Connect, Restart, Create
<1>6. CASE Look \/ Link \/ AttachFails
  BY <1>6 DEF AttachInv, Look, Link, AttachFails
<1>7. CASE Exec \/ TipEnds
  BY <1>7 DEF AttachInv, Exec, TipEnds
<1>8. CASE NodeStops \/ NodeStarts
  BY <1>1, <1>8 DEF NodeStops, NodeStarts
<1>9. ASSUME NEW t \in Tasks, EnsureStep(t) PROVE AttachInv'
  BY <1>1, <1>9 DEF EnsureStep, ListNetworks, CreateNetwork, NetworkCallFails
<1>10. ASSUME NEW a \in Activations, Activate(a) PROVE AttachInv'
  BY <1>1, <1>10 DEF Activate
<1> QED
  BY <1>2, <1>3, <1>4, <1>5, <1>6, <1>7, <1>8, <1>9, <1>10, Cases DEF Onward

------------------------------------------------------------------------------
(* The task of the start, and those of activations. *)

LEMMA AloneStep == MainOnlyOK /\ AloneInv /\ [MainNext]_vars => AloneInv'
<1> SUFFICES ASSUME MainOnlyOK, AloneInv, [MainNext]_vars PROVE AloneInv'
  OBVIOUS
<1>0. Main \in Tasks /\ Activations \subseteq Tasks /\ Main \notin Activations
  BY HydraMainAssumption DEF Tasks
<1>1. ASSUME UNCHANGED <<step, networks, ensure>> PROVE AloneInv'
  BY <1>1 DEF AloneInv
<1>2. CASE UNCHANGED vars
  BY <1>1, <1>2 DEF vars, mainVars, docker, booting
<1>3. CASE Quiet
  BY <1>1, <1>3, QuietFrame DEF mainOnly, docker, booting
<1>4. CASE Exits
  BY <1>0, <1>4, ExitsCrash DEF AloneInv, Crash, NoTask, Working
<1>5. CASE ListContainers \/ Restart
  BY <1>0, <1>5 DEF AloneInv, ListContainers, Restart, StartEnsuring, MainOnlyOK, docker
<1>6. CASE NetworkIsThere \/ Inspect \/ Connect \/ Create
  BY <1>6 DEF AloneInv, NetworkIsThere, Inspect, Connect, Create, docker
<1>7. CASE Look \/ Link \/ AttachFails \/ Exec \/ TipEnds
  BY <1>7 DEF AloneInv, Working, Look, Link, AttachFails, Exec, TipEnds, docker
<1>8. CASE NodeStops \/ NodeStarts
  BY <1>1, <1>8 DEF NodeStops, NodeStarts, booting
<1>9. ASSUME NEW t \in Tasks, EnsureStep(t) PROVE AloneInv'
  <2>1. /\ step' = step /\ ensure[t] \in Working
        /\ \A u \in Tasks : u # t => ensure'[u] = ensure[u]
    BY <1>9 DEF EnsureStep, ListNetworks, CreateNetwork, NetworkCallFails, MainOnlyOK,
                Working, booting
  <2>2. CASE t = Main
    <3>1. ensure'[Main] = "creating" => networks' = 0
      <4>1. networks \in 0..1
        BY DEF MainOnlyOK
      <4>2. ensure'[Main] = "creating" => ListNetworks(t) /\ ~(networks > 0)
        BY <1>9, <2>2 DEF EnsureStep, ListNetworks, CreateNetwork, NetworkCallFails, MainOnlyOK
      <4> QED
        BY <4>1, <4>2 DEF ListNetworks, docker
    <3> QED
      BY <1>0, <2>1, <2>2, <3>1 DEF AloneInv
  <2>3. CASE t # Main
    <3>1. step = "ready"
      BY <2>1, <2>3 DEF AloneInv, Tasks, Working
    <3>2. ensure'[Main] = ensure[Main] /\ ensure[Main] \notin Working
      BY <1>0, <2>1, <2>3, <3>1 DEF AloneInv
    <3> QED
      BY <2>1, <3>1, <3>2 DEF AloneInv, Working
  <2> QED
    BY <2>2, <2>3
<1>10. ASSUME NEW a \in Activations, Activate(a) PROVE AloneInv'
  BY <1>0, <1>10 DEF AloneInv, Activate, Up, MainOnlyOK, docker, booting
<1> QED
  BY <1>2, <1>3, <1>4, <1>5, <1>6, <1>7, <1>8, <1>9, <1>10, Cases DEF Onward

------------------------------------------------------------------------------
(* Exits. *)

LEMMA FoundStep == MainOnlyOK /\ FoundInv /\ [MainNext]_vars => FoundInv'
<1> SUFFICES ASSUME MainOnlyOK, FoundInv, [MainNext]_vars PROVE FoundInv'
  OBVIOUS
<1> USE DEF docker, booting
<1>1. ASSUME UNCHANGED <<step, found, node>> PROVE FoundInv'
  BY <1>1 DEF FoundInv
<1>2. CASE UNCHANGED vars
  BY <1>1, <1>2 DEF vars, mainVars
<1>3. CASE Quiet
  BY <1>1, <1>3, QuietFrame DEF mainOnly
<1>4. CASE Exits
  BY <1>4, ExitsCrash DEF FoundInv, Crash, FirstStep
<1>5. CASE ListContainers \/ NetworkIsThere \/ Inspect \/ Connect \/ Restart \/ Create
  BY <1>5 DEF FoundInv, ListContainers, NetworkIsThere, Inspect, Connect, Restart, Create
<1>6. CASE Look \/ Link \/ AttachFails \/ Exec \/ TipEnds
  BY <1>6 DEF FoundInv, Look, Link, AttachFails, Exec, TipEnds
<1>7. CASE NodeStops \/ NodeStarts
  BY <1>7 DEF FoundInv, NodeStops, NodeStarts
<1>8. ASSUME NEW t \in Tasks, EnsureStep(t) PROVE FoundInv'
  BY <1>1, <1>8 DEF EnsureStep, ListNetworks, CreateNetwork, NetworkCallFails
<1>9. ASSUME NEW a \in Activations, Activate(a) PROVE FoundInv'
  BY <1>1, <1>9 DEF Activate
<1> QED
  BY <1>2, <1>3, <1>4, <1>5, <1>6, <1>7, <1>8, <1>9, Cases DEF Onward

LEMMA Credit == Owed \in {0, 1} /\ First \in {0, 1} /\ Owed' \in {0, 1} /\ First' \in {0, 1}
BY DEF Owed, First

Counted == named /\ mode = "cardano-node"

\* The sum grows with the failures at most.
LEMMA Sums ==
    ASSUME NEW c \in Nat, NEW m \in Nat, NEW n \in {m, m + 1},
           NEW o \in {0, 1}, NEW p \in {0, 1}, NEW f \in {0, 1}, NEW g \in {0, 1},
           c + o + f <= 1 + m, g <= f, p <= o \/ n = m + 1
    PROVE  c + p + g <= 1 + n
<1>1. CASE n = m + 1
  BY <1>1
<1>2. CASE n = m
  BY <1>2
<1> QED
  BY <1>1, <1>2

\* A step that is no exit makes an exit certain only by a failure.
LEMMA CreditKept ==
    ASSUME crashes \in Nat, mishaps \in Nat, mishaps' \in {mishaps, mishaps + 1}, CrashInv,
           UNCHANGED <<mode, named, crashes>>,
           First' <= First, Owed' <= Owed \/ mishaps' = mishaps + 1
    PROVE  CrashInv'
<1>1. CASE Counted
  <2>1. crashes + Owed + First <= 1 + mishaps
    BY <1>1 DEF CrashInv, Counted
  <2>2. crashes' + Owed' + First' <= 1 + mishaps'
    BY <2>1, Credit, Sums
  <2> QED
    BY <1>1, <2>2 DEF CrashInv, Counted
<1>2. CASE ~Counted
  BY <1>2 DEF CrashInv, Counted
<1> QED
  BY <1>1, <1>2

\* An exit has been owed, is the first, or is a failure.
LEMMA CreditSpent ==
    ASSUME crashes \in Nat, mishaps \in Nat, CrashInv, UNCHANGED <<mode, named>>,
           crashes' = IF Counted THEN crashes + 1 ELSE crashes,
           Owed' = 0, First' <= First,
           Counted => \/ mishaps' = mishaps + 1
                      \/ mishaps' = mishaps /\ (Owed = 1 \/ (First = 1 /\ First' = 0))
    PROVE  CrashInv'
<1>1. CASE Counted
  <2>1. crashes + Owed + First <= 1 + mishaps /\ crashes' = crashes + 1
    BY <1>1 DEF CrashInv, Counted
  <2>2. crashes' + Owed' + First' <= 1 + mishaps'
    BY <1>1, <2>1, Credit
  <2> QED
    BY <1>1, <2>2 DEF CrashInv, Counted
<1>2. CASE ~Counted
  BY <1>2 DEF CrashInv, Counted
<1> QED
  BY <1>1, <1>2

LEMMA ExitsCredit ==
    ASSUME MainOnlyOK, mishaps \in Nat, FoundInv, CrashInv, Exits PROVE CrashInv'
<1>1. /\ Crash /\ crashes \in Nat /\ UNCHANGED <<mode, named>>
      /\ crashes' = IF Counted THEN crashes + 1 ELSE crashes
  BY ExitsCrash DEF MainOnlyOK, Crash, Counted, setting
<1>2. step' \in {"list", "ready"}
  BY <1>1 DEF Crash, FirstStep
<1>3. Owed' = 0
  BY <1>2 DEF Owed
<1>4. CASE DockerFails \/ Kill
  <2>1. node' = node /\ mishaps' = mishaps + 1
    BY <1>4 DEF DockerFails, Kill, Mishap, docker
  <2>2. First' <= First
    BY <1>2, <2>1 DEF First
  <2> QED
    BY <1>1, <1>3, <2>1, <2>2, CreditSpent
<1>5. CASE NetworkIsNot \/ ExecFails
  <2>1. node' = node /\ mishaps' = mishaps
    BY <1>5 DEF NetworkIsNot, ExecFails, docker
  <2>2. First' <= First
    BY <1>2, <2>1 DEF First
  <2>3. Counted => Owed = 1
    BY <1>5 DEF NetworkIsNot, ExecFails, Owed, Counted
  <2> QED
    BY <1>1, <1>3, <2>1, <2>2, <2>3, CreditSpent
<1>6. CASE Start
  <2>1. mishaps' = mishaps /\ First = 1 /\ First' = 0
    BY <1>2, <1>6 DEF Start, First
  <2> QED
    BY <1>1, <1>3, <2>1, CreditSpent
<1> QED
  BY <1>4, <1>5, <1>6 DEF Exits

LEMMA OnwardCredit ==
    ASSUME MainOnlyOK, mishaps \in Nat, FoundInv, CrashInv, Onward PROVE CrashInv'
<1>1. crashes \in Nat /\ UNCHANGED <<mode, named, crashes>>
  BY DEF MainOnlyOK, Onward, ListContainers, NetworkIsThere, Inspect, Connect, Restart, Create,
         Look, Link, AttachFails, Exec, TipEnds, setting
<1>2. mishaps' \in {mishaps, mishaps + 1}
  BY DEF Onward, ListContainers, NetworkIsThere, Inspect, Connect, Restart, Create,
         Look, Link, AttachFails, Exec, TipEnds, Mishap, ogmiosVars, Call
<1>3. First' <= First
  <2>1. CASE Restart
    BY <2>1 DEF Restart, First
  <2>2. CASE Create
    BY <2>2 DEF Create, First, FoundInv
  <2>3. CASE ~Restart /\ ~Create
    BY <2>3 DEF First, Onward, ListContainers, NetworkIsThere, Inspect, Connect, Look, Link,
                AttachFails, Exec, TipEnds, docker
  <2> QED
    BY <2>1, <2>2, <2>3
<1>4. Owed' <= Owed
  <2>0. Main \in Tasks
    BY DEF Tasks
  <2>1. CASE ListContainers \/ NetworkIsThere
    <3>1. \/ step' \in {"create", "inspect"}
          \/ step' = "attach" /\ node' = "running"
          \/ step' = "ensure" /\ ensure'[Main] = "listing"
      BY <2>0, <2>1 DEF ListContainers, NetworkIsThere, StartEnsuring, MainOnlyOK, docker
    <3>2. Owed' = 0
      BY <3>1 DEF Owed
    <3> QED
      BY <3>2, Credit
  <2>2. CASE Inspect \/ Connect \/ Restart \/ Create
    <3>1. step' \in {"restart", "connect", "start"} \/ (step' = "attach" /\ node' = "running")
      BY <2>2 DEF Inspect, Connect, Restart, Create
    <3>2. Owed' = 0
      BY <3>1 DEF Owed
    <3> QED
      BY <3>2, Credit
  <2>3. CASE Look \/ Link \/ AttachFails
    <3>1. /\ step \in {"attach", "link"} /\ step' \in {"link", "exec"}
          /\ node' = node
      BY <2>3 DEF Look, Link, AttachFails, docker
    <3> QED
      BY <3>1 DEF Owed
  <2>4. CASE Exec \/ TipEnds
    BY <2>4 DEF Exec, TipEnds, Owed
  <2> QED
    BY <2>1, <2>2, <2>3, <2>4 DEF Onward
<1> QED
  BY <1>1, <1>2, <1>3, <1>4, CreditKept

LEMMA CrashStep ==
    MainOnlyOK /\ mishaps \in Nat /\ FoundInv /\ CrashInv /\ AloneInv /\ [MainNext]_vars
        => CrashInv'
<1> SUFFICES ASSUME MainOnlyOK, mishaps \in Nat, FoundInv, CrashInv, AloneInv, [MainNext]_vars
             PROVE  CrashInv'
  OBVIOUS
<1>0. crashes \in Nat /\ Main \in Tasks
  BY DEF MainOnlyOK, Tasks
<1>1. ASSUME UNCHANGED <<mode, named, crashes, step, node>>, ensure'[Main] = ensure[Main],
             mishaps' \in {mishaps, mishaps + 1}
      PROVE  CrashInv'
  <2>1. Owed' = Owed /\ First' = First
    BY <1>1 DEF Owed, First
  <2> QED
    BY <1>0, <1>1, <2>1, Credit, CreditKept
<1>2. CASE UNCHANGED vars
  BY <1>1, <1>2 DEF vars, mainVars, ogmiosVars, setting, docker, booting
<1>3. CASE Quiet
  BY <1>1, <1>3, QuietFrame, QuietMishaps DEF mainOnly, setting, docker, booting
<1>4. CASE NodeStops
  <2>1. /\ node = "running" /\ node' = "stopped" /\ mishaps' = mishaps + 1
        /\ UNCHANGED <<mode, named, crashes, step>>
    BY <1>4 DEF NodeStops, Mishap, setting, booting
  <2>2. First' <= First
    BY <2>1 DEF First
  <2> QED
    BY <1>0, <2>1, <2>2, CreditKept
<1>5. CASE NodeStarts
  <2>1. /\ node = "stopped" /\ node' = "running" /\ mishaps' = mishaps
        /\ UNCHANGED <<mode, named, crashes, step, ensure>>
    BY <1>5 DEF NodeStarts, ogmiosVars, setting, booting
  <2>2. First' <= First /\ Owed' <= Owed
    BY <2>1 DEF First, Owed
  <2> QED
    BY <1>0, <2>1, <2>2, CreditKept
<1>6. ASSUME NEW t \in Tasks, EnsureStep(t) PROVE CrashInv'
  <2>1. /\ UNCHANGED <<mode, named, crashes, step, node>>
        /\ mishaps' \in {mishaps, mishaps + 1}
        /\ \A u \in Tasks : u # t => ensure'[u] = ensure[u]
    BY <1>6 DEF EnsureStep, ListNetworks, CreateNetwork, NetworkCallFails, MainOnlyOK,
                setting, docker, booting, Mishap, ogmiosVars
  <2>2. First' <= First
    BY <2>1 DEF First
  <2>3. ensure'[t] = "failed" => mishaps' = mishaps + 1 \/ (ensure[t] = "creating" /\ networks > 0)
    BY <1>6 DEF EnsureStep, ListNetworks, CreateNetwork, NetworkCallFails, MainOnlyOK, Mishap
  <2>4. CASE t = Main
    <3>1. ensure'[Main] = "failed" => mishaps' = mishaps + 1
      BY <2>3, <2>4 DEF AloneInv
    <3>2. Owed' <= Owed \/ mishaps' = mishaps + 1
      BY <2>1, <3>1 DEF Owed
    <3> QED
      BY <1>0, <2>1, <2>2, <3>2, CreditKept
  <2>5. CASE t # Main
    BY <1>0, <1>1, <2>1, <2>5
  <2> QED
    BY <2>4, <2>5
<1>7. ASSUME NEW a \in Activations, Activate(a) PROVE CrashInv'
  <2>1. a # Main /\ a \in Tasks
    BY HydraMainAssumption DEF Tasks
  <2> QED
    BY <1>0, <1>1, <1>7, <2>1 DEF Activate, MainOnlyOK, ogmiosVars, setting, docker, booting
<1> QED
  BY <1>2, <1>3, <1>4, <1>5, <1>6, <1>7, Cases, ExitsCredit, OnwardCredit

------------------------------------------------------------------------------
(* Theorems. *)

MainInv ==
    /\ OgmiosTypeOK /\ MainOnlyOK
    /\ NetworkBeforeUse /\ AttachInv /\ AloneInv /\ FoundInv /\ CrashInv

LEMMA MainStart == MainInit => MainInv
<1> SUFFICES ASSUME MainInit PROVE MainInv
  OBVIOUS
<1>1. OgmiosTypeOK /\ mishaps = 0
  BY StartTypes DEF MainInit, Init
<1>2. MainOnlyOK
  <2>1. /\ ensure \in [Tasks -> {"idle", "listing", "creating", "done", "failed"}]
        /\ step \in Awaiting \cup {"ready"} /\ found = "unknown" /\ mode \in Modes
    BY DEF MainInit, FirstStep, NoTask, Awaiting
  <2>2. networks \in 0..1 /\ crashes \in Nat
    BY DEF MainInit
  <2>3. /\ named \in BOOLEAN /\ node \in {"absent", "stopped", "running"}
        /\ attached \in BOOLEAN /\ swallowed \in BOOLEAN
    BY DEF MainInit
  <2>4. refresh \in BOOLEAN /\ activeNodes = "none"
    BY DEF MainInit
  <2> QED
    BY <2>1, <2>2, <2>3, <2>4 DEF MainOnlyOK
<1>3. step \in {"list", "ready"} /\ (step = "ready" => mode # "cardano-node")
  BY DEF MainInit, FirstStep
<1>4. NetworkBeforeUse
  BY DEF MainInit, NetworkBeforeUse, NoTask
<1>5. AttachInv /\ FoundInv
  BY <1>3 DEF AttachInv, FoundInv
<1>6. AloneInv
  BY DEF MainInit, AloneInv, NoTask, Tasks, Working
<1>7. CrashInv
  <2>1. Owed = 0 /\ crashes = 0
    BY <1>3 DEF MainInit, Owed
  <2> QED
    BY <1>1, <2>1, Credit DEF CrashInv
<1> QED
  BY <1>1, <1>2, <1>4, <1>5, <1>6, <1>7 DEF MainInv

LEMMA MainInvariance == MainSpec => []MainInv
<1>1. MainInv /\ [MainNext]_vars => MainInv'
  <2>1. OgmiosTypeOK => mishaps \in Nat
    BY OgmiosAssumption DEF OgmiosTypeOK
  <2> QED
    BY <2>1, ClientTypesStep, MainTypesStep, NetworkStep, AttachStep, AloneStep, FoundStep,
       CrashStep DEF MainInv
<1> QED
  BY <1>1, MainStart, PTL DEF MainSpec

\* Type correctness of the start and of the client that it starts.
THEOREM MainTypes == MainSpec => []MainTypeOK
<1>1. MainInv => MainTypeOK
  BY DEF MainInv, MainOnlyOK, MainTypeOK
<1> QED
  BY <1>1, MainInvariance, PTL

\* A task that has ensured the network finds it there.
THEOREM NetworkIsThereToUse == MainSpec => []NetworkBeforeUse
<1>1. MainInv => NetworkBeforeUse
  BY DEF MainInv
<1> QED
  BY <1>1, MainInvariance, PTL

\* Requests are served with cardano-node on the network, or an error was swallowed.
THEOREM NodeAttached == MainSpec => []AttachedWhenUp
<1>1. MainInv => AttachedWhenUp
  BY DEF MainInv, AttachInv, AttachedWhenUp, Up
<1> QED
  BY <1>1, MainInvariance, PTL

\* But for one exit, each is paid for by a failure from outside.
THEOREM ExitsArePaid == MainSpec => []CrashesOnce
<1>1. MainInv => CrashesOnce
  <2>1. OgmiosTypeOK => mishaps \in Nat
    BY OgmiosAssumption DEF OgmiosTypeOK
  <2>2. MainOnlyOK => crashes \in Nat
    BY DEF MainOnlyOK
  <2> QED
    BY <2>1, <2>2, Credit DEF MainInv, CrashInv, CrashesOnce
<1> QED
  BY <1>1, MainInvariance, PTL

------------------------------------------------------------------------------
(* The client within the start. Whatever the start does, the client meets nothing but  *)
(* what it can meet anywhere: what holds of it alone holds of it here.                 *)

LEMMA MainIsClients == [MainNext]_vars => ClientNext
<1> SUFFICES ASSUME [MainNext]_vars PROVE ClientNext
  OBVIOUS
<1> DEFINE Apart == UNCHANGED <<fields, socket, calls, server, stopped, history>>
<1>0. Apart => ClientNext
  BY DEF ClientNext
<1>1. CASE UNCHANGED vars
  BY <1>0, <1>1 DEF vars, ogmiosVars
<1>2. CASE Exits
  BY <1>2, ExitsCrash DEF Crash, ClientNext
<1>3. CASE Onward
  <2>1. CASE Exec
    <3>1. Call(Boot, "tip") /\ Boot \in Callers /\ "tip" \in Kinds
      BY <2>1, HydraMainAssumption DEF Exec, Kinds
    <3> QED
      BY <3>1 DEF ClientNext
  <2> QED
    BY <1>0, <1>3, <2>1 DEF Onward, ListContainers, NetworkIsThere, Inspect, Connect, Restart,
       Create, Look, Link, AttachFails, TipEnds, ogmiosVars
<1>4. CASE Quiet
  <2>1. CASE BootRefresh \/ CronRefresh
    BY <1>0, <2>1 DEF BootRefresh, CronRefresh
  <2>2. CASE OgmiosStep
    BY <2>2 DEF OgmiosStep, ClientNext
  <2>3. ASSUME NEW i \in Callers, NEW k \in {"tip", "query", "test", "health"}, Request(i, k)
        PROVE  ClientNext
    <3>1. k \in Kinds
      BY DEF Kinds
    <3> QED
      BY <2>3, <3>1 DEF Request, ClientNext
  <2> QED
    BY <1>4, <2>1, <2>2, <2>3 DEF Quiet
<1>5. CASE NodeStops \/ NodeStarts
  BY <1>0, <1>5 DEF NodeStops, NodeStarts, ogmiosVars
<1>6. ASSUME NEW t \in Tasks, EnsureStep(t) PROVE ClientNext
  BY <1>0, <1>6 DEF EnsureStep, ListNetworks, CreateNetwork, NetworkCallFails, ogmiosVars
<1>7. ASSUME NEW a \in Activations, Activate(a) PROVE ClientNext
  BY <1>0, <1>7 DEF Activate, ogmiosVars
<1> QED
  BY <1>1, <1>2, <1>3, <1>4, <1>5, <1>6, <1>7, Cases

LEMMA ClientInvariance == MainSpec => []IInv
<1>1. MainInit => IInv
  BY FirstStateHas DEF MainInit
<1>2. IInv /\ [MainNext]_vars => IInv'
  BY MainIsClients, ClientTypesStep, FlagStep, SocketStep DEF IInv
<1> QED
  BY <1>1, <1>2, PTL DEF MainSpec

\* The flag of the Ogmios client is corrected across starts, exits and the tip that the
\* start asks for, too.
THEOREM FlagCorrectedHere == MainSpec => []FlagIsCorrected
<1>1. IInv => FlagIsCorrected
  BY DEF IInv, FlagInv, FlagIsCorrected
<1> QED
  BY <1>1, ClientInvariance, PTL

\* The two hooks, which connect the client at the same time, leave no socket behind that
\* two calls of anybody would not.
THEOREM SocketsKeptHere == MainSpec => []NoSocketForgotten
<1>1. IInv => NoSocketForgotten
  BY DEF IInv, SocketInv, NoSocketForgotten
<1> QED
  BY <1>1, ClientInvariance, PTL

\* Nor does anything in the start set a call back: the tip that onModuleInit() waits for
\* comes, or fails, after finitely many steps of its call (in ranks that end, LowerEnds).
THEOREM CallsGetOnHere == MainSpec => CallsGetOn
<1>1. IInv /\ IInv' /\ [MainNext]_vars => [(\A i \in Callers : GetsOn(i)) \/ Exit]_ogmiosVars
  BY ClientGetsOn, MainIsClients DEF IInv
<1> QED
  BY <1>1, ClientInvariance, PTL DEF MainSpec, CallsGetOn
==============================================================================
