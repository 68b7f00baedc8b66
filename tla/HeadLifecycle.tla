---------------------------- MODULE HeadLifecycle ----------------------------
(***************************************************************************)
(* The life of a hydra head once its rows exist: the four commands of      *)
(* HydraHeadService (activate, deactivate, restart, delete) running        *)
(* concurrently in one Node.js process, split at every await whose result  *)
(* another command, the health cron or the refresh cron can overtake; the  *)
(* Docker daemon that holds one container per node name; the database row  *)
(* of the head; and the in-process cache of active nodes.                  *)
(*                                                                         *)
(* A container is identified by the request that created it: the code      *)
(* keeps the handle `createContainer' returned (an id) for its cleanup and *)
(* for its inspections, and the node's unique name everywhere else.        *)
(***************************************************************************)
EXTENDS Naturals, FiniteSets

CONSTANTS
    Heads, Nodes,     \* rows of hydra_head and of hydra_node
    NodesOf,          \* [Heads -> SUBSET Nodes], head.hydraNodes
    Reqs,             \* HTTP requests, each served once
    Passes,           \* runs of the health cron that may overlap
    Ops,              \* commands the requests may ask for
    InitRunning,      \* heads already running when the model starts
    Earlier,          \* the creator of the containers of InitRunning
    None,             \* an unset head or node
    MaxActive,        \* hydraConfig.maxActiveNodes
    RetryCount,       \* retryCount of createContainer
    MaxListings,      \* bound: listings of the cron in flight
    Mishaps,          \* kinds of misfortune the environment may cause
    MaxMishaps        \* bound: how many of them

Commands == {"activate", "deactivate", "restart", "delete"}

\* Rows are finitely many, and every head has its own nodes: hydra_node has one foreign
\* key to hydra_head.
ASSUME NodesAssumption ==
    /\ IsFiniteSet(Nodes) /\ NodesOf \in [Heads -> SUBSET Nodes]
    /\ \A h \in Heads : NodesOf[h] # {}
    /\ \A g, h \in Heads : g # h => NodesOf[g] \cap NodesOf[h] = {}

ASSUME ConstantsAssumption ==
    /\ InitRunning \subseteq Heads
    /\ Ops \subseteq Commands
    /\ Earlier \notin Reqs
    /\ None \notin Heads \cup Nodes
    /\ RetryCount \in Nat /\ MaxActive \in Nat
    /\ MaxListings \in Nat /\ MaxMishaps \in Nat

VARIABLES
    pc,         \* pc[r]: where the handler of request r is
    job,        \* job[r]: the local variables of that handler
    row,        \* row[h]: status column of the head, or "absent"
    nodeRows,   \* heads whose hydra_node rows exist
    dirs,       \* heads whose directory exists
    ctr,        \* ctr[n]: the container that holds the name of node n
    cache,      \* cacheManager entry 'activeNodes', as node ids
    snaps,      \* container listings taken but not yet stored in the cache
    told,       \* told[h]: the last status handed to the hub listener
    cron,       \* cron[p]: a pass of checkNodeHealth
    mishaps,    \* misfortunes so far
    disturbed   \* history: requests that overlapped another request on
                \* their head or that met a misfortune

vars == <<pc, job, row, nodeRows, dirs, ctr, cache, snaps, told, cron,
          mishaps, disturbed>>
db   == <<row, nodeRows, dirs>>
mem  == <<cache, snaps>>
env  == <<mishaps, disturbed>>

------------------------------------------------------------------------------
(* Local state of a handler and of a cron pass. *)

Ended  == {"done", "failed", "rejected", "lost"}
Phases == {"new", "load", "limit", "prepare", "clear", "create", "start",
           "retry", "inspect", "cacheRead", "cacheWrite", "wait", "emit",
           "cleanup", "saveStop", "emitFailed", "listed", "restart",
           "verify", "remove", "refresh", "removeDir", "deleteRows"} \cup Ended

NoJob == [op |-> "none", head |-> None, nodes |-> {}, status |-> "none",
          todo |-> {}, cur |-> None, made |-> {}, read |-> {}, tries |-> 0,
          call |-> "none"]

Idle == [pc |-> "idle", heads |-> {}, head |-> None, todo |-> {}, down |-> {}]

NoContainer == [by |-> Earlier, state |-> "absent"]

InFlight(r) == pc[r] \notin Ended \cup {"new"}
HeadOf(r)   == job[r].head
Running(n)  == ctr[n].state = "running"
Exists(n)   == ctr[n].state # "absent"
RunningNodes == {n \in Nodes : Running(n)}

Init ==
    /\ pc = [r \in Reqs |-> "new"]
    /\ job = [r \in Reqs |-> NoJob]
    /\ row = [h \in Heads |-> IF h \in InitRunning THEN "running" ELSE "configured"]
    /\ nodeRows = Heads
    /\ dirs = Heads
    /\ ctr = [n \in Nodes |->
                IF \E h \in InitRunning : n \in NodesOf[h]
                THEN [by |-> Earlier, state |-> "running"] ELSE NoContainer]
    /\ cache = UNION {NodesOf[h] : h \in InitRunning}
    /\ snaps = {}
    /\ told = [h \in Heads |-> IF h \in InitRunning THEN "running" ELSE "none"]
    /\ cron = [p \in Passes |-> Idle]
    /\ mishaps = 0
    /\ disturbed = {}

Mishap(kind) ==
    /\ kind \in Mishaps
    /\ mishaps < MaxMishaps
    /\ mishaps' = mishaps + 1

Goto(r, phase) == pc' = [pc EXCEPT ![r] = phase]

\* The handler returns or throws; its locals are gone.
Finish(r, outcome) ==
    /\ Goto(r, outcome)
    /\ job' = [job EXCEPT ![r] = [NoJob EXCEPT !.op = job[r].op,
                                              !.head = job[r].head]]

\* `for (const node of S)': enter phase with some node of S, or leave the loop.
Visit(r, j, S, phase, after) ==
    \/ /\ S = {}
       /\ Goto(r, after)
       /\ job' = [job EXCEPT ![r] = j]
    \/ \E n \in S :
       /\ Goto(r, phase)
       /\ job' = [job EXCEPT ![r] = [j EXCEPT !.cur = n, !.todo = S \ {n},
                                             !.call = "inspect"]]

\* The catch blocks: an activation cleans up what it made, a restart looks
\* whether a node of the head is down.
Fail(r) ==
    \/ /\ job[r].op = "activate"
       /\ Visit(r, job[r], job[r].made, "cleanup", "saveStop")
    \/ /\ job[r].op = "restart"
       /\ Goto(r, "verify")
       /\ job' = [job EXCEPT ![r].todo = job[r].nodes]

------------------------------------------------------------------------------
(* Entry of the four commands. *)

\* A controller calls the service.
Accept(r) ==
    /\ pc[r] = "new"
    /\ Goto(r, "load")
    /\ \E o \in Ops, h \in Heads :
       LET others == {q \in Reqs : InFlight(q) /\ HeadOf(q) = h}
       IN  /\ job' = [job EXCEPT ![r] = [NoJob EXCEPT !.op = o, !.head = h]]
           /\ disturbed' = IF others = {} THEN disturbed
                           ELSE disturbed \cup others \cup {r}
    /\ UNCHANGED <<db, ctr, mem, told, cron, mishaps>>

\* The query every command starts with: the head joined with its nodes.
Load(r) ==
    LET h == HeadOf(r)
        j == [job[r] EXCEPT !.nodes = IF h \in nodeRows THEN NodesOf[h] ELSE {},
                            !.status = row[h]]
    IN  /\ pc[r] = "load"
        /\ \/ /\ row[h] = "absent"
              /\ Finish(r, "rejected")
           \/ /\ row[h] # "absent"
              /\ \/ /\ j.op = "activate"
                    /\ Goto(r, "limit") /\ job' = [job EXCEPT ![r] = j]
                 \/ /\ j.op = "restart"
                    /\ Goto(r, "listed") /\ job' = [job EXCEPT ![r] = j]
                 \/ /\ j.op = "deactivate"
                    /\ Visit(r, j, j.nodes, "remove", "saveStop")
                 \/ /\ j.op = "delete"
                    /\ Visit(r, j, j.nodes, "remove", "removeDir")
        /\ UNCHANGED <<db, ctr, mem, told, cron, env>>

\* checkNodesActiveHydraHead: what the cache says when it is read, once.
LimitAllows(r) ==
    /\ ~ job[r].nodes \subseteq cache
    /\ Cardinality(cache) + Cardinality(job[r].nodes) <= MaxActive

CheckLimit(r) ==
    /\ pc[r] = "limit"
    /\ \/ /\ LimitAllows(r)
          /\ Goto(r, "prepare") /\ UNCHANGED job
       \/ /\ ~LimitAllows(r)
          /\ Finish(r, "rejected")
    /\ UNCHANGED <<db, ctr, mem, told, cron, env>>

\* Protocol parameters, their file (ENOENT once the directory is gone) and the
\* network; an error here is thrown before the try block.
Prepare(r) ==
    /\ pc[r] = "prepare"
    /\ \/ /\ HeadOf(r) \in dirs
          /\ Visit(r, job[r], job[r].nodes, "clear", "cacheRead")
       \/ /\ HeadOf(r) \notin dirs
          /\ Finish(r, "rejected")
    /\ UNCHANGED <<db, ctr, mem, told, cron, env>>

------------------------------------------------------------------------------
(* Removing a container: inspect, stop if it runs, remove; each call looks  *)
(* its container up again. handleDockerContainerExist (clear) and           *)
(* removeContainerByName (remove) go by name, cleanupContainer (retry,      *)
(* cleanup) by the id of a container the request made. The first error      *)
(* ends the sequence and nobody above hears of it.                          *)

Removing == {"clear", "remove", "retry", "cleanup"}
ByName   == {"clear", "remove"}

\* Mutated form of Found: every removal goes by name.
FoundByName(r) == Exists(job[r].cur)

Found(r) ==
    LET n == job[r].cur
    IN  Exists(n) /\ (pc[r] \in ByName \/ ctr[n].by = r)

SetState(n, s) == ctr' = [ctr EXCEPT ![n].state = s]
NextCall(r, c) == job' = [job EXCEPT ![r].call = c] /\ UNCHANGED pc

\* Mutated form of EndRemoval: the loop over the nodes ends after the first one.
EndRemovalFirst(r) ==
    \/ /\ pc[r] = "clear"
       /\ Goto(r, "create") /\ job' = [job EXCEPT ![r].tries = 0]
    \/ /\ pc[r] = "retry"
       /\ Goto(r, "create") /\ job' = [job EXCEPT ![r].tries = @ + 1]
    \/ /\ pc[r] = "cleanup"
       /\ Visit(r, job[r], job[r].todo, "cleanup", "saveStop")
    \/ /\ pc[r] = "remove"
       /\ Goto(r, IF job[r].op = "delete" THEN "removeDir" ELSE "saveStop")
       /\ UNCHANGED job

EndRemoval(r) ==
    \/ /\ pc[r] = "clear"
       /\ Goto(r, "create") /\ job' = [job EXCEPT ![r].tries = 0]
    \/ /\ pc[r] = "retry"
       /\ Goto(r, "create") /\ job' = [job EXCEPT ![r].tries = @ + 1]
    \/ /\ pc[r] = "cleanup"
       /\ Visit(r, job[r], job[r].todo, "cleanup", "saveStop")
    \/ /\ pc[r] = "remove"
       /\ Visit(r, job[r], job[r].todo, "remove",
                IF job[r].op = "delete" THEN "removeDir" ELSE "saveStop")

RemovalInspect(r) ==
    LET n == job[r].cur
    IN  /\ pc[r] \in Removing /\ job[r].call = "inspect"
        /\ \/ Found(r) /\ Running(n)  /\ NextCall(r, "stop")
           \/ Found(r) /\ ~Running(n) /\ NextCall(r, "remove")
           \/ ~Found(r) /\ EndRemoval(r)
        /\ UNCHANGED <<db, ctr, mem, told, cron, env>>

\* Stopping a container that does not run is an error (304) to dockerode.
RemovalStop(r) ==
    LET n == job[r].cur
    IN  /\ pc[r] \in Removing /\ job[r].call = "stop"
        /\ \/ /\ Found(r) /\ Running(n)
              /\ SetState(n, "exited") /\ NextCall(r, "remove")
           \/ /\ ~(Found(r) /\ Running(n))
              /\ EndRemoval(r) /\ UNCHANGED ctr
        /\ UNCHANGED <<db, mem, told, cron, env>>

\* Removing a running container without `force' is an error (409).
RemovalRemove(r) ==
    LET n == job[r].cur
    IN  /\ pc[r] \in Removing /\ job[r].call = "remove"
        /\ \/ Found(r) /\ ~Running(n) /\ ctr' = [ctr EXCEPT ![n] = NoContainer]
           \/ ~(Found(r) /\ ~Running(n)) /\ UNCHANGED ctr
        /\ EndRemoval(r)
        /\ UNCHANGED <<db, mem, told, cron, env>>

------------------------------------------------------------------------------
(* Creating the containers of an activation, and the cache of active nodes. *)

\* Mutated form of AttemptFails: one attempt too many.
AttemptFailsLate(r) ==
    \/ /\ job[r].tries <= RetryCount
       /\ Goto(r, "retry") /\ job' = [job EXCEPT ![r].call = "inspect"]
    \/ /\ job[r].tries > RetryCount
       /\ Fail(r)

\* createContainer's catch: clean up and try again, or give up.
AttemptFails(r) ==
    \/ /\ job[r].tries < RetryCount
       /\ Goto(r, "retry") /\ job' = [job EXCEPT ![r].call = "inspect"]
    \/ /\ job[r].tries >= RetryCount
       /\ Fail(r)

Create(r) ==
    LET n == job[r].cur
    IN  /\ pc[r] = "create"
        /\ \/ /\ ~Exists(n)
              /\ ctr' = [ctr EXCEPT ![n] = [by |-> r, state |-> "created"]]
              /\ Goto(r, "start") /\ UNCHANGED job
           \/ /\ Exists(n)                       \* the name is taken (409)
              /\ AttemptFails(r) /\ UNCHANGED ctr
        /\ UNCHANGED <<db, mem, told, cron, env>>

Owns(r, n) == Exists(n) /\ ctr[n].by = r

\* Mutated form of Start: the container is not recorded for the cleanup.
StartUntracked(r) ==
    LET n == job[r].cur
    IN  /\ pc[r] = "start"
        /\ \/ /\ Owns(r, n) /\ ~Running(n)
              /\ SetState(n, "running")
              /\ Goto(r, "inspect") /\ UNCHANGED job
           \/ /\ ~(Owns(r, n) /\ ~Running(n))
              /\ AttemptFails(r) /\ UNCHANGED ctr
        /\ UNCHANGED <<db, mem, told, cron, env>>

Start(r) ==
    LET n == job[r].cur
    IN  /\ pc[r] = "start"
        /\ \/ /\ Owns(r, n) /\ ~Running(n)
              /\ SetState(n, "running")
              /\ Goto(r, "inspect")
              /\ job' = [job EXCEPT ![r].made = @ \cup {n}]
           \/ /\ ~(Owns(r, n) /\ ~Running(n))
              /\ AttemptFails(r) /\ UNCHANGED ctr
        /\ UNCHANGED <<db, mem, told, cron, env>>

InspectNew(r) ==
    /\ pc[r] = "inspect"
    /\ \/ /\ Owns(r, job[r].cur)
          /\ Visit(r, job[r], job[r].todo, "clear", "cacheRead")
       \/ /\ ~Owns(r, job[r].cur)
          /\ Fail(r)
    /\ UNCHANGED <<db, ctr, mem, told, cron, env>>

\* cacheActiveNodes: read the cache, inspect every container, write the merge.
CacheRead(r) ==
    /\ \/ pc[r] = "cacheRead"
       \/ pc[r] = "restart" /\ job[r].todo = {} /\ job[r].made = {}
    /\ Goto(r, "cacheWrite")
    /\ job' = [job EXCEPT ![r].read = cache]
    /\ UNCHANGED <<db, ctr, mem, told, cron, env>>

SeenRunning(r, n) == Running(n) /\ (job[r].op = "activate" => ctr[n].by = r)

CacheWrite(r) ==
    /\ pc[r] = "cacheWrite"
    /\ \/ /\ \A n \in job[r].nodes : SeenRunning(r, n)
          /\ cache' = job[r].read \cup job[r].nodes
          /\ Goto(r, "wait")
          /\ job' = [job EXCEPT ![r].todo = job[r].nodes, ![r].read = {}]
       \/ /\ \E n \in job[r].nodes : ~SeenRunning(r, n)
          /\ Fail(r) /\ UNCHANGED cache
    /\ UNCHANGED <<db, ctr, snaps, told, cron, env>>

------------------------------------------------------------------------------
(* Waiting for the nodes, and what is stored and announced at the end. *)

\* A node greets: whatever container holds its name publishes its port.
NodeAnswers(r) ==
    /\ pc[r] = "wait"
    /\ \E n \in job[r].todo :
       Running(n) /\ job' = [job EXCEPT ![r].todo = @ \ {n}]
    /\ UNCHANGED <<pc, db, ctr, mem, told, cron, env>>

\* Mutated form of WaitTimeout: no deadline.
WaitForever(r) == FALSE

WaitTimeout(r) ==
    /\ pc[r] = "wait" /\ job[r].todo # {}
    /\ Fail(r)
    /\ UNCHANGED <<db, ctr, mem, told, cron, env>>

\* Mutated form of SaveRunning: the status announced is the one loaded.
SaveRunningStale(r) ==
    /\ pc[r] = "wait" /\ job[r].todo = {} /\ job[r].op = "activate"
    /\ row' = [row EXCEPT ![HeadOf(r)] = "running"]
    /\ Goto(r, "emit") /\ UNCHANGED job
    /\ UNCHANGED <<nodeRows, dirs, ctr, mem, told, cron, env>>

\* `save' of a loaded head inserts the row again when it is gone.
SaveRunning(r) ==
    /\ pc[r] = "wait" /\ job[r].todo = {} /\ job[r].op = "activate"
    /\ row' = [row EXCEPT ![HeadOf(r)] = "running"]
    /\ Goto(r, "emit")
    /\ job' = [job EXCEPT ![r].status = "running"]
    /\ UNCHANGED <<nodeRows, dirs, ctr, mem, told, cron, env>>

\* status = 'stop', saved by a failed activation, a failed restart that found
\* a node down, and a deactivation. A failed restart goes on to announce the
\* status it had read before.
SaveStop(r) ==
    /\ pc[r] = "saveStop"
    /\ row' = [row EXCEPT ![HeadOf(r)] = "stop"]
    /\ \/ /\ job[r].op = "activate"
          /\ Goto(r, "emitFailed") /\ job' = [job EXCEPT ![r].status = "stop"]
       \/ /\ job[r].op = "restart"
          /\ Goto(r, "emitFailed") /\ UNCHANGED job
       \/ /\ job[r].op = "deactivate"
          /\ Goto(r, "refresh") /\ UNCHANGED job
    /\ UNCHANGED <<nodeRows, dirs, ctr, mem, told, cron, env>>

\* ACTIVE_HYDRA_HEAD, handed to the listener that posts it to the hub.
Emit(r) ==
    /\ \/ pc[r] = "emit" /\ Finish(r, "done")
       \/ pc[r] = "wait" /\ job[r].todo = {} /\ job[r].op = "restart" /\ Finish(r, "done")
       \/ pc[r] = "emitFailed" /\ Finish(r, "failed")
    /\ told' = [told EXCEPT ![HeadOf(r)] = job[r].status]
    /\ UNCHANGED <<db, ctr, mem, cron, env>>

------------------------------------------------------------------------------
(* The rest of restart, deactivate and delete. *)

\* Restart only what the cache lists as active, every node of it.
RestartCheck(r) ==
    /\ pc[r] = "listed"
    /\ \/ /\ job[r].nodes \subseteq cache
          /\ Goto(r, "restart")
          /\ job' = [job EXCEPT ![r].todo = job[r].nodes]
       \/ /\ ~ job[r].nodes \subseteq cache
          /\ Finish(r, "rejected")
    /\ UNCHANGED <<db, ctr, mem, told, cron, env>>

\* Docker's restart, called for all nodes at once: it stops the container
\* (no other call sees it running meanwhile) and starts that same container.
RestartStop(r) ==
    /\ pc[r] = "restart" /\ UNCHANGED pc
    /\ \E n \in job[r].todo :
       \/ /\ Exists(n)
          /\ SetState(n, "restarting")
          /\ job' = [job EXCEPT ![r].todo = @ \ {n}, ![r].made = @ \cup {n}]
       \/ /\ ~Exists(n)                       \* 404, swallowed
          /\ job' = [job EXCEPT ![r].todo = @ \ {n}]
          /\ UNCHANGED ctr
    /\ UNCHANGED <<db, mem, told, cron, env>>

RestartStart(r) ==
    /\ pc[r] = "restart" /\ UNCHANGED pc
    /\ \E n \in job[r].made :
       /\ job' = [job EXCEPT ![r].made = @ \ {n}]
       /\ \/ ctr[n].state = "restarting" /\ SetState(n, "running")
          \/ ctr[n].state # "restarting" /\ UNCHANGED ctr
    /\ UNCHANGED <<db, mem, told, cron, env>>

\* The catch block of restart: stop at the first node that does not run.
RestartVerify(r) ==
    /\ pc[r] = "verify"
    /\ \/ /\ job[r].todo = {}
          /\ Goto(r, "emitFailed") /\ UNCHANGED job
       \/ \E n \in job[r].todo :
          \/ /\ Running(n)
             /\ UNCHANGED pc /\ job' = [job EXCEPT ![r].todo = @ \ {n}]
          \/ /\ ~Running(n)
             /\ Goto(r, "saveStop") /\ UNCHANGED job
    /\ UNCHANGED <<db, ctr, mem, told, cron, env>>

\* Mutated form of Listing: stopped containers are listed too.
ListingAll == snaps' = snaps \cup {{n \in Nodes : Exists(n)}}

\* docker.listContainers answers with the containers that run now.
Listing == snaps' = snaps \cup {RunningNodes}

\* deactivate's own updateHydraContainerStatus.
Refresh(r) ==
    /\ pc[r] = "refresh"
    /\ Listing
    /\ Finish(r, "done")
    /\ UNCHANGED <<db, ctr, cache, told, cron, env>>

\* Best effort: an error is only logged.
RemoveDir(r) ==
    /\ pc[r] = "removeDir"
    /\ Goto(r, "deleteRows") /\ UNCHANGED job
    /\ dirs' = dirs \ {HeadOf(r)}
    /\ UNCHANGED <<row, nodeRows, ctr, mem, told, cron, env>>

\* One transaction deletes the node rows and the head.
DeleteRows(r) ==
    /\ pc[r] = "deleteRows"
    /\ row' = [row EXCEPT ![HeadOf(r)] = "absent"]
    /\ nodeRows' = nodeRows \ {HeadOf(r)}
    /\ Finish(r, "done")
    /\ UNCHANGED <<dirs, ctr, mem, told, cron, env>>

------------------------------------------------------------------------------
(* checkNodeHealth, every 10 seconds. *)

\* Mutated form of NextHead: one list of stopped nodes for the whole pass.
NextHeadKeepsList(p, S) ==
    \/ S = {} /\ cron' = [cron EXCEPT ![p] = Idle]
    \/ \E h \in S :
       cron' = [cron EXCEPT ![p] = [pc |-> "check", heads |-> S \ {h}, head |-> h,
                                    todo |-> NodesOf[h], down |-> cron[p].down]]

\* Take the next head of S, with its list of stopped nodes empty.
NextHead(p, S) ==
    \/ S = {} /\ cron' = [cron EXCEPT ![p] = Idle]
    \/ \E h \in S :
       cron' = [cron EXCEPT ![p] = [pc |-> "check", heads |-> S \ {h}, head |-> h,
                                    todo |-> NodesOf[h], down |-> {}]]

\* Heads stored as running; those without nodes are passed over.
CronFind(p) ==
    LET found == {h \in Heads : row[h] = "running" /\ h \in nodeRows}
    IN  /\ cron[p].pc = "idle" /\ found # {}
        /\ NextHead(p, found)
        /\ UNCHANGED <<pc, job, db, ctr, mem, told, env>>

\* Mutated form of CronCheck: the last node checked decides.
CronCheckLast(p) ==
    /\ cron[p].pc = "check"
    /\ \E n \in cron[p].todo :
       cron' = [cron EXCEPT ![p].todo = @ \ {n},
                            ![p].down = IF Running(n) THEN {} ELSE {n}]
    /\ UNCHANGED <<pc, job, db, ctr, mem, told, env>>

CronCheck(p) ==
    /\ cron[p].pc = "check"
    /\ \E n \in cron[p].todo :
       cron' = [cron EXCEPT ![p].todo = @ \ {n},
                            ![p].down = IF Running(n) THEN @ ELSE @ \cup {n}]
    /\ UNCHANGED <<pc, job, db, ctr, mem, told, env>>

CronAllUp(p) ==
    /\ cron[p].pc = "check" /\ cron[p].todo = {} /\ cron[p].down = {}
    /\ NextHead(p, cron[p].heads)
    /\ UNCHANGED <<pc, job, db, ctr, mem, told, env>>

\* Mutated form of CronUpdate: `save' instead of `update'.
CronUpsert(p) ==
    /\ cron[p].pc = "check" /\ cron[p].todo = {} /\ cron[p].down # {}
    /\ row' = [row EXCEPT ![cron[p].head] = "stop"]
    /\ cron' = [cron EXCEPT ![p].pc = "emit"]
    /\ UNCHANGED <<pc, job, nodeRows, dirs, ctr, mem, told, env>>

\* `update' writes nothing when the row is gone.
CronUpdate(p) ==
    LET h == cron[p].head
    IN  /\ cron[p].pc = "check" /\ cron[p].todo = {} /\ cron[p].down # {}
        /\ row' = [row EXCEPT ![h] = IF @ = "absent" THEN @ ELSE "stop"]
        /\ cron' = [cron EXCEPT ![p].pc = "emit"]
        /\ UNCHANGED <<pc, job, nodeRows, dirs, ctr, mem, told, env>>

CronEmit(p) ==
    /\ cron[p].pc = "emit"
    /\ told' = [told EXCEPT ![cron[p].head] = "stop"]
    /\ NextHead(p, cron[p].heads)
    /\ UNCHANGED <<pc, job, db, ctr, mem, env>>

------------------------------------------------------------------------------
(* updateHydraContainerStatus, every 10 seconds, and the environment. *)

CronRefresh ==
    /\ Cardinality(snaps) < MaxListings
    /\ Listing
    /\ UNCHANGED <<pc, job, db, ctr, cache, told, cron, env>>

\* The promise of a listing settles; two of them may do so in either order.
StoreListing(s) ==
    /\ s \in snaps
    /\ cache' = s
    /\ snaps' = snaps \ {s}
    /\ UNCHANGED <<pc, job, db, ctr, told, cron, env>>

\* A listing fails and stores [], or the entry outlives its 60 seconds.
CacheEmptied ==
    /\ Mishap("fault") /\ UNCHANGED disturbed
    /\ cache' = {}
    /\ UNCHANGED <<pc, job, db, ctr, snaps, told, cron>>

ContainerDies(n) ==
    /\ Mishap("death")
    /\ Running(n)
    /\ SetState(n, "exited")
    /\ disturbed' = disturbed \cup
         {q \in Reqs : InFlight(q) /\ \E h \in Heads : HeadOf(q) = h /\ n \in NodesOf[h]}
    /\ UNCHANGED <<pc, job, db, mem, told, cron>>

\* The process dies: requests, passes, listings and the cache are gone, rows,
\* directories and containers stay. The daemon may or may not finish a restart.
Crash ==
    /\ Mishap("crash") /\ UNCHANGED disturbed
    /\ pc' = [r \in Reqs |-> IF InFlight(r) THEN "lost" ELSE pc[r]]
    /\ job' = [r \in Reqs |-> [NoJob EXCEPT !.op = job[r].op, !.head = job[r].head]]
    /\ cache' = {} /\ snaps' = {}
    /\ cron' = [p \in Passes |-> Idle]
    /\ \E back \in SUBSET {n \in Nodes : ctr[n].state = "restarting"} :
       ctr' = [n \in Nodes |-> IF n \in back THEN [ctr[n] EXCEPT !.state = "running"]
                               ELSE ctr[n]]
    /\ UNCHANGED <<db, told>>

------------------------------------------------------------------------------
ReqStep(r) ==
    \/ Load(r) \/ CheckLimit(r) \/ Prepare(r)
    \/ RemovalInspect(r) \/ RemovalStop(r) \/ RemovalRemove(r)
    \/ Create(r) \/ Start(r) \/ InspectNew(r) \/ CacheRead(r) \/ CacheWrite(r)
    \/ NodeAnswers(r) \/ WaitTimeout(r) \/ SaveRunning(r) \/ SaveStop(r) \/ Emit(r)
    \/ RestartCheck(r) \/ RestartStop(r) \/ RestartStart(r) \/ RestartVerify(r)
    \/ Refresh(r) \/ RemoveDir(r) \/ DeleteRows(r)

\* The call a handler awaits fails and changes nothing: before the try block
\* the request is over, inside it the catch block follows; a removal, a restart
\* of a container and the removal of the directory only log it; in verify it
\* counts as a node that is down.
ReqFault(r) ==
    /\ disturbed' = disturbed \cup {r}
    /\ UNCHANGED <<db, ctr, mem, told, cron>>
    /\ \/ /\ pc[r] \in {"create", "start"}
          /\ Mishap("refusal")
          /\ AttemptFails(r)
       \/ /\ Mishap("fault")
          /\ \/ pc[r] \in {"load", "prepare"} /\ Finish(r, "rejected")
             \/ pc[r] \in Removing /\ EndRemoval(r)
             \/ pc[r] \in {"inspect", "cacheWrite"} /\ Fail(r)
             \/ pc[r] = "wait" /\ job[r].todo = {} /\ job[r].op = "activate" /\ Fail(r)
             \/ pc[r] \in {"saveStop", "deleteRows"} /\ Finish(r, "failed")
             \/ pc[r] = "removeDir" /\ Goto(r, "deleteRows") /\ UNCHANGED job
             \/ pc[r] = "verify" /\ job[r].todo # {} /\ Goto(r, "saveStop") /\ UNCHANGED job
             \/ /\ pc[r] = "restart" /\ UNCHANGED pc
                /\ \E n \in job[r].todo \cup job[r].made :
                   job' = [job EXCEPT ![r].todo = @ \ {n}, ![r].made = @ \ {n}]

CronStep(p) ==
    CronFind(p) \/ CronCheck(p) \/ CronAllUp(p) \/ CronUpdate(p) \/ CronEmit(p)

\* An inspect that fails counts as not running; an update that fails is logged.
CronFault(p) ==
    /\ cron[p].pc = "check"
    /\ Mishap("fault")
    /\ \/ \E n \in cron[p].todo :
          cron' = [cron EXCEPT ![p].todo = @ \ {n}, ![p].down = @ \cup {n}]
       \/ /\ cron[p].todo = {} /\ cron[p].down # {}
          /\ NextHead(p, cron[p].heads)
    /\ UNCHANGED <<pc, job, db, ctr, mem, told, disturbed>>

Next ==
    \/ \E r \in Reqs : Accept(r) \/ ReqStep(r) \/ ReqFault(r)
    \/ \E p \in Passes : CronStep(p) \/ CronFault(p)
    \/ CronRefresh
    \/ \E s \in SUBSET Nodes : StoreListing(s)
    \/ CacheEmptied \/ Crash
    \/ \E n \in Nodes : ContainerDies(n)

Spec == Init /\ [][Next]_vars

\* Every awaited call of a request, a pass or a listing settles in the end;
\* the crons go on ticking. Clients owe nothing, nor does the environment.
Fairness ==
    /\ \A r \in Reqs : WF_vars(ReqStep(r))
    /\ \A p \in Passes : WF_vars(CronStep(p))
    /\ WF_vars(CronRefresh)
    /\ \A s \in SUBSET Nodes : WF_vars(StoreListing(s))

FairSpec == Spec /\ Fairness

------------------------------------------------------------------------------
(* Types. *)

Commanded == Commands \cup {"none"}
Statuses  == {"none", "absent", "configured", "running", "stop"}

JobType == [op : Commanded, head : Heads \cup {None}, nodes : SUBSET Nodes,
            status : Statuses, todo : SUBSET Nodes, cur : Nodes \cup {None},
            made : SUBSET Nodes, read : SUBSET Nodes, tries : 0 .. RetryCount,
            call : {"none", "inspect", "stop", "remove"}]

CronType == [pc : {"idle", "check", "emit"}, heads : SUBSET Heads,
             head : Heads \cup {None}, todo : SUBSET Nodes, down : SUBSET Nodes]

ContainerType == [by : Reqs \cup {Earlier},
                  state : {"absent", "created", "running", "restarting", "exited"}]

\* Type correctness; in particular createContainer never starts an attempt
\* beyond its retryCount.
TypeOK ==
    /\ pc \in [Reqs -> Phases]
    /\ job \in [Reqs -> JobType]
    /\ row \in [Heads -> {"absent", "configured", "running", "stop"}]
    /\ nodeRows \subseteq Heads /\ dirs \subseteq Heads
    /\ ctr \in [Nodes -> ContainerType]
    /\ cache \subseteq Nodes /\ snaps \subseteq SUBSET Nodes
    /\ told \in [Heads -> Statuses]
    /\ cron \in [Passes -> CronType]
    /\ mishaps \in 0 .. MaxMishaps /\ disturbed \subseteq Reqs

------------------------------------------------------------------------------
(* Safety. *)

\* The cleanup of a failed activation works on the containers it made, by id:
\* it never stops or removes a container another activation has meanwhile put
\* under the same name.
CleanupSparesOthers ==
    [][\A r \in Reqs, n \in Nodes :
         (/\ pc[r] = "cleanup" /\ pc'[r] # "lost"
          /\ <<pc'[r], job'[r]>> # <<pc[r], job[r]>>
          /\ ctr[n].by # r)
         => ctr'[n] = ctr[n]]_vars

\* An activation that failed leaves no container of its own running, however
\* the other activations, deactivations and deletions of the head interleave
\* with it and whatever dies meanwhile. (Not so when a restart revives a
\* container between the stop and the removal, or when Docker fails a cleanup.)
NoStrayAfterFailure ==
    \A r \in Reqs : pc[r] \in {"saveStop", "emitFailed", "failed", "rejected"} =>
        \A n \in Nodes : ~(ctr[n].by = r /\ Running(n))

\* A pass of the health cron stops a head only for nodes of that head: its
\* list of stopped nodes starts empty for every head.
CronBlamesOwnNodes ==
    \A p \in Passes : cron[p].pc # "idle" => cron[p].down \subseteq NodesOf[cron[p].head]

\* An activation that ran alone and reports success leaves every node of its
\* head running in a container of its own, and the hub told so.
ActivatedAlone ==
    [][\A r \in Reqs : (pc[r] = "emit" /\ pc'[r] = "done" /\ r \notin disturbed') =>
         /\ \A n \in NodesOf[HeadOf(r)] : Owns(r, n) /\ Running(n)
         /\ told'[HeadOf(r)] = "running"]_vars

\* Whether a command can have known of the nodes of h: a head that `save' has inserted
\* again after its deletion has none.
NodesGone(h) == h \in nodeRows => \A n \in NodesOf[h] : ~Exists(n)

NodesDown(h) ==
    h \in nodeRows => \A n \in NodesOf[h] : ctr[n].state \notin {"running", "restarting"}

\* A deactivation that ran alone leaves no container of its head running, a
\* deletion no container at all, a failed activation none that it made, started
\* or not; and the row says so.
StoppedAlone ==
    [][\A r \in Reqs : (InFlight(r) /\ pc'[r] \in {"done", "failed"} /\ r \notin disturbed') =>
         LET h == HeadOf(r) IN
         CASE job[r].op = "activate" /\ pc'[r] = "failed" ->
                row'[h] = "stop" /\ \A n \in Nodes : ~(Exists(n) /\ ctr[n].by = r)
           [] job[r].op = "deactivate" -> row'[h] = "stop" /\ NodesDown(h)
           [] job[r].op = "delete" -> row'[h] = "absent" /\ h \notin dirs' /\ NodesGone(h)
           [] OTHER -> TRUE]_vars

\* "Stop all containers for this head (don't remove, keep for reuse)", says the
\* comment in deactiveHydraHead: a container that a deactivation comes to exists
\* after its step. The code removes it.
KeptForReuse ==
    [][\A r \in Reqs :
         (/\ job[r].op = "deactivate" /\ pc[r] = "remove"
          /\ <<pc'[r], job'[r]>> # <<pc[r], job[r]>>)
         => \A n \in NodesOf[HeadOf(r)] : Exists(n) => Exists(n)']_vars

DeletedBy(r, h) == pc[r] = "done" /\ job[r].op = "delete" /\ HeadOf(r) = h

\* A head deleted by a request that ran alone stays deleted: neither the health
\* cron, which may have loaded it before, nor a later request brings back its
\* row, its nodes or, if that was its first deletion, a container.
DeletedForGood ==
    \A r \in Reqs, h \in Heads : DeletedBy(r, h) /\ r \notin disturbed =>
        /\ row[h] = "absent" /\ h \notin nodeRows
        /\ (\A q \in Reqs \ {r} : ~DeletedBy(q, h)) => \A n \in NodesOf[h] : ~Exists(n)

------------------------------------------------------------------------------
(* Liveness, under FairSpec. *)

\* checkNodeHealth: a head stored as running while a container of it does not
\* run does not stay so: it is stored as stopped (or deleted), or the
\* containers come back.
DeadHeadsAreStopped ==
    \A h \in Heads :
        (row[h] = "running" /\ h \in nodeRows /\ \E n \in NodesOf[h] : ~Running(n))
        ~> (row[h] # "running" \/ h \notin nodeRows \/ \A n \in NodesOf[h] : Running(n))

\* Every accepted request is answered, or lost with the process.
RequestsEnd == \A r \in Reqs : InFlight(r) ~> pc[r] \in Ended

\* list(): a head is ACTIVE when the cache holds all its nodes.
ListedActive(h) == h \in nodeRows /\ NodesOf[h] \subseteq cache

\* Lost updates of the cache (a listing taken before an activation, stored
\* after it) heal: once nothing happens any more, list() reports ACTIVE for
\* exactly the heads whose containers all run.
ListBecomesTrue ==
    <>[](\A h \in nodeRows : ListedActive(h) <=> \A n \in NodesOf[h] : Running(n))
=============================================================================
