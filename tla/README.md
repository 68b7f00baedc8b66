# Verification of Hydra Hexcore

Hydra Hexcore (`src/src`) is a NestJS service that creates Hydra heads, runs
one Docker container per Hydra node, keeps the heads in a MySQL database, and
tells a hub what state they are in. This directory holds TLA+ models of it,
the TLC runs that check them on small instances, and TLAPS proofs for every
instance.

## 1. Inventory

The service is one Node.js process: JavaScript runs without preemption, and
everything interleaves at `await`s. Commands arrive over HTTP and are not
serialised in any way: there is no lock per head, no queue, and no command
looks at the stored status of a head before it starts.

| Part | State | Operations | What is hard |
|---|---|---|---|
| Head lifecycle (`hydra-heads.service.ts`) | locals of every request; row `hydra_head` (status `configured`/`running`/`stop`), rows `hydra_node`, the head's directory | activate, deactivate, restart, delete, list | requests of one head overlap at every await; a stale entity is saved at the end; partial failure and cleanup |
| Containers (`docker.service.ts`) | the Docker daemon: one container per node *name* | remove by name, create and start with retries, cleanup by *id*, restart, inspect | the name of a container may have a new owner; errors are swallowed |
| Cache of active nodes (`docker.service.ts`, `app.module.ts`) | one entry `activeNodes`, 60 s TTL | listing every 10 s, merge after an activation | listings settle late and in any order; read, await, write |
| Health check (`checkNodeHealth`) | heads loaded by a pass, its list of stopped nodes | every 10 s | passes overlap each other and every command |
| Event listener and hub client (`active-hydra-head.listener.ts`, `hydrahub-api.service.ts`, `base-api.service.ts`) | none of its own; the hub's status of each head | post a status to the hub | posts overlap, fail, are given up and still arrive; no retry |
| Head creation, ports, clear data | rows, directories, ports, connection pool | create, genValidPort, clearHeadData | port races, saves outside of the transaction, unreleased query runners |
| Hydra main service (`hydra-main.service.ts`) | cardano-node container, `hydra-network`, a second writer of the cache, accounts | onModuleInit, ensureHydraNetwork, updateHydraContainerStatus, createAccount | a start finds what an earlier, broken one left; a failure ends the process |
| Ogmios client (`ogmios-client.service.ts`) | one websocket and a flag | connect, queries, disconnect, the socket's handlers | every call connects for itself; a handler does not know whose event it hears |
| Conversions and interceptors (`bigint.utils.ts`, `ogmios-converter.ts`, `common/interceptors`) | none | BigInts to strings and back, the envelope of an answer | JSON cannot write a BigInt; the order of interceptors |
| RabbitMQ client | connection, channel, timer | connect, publish, consume, reconnect, destroy | reconnect timers against close and destroy |
| Monitoring agent | interval, retry timers | tick, publish, retry | ticks overlap, retries after destroy |
| Authentication, seeders | user table | login, guards, the seeding of the admin | sequential; scripts run by hand |
| Wiring | none | bootstrap | order of the interceptors |

What makes each part correct:

* *Lifecycle*: a failed activation leaves nothing of its own behind and
  nothing of anybody else's damaged; a command that nobody disturbs does what
  it reports; a deleted head stays deleted; every request ends.
* *Health check*: a head is stopped for its own nodes only; a dead head is
  noticed.
* *Cache*: `list` tells the truth in the end.
* *Hub*: what it believes agrees with what is stored, and does not go back.
* *Start*: it comes up whatever was left behind, with cardano-node on the
  network of the hydra nodes.
* *Answers*: no amount is lost on the way out.
* *Creation*: success means a whole head; deletion wins over a creation under
  way; every creation is answered.
* *RabbitMQ, monitoring, Ogmios*: one connection at a time, and one in the
  end whatever happened to those before; a failed publication is tried again.

## 2. Plan

1. `HeadLifecycle` (done): lifecycle, containers, cache, health check in one
   module, since all of them share the containers, the row and the cache.
   Proofs in `HeadLifecycleProofs` and `HeadCommandProofs`.
2. `HubSync`: the posts to the hub, with the ways in which a status is stored
   and announced (done). Proofs in `HubSyncProofs`.
3. `HeadCreation`: create, port allocation, connection pool, and deletion of a
   head under creation (done). Proofs in `HeadCreationProofs`.
4. `NodeReadiness`: the websocket probe, shown to implement a one-shot answer;
   `ContainerCreation`: the retry loop as an implementation of "create or fail".
5. `RabbitMqClient`, the abstract `ReconnectLoop` it implements, and
   `MonitoringAgent`, which extends it (done). Proofs in `MetricsProofs`.
6. `OgmiosClient`: one context and its flag under concurrent calls (done).
   `HydraMainInit`, which extends it: the bring-up of the cardano-node container
   and of the network over restarts of the process (done). Proofs in
   `OgmiosClientProofs` and `HydraMainInitProofs`.
7. `BigIntConversion` (operators) and `Responses`, the way of an answer through
   the interceptors (done). Proofs in `ResponsesProofs`.
8. Next: item 4.

## 3. HeadLifecycle

### State

| Variable | Code |
|---|---|
| `pc[r]`, `job[r]` | where the handler of request `r` stands, and its locals: `head` and `nodes` (the loaded entity), `status` (`head.status` of that entity), `cur`/`todo` (the loops), `made` (`createdContainers`; in a restart the containers in the middle of one), `read` (`currentActiveNodes`), `tries` (`attempt`), `call` (which Docker call a removal is at) |
| `row`, `nodeRows`, `dirs` | the rows of the head and its nodes, the directory |
| `ctr[n]` | the container holding the name of node `n`: its state and the request that created it. A handle (an id) of the code denotes the container a request made; a name denotes whatever container holds it |
| `cache`, `snaps` | the entry `activeNodes`; listings the daemon has answered and whose `then` has not run |
| `told` | the last status handed to the listener, per head |
| `cron[p]` | a pass of `checkNodeHealth`: the heads it loaded, the one at hand, `stoppedNodes` |
| `mishaps` | how many misfortunes there were (a bound) |
| `disturbed` | history: requests that overlapped another one on their head, whose own call failed, or one of whose containers died |

### Actions

Every action ends at an `await` whose result something else can overtake.
`Accept`, `Load`, `CheckLimit`, `Prepare` are the start of a command;
`RemovalInspect/Stop/Remove` the three calls of every removal, shared by
`handleDockerContainerExist` (phase `clear`), `removeContainerByName`
(`remove`) and `cleanupContainer` (`retry`, `cleanup`), which differ in what
they look up (`Found`) and in what follows (`EndRemoval`); `Create`, `Start`,
`InspectNew` the loop of the activation; `CacheRead`, `CacheWrite`
`cacheActiveNodes`; `NodeAnswers`, `WaitTimeout` the wait for the nodes;
`SaveRunning`, `SaveStop`, `Emit` the ends; `Restart*`, `Refresh`,
`RemoveDir`, `DeleteRows` the other commands; `ReqFault` a call that rejects,
with the catch block that follows; `Cron*` the health check; `CronRefresh`,
`StoreListing`, `CacheEmptied` the listing; `ContainerDies`, `Crash` the
environment.

### Abstractions

* Containers are identified by their creator; a request has at most one
  container per name at a time.
* The order of the nodes in a loop is arbitrary.
* `save(head)` is one step that updates the row or inserts it; it does not
  bring node rows back (the relation does not cascade).
* The inspections of `cacheActiveNodes` and its write are one step, as are
  the calls of `Prepare`. `createContainer`'s pause is no step of its own.
* A websocket probe is one step that succeeds if a container runs under the
  node's name; the deadline may pass whenever a node has not answered.
* `restart` of a container is two steps, so that others see it down between
  them; a crash of the service in between leaves it to the daemon.
* The expiry of the cache entry and a listing that fails both empty it.
* `list` only reads; it is the operator `ListedActive`.
* A faulty call changes nothing (`fault`); Docker refusing to create or start
  a container is a kind of its own (`refusal`), so that the two can be
  allowed separately.

### Properties

| Property | Says |
|---|---|
| `TypeOK` | types; attempts never exceed `retryCount` |
| `NoStrayAfterFailure` | a failed activation leaves none of its containers running |
| `CleanupSparesOthers` | its cleanup changes no container another request made |
| `ActivatedAlone` | an undisturbed activation that reports success has every node running in a container it made, and the hub told `running` |
| `StoppedAlone` | an undisturbed deactivation leaves no node of the head running, an undisturbed deletion no container of it, an undisturbed failed activation none that it made, and each the right row (a head whose row was inserted again has no nodes left to find, see section 9) |
| `KeptForReuse` | what a comment says of a deactivation, and the code does not do: the containers still exist after it (section 9) |
| `CronBlamesOwnNodes` | the health check stops a head for its own nodes only |
| `DeletedForGood` | an undisturbed deletion is final, although a pass may have loaded the head before and later requests name it; the containers are gone for good after the head's first deletion |
| `DeadHeadsAreStopped` | a running head with a dead container does not stay `running` |
| `RequestsEnd` | every request ends |
| `ListBecomesTrue` | once all is quiet, `list` reports exactly the heads whose nodes run |

"Undisturbed" is about one request: other requests on the head before or after
it, requests on other heads, both crons and crashes are all allowed. What commands leave
behind that overlap on one head is not asserted by these properties, nor what one leaves
whose call to Docker failed and was swallowed: the code promises nothing there.

## 4. RabbitMqClient and MonitoringAgent

`RabbitMqClient` is `rabbitmq.service.ts`, one action per stretch between two
awaits of `connect()` and of `onModuleDestroy()`, the timer, and the events of
a connection.

| Variable | Code |
|---|---|
| `module` | how far NestJS is with the module: `starting` until the first `connect()` has ended |
| `phase` | which await `connect()` is at; not `idle` is `isConnecting` |
| `connection`, `channel`, `timer` | the fields; a channel is known by its connection |
| `wire[c]` | connection `c` as the broker and amqplib see it: `unused`, `open`, `closed` (the event is on its way), `gone` |
| `handled` | the connections that `on('error')` and `on('close')` were called for |
| `shut` | the connections whose channel was closed |

* `connect()` registers its handlers last. A connection that breaks before that
  either closes silently (`CloseEvent` without a handler) or emits an `error`
  nobody listens for, which ends a Node.js process (`ErrorEvent`); the
  container restarts (`docker-compose.yml`), so everything begins anew.
* `ConnectFails` leaves the fields and the connection as they are. A declaration that
  the broker refuses also closes the channel.
* The delays are left out: any timer that is set may fire at any time.
* `app.close()` is called by tests only; `MayStop` says whether it may be.

`MonitoringAgent` EXTENDS the client with `monitoring-agent.service.ts`: ticks
of the interval and of the retry timer sample the CPU (`sampling` counts those
that do) and publish at the end through whatever channel there is. `Publish`
has the outcomes the call can have: no channel, taken (with either answer: the
answer is about the write buffer), lost in a socket that is closed already,
or refused by closing the channel, because the exchange is not declared yet.

| Property | Says |
|---|---|
| `NoOrphanIsWatched` | a connection whose close handler may still run is the one in the field, so that the handler never takes a newer one away |
| `SomebodyReconnects` | `connect()` runs, or its timer is set, never both, or a watched connection is live |
| `ReconnectsInTheEnd` | once the mishaps are over the channel works for good |
| `IsOneLoop` | the client implements `ReconnectLoop` (waiting, connecting, connected) with its fairness |
| `AgentTypeOK` | types; never two retry timers |
| `FailureIsRetried` | a failed publication has a retry pending or a tick under way |
| `MetricsKeepComing` | metrics go on arriving at the exchange |

The guard `if (this.reconnectTimer) return` is never needed while
`NoOrphanIsWatched` and `SomebodyReconnects` hold; the one of `scheduleRetry`
is, since ticks overlap.

## 5. HeadCreation

`create()` opens a transaction on a query runner, but does everything through
repositories, which take connections of their own: the transaction holds a
connection and covers nothing. The port of a node is searched from the first
one up: `Probe` listens on it, `Lookup` asks the database, `SaveNode` saves it
under a unique column. The head is there for everybody once its row is saved,
so that a deletion may come between any two steps.

| Variable | Code |
|---|---|
| `pc[r]`, `at[r]`, `port[r]` | where a call of `create` stands, the key and the port it is at |
| `pool` | calls whose query runner has a connection of the pool |
| `head[r]`, `row[r][i]` | the row of the head, the port in the row of its node `i` (0: no row) |
| `dir`, `files[r]` | directories of heads, nodes whose key files are in them |
| `del[h]`, `seen[h]` | a deletion of the head, and the nodes it has loaded |

A call that fails inside of the `try` block goes to the rollback, that of the commit among
them; one before it, when the transaction is begun, goes to nothing (`BeginFails`). A
probe also finds a port busy that another creation is probing at the moment (`Contended`).

A head is known by the request that creates it. The calls of one `SaveHead`
(account and head) and of one `WriteKeys` (four files) are one step; a call of a
repository takes and gives back its connection within the step, and waits while
the pool has none (`Connected`). Containers and a second deletion of the same
head are left to `HeadLifecycle`.

| Property | Says |
|---|---|
| `TypeOK` | types; the loop over the keys stays within the keys |
| `CreatedWhole` | success means a whole head: row, directory, and for every key a node and its files, unless the head is being deleted |
| `DeletionIsFinal` | after a successful deletion neither the head nor a node of it is there again |
| `CreationsEnd` | as long as the pool is not used up, every creation is answered |

## 6. OgmiosClient and HydraMainInit

`OgmiosClient` is `ogmios-client.service.ts`: one websocket, opened by whichever
call finds the client disconnected and shared by all. One action is what a call
does between two awaits, or one event.

| Variable | Code |
|---|---|
| `isConnected`, `interactionContext` | the fields; a context is known by its socket |
| `socket[s]` | socket `s`: `open`, `lost` (broken, no event yet), `failing` (between its `error` and its `close`), `gone` |
| `pc[i]`, `kind[i]`, `left[i]`, `at[i]` | a call: the await it is at (`dialing`, `preparing` the ledger client, `probing` the server's health, `waiting` for an answer), what it is for, its queries left, the socket its query is on |
| `server`, `stopped` | Ogmios; whether `onModuleDestroy` has run |
| `missed`, `crossed` | history: closed between the two awaits of a `connect()`; connects or events met in a way that leaves a socket open |

* What is asked and answered is left out; `queryTip` is `TipQueries` queries one
  after the other, each through the context of its moment.
* That a broken socket rejects the queries on it is how the library of the
  client is used here (`RejectOn`). No property rests on that alone.
* The `ledgerStateClient` field is written and never read.
* A call comes only when a socket is left for it (`SocketLeft`, a bound).

`HydraMainInit` EXTENDS it with `onModuleInit` of `hydra-main.service.ts` and
everything that meets it.

| Variable | Code |
|---|---|
| `mode` | `CARDANO_CONNECTION_MODE` |
| `networks`, `node`, `attached`, `named` | docker: networks called `hydra-network`; the container of the cardano-node image, whether it is on the network, whether it has the name `execInContainer` asks for |
| `step`, `found` | the await of the hook, the container it found |
| `ensure[t]` | a call of `ensureHydraNetwork`: the hook's, or an activation's (`DockerService` has the same method) |
| `refresh`, `activeNodes` | the listing nobody waits for; whose entries the cache has |
| `swallowed`, `crashes` | history |

That there are never two networks of the name is docker's doing (`CheckDuplicate`), and
external: it refuses the second `createNetwork`, which makes its caller fail. Requests
reach Ogmios in either mode: `HydraMainService` asks it in one mode only, the routes of
`OgmiosController` in both.

A hook that rejects ends the process, which docker starts again (`Crash`). Requests
and crons come only once both hooks have ended (`Up`). The container is found by
its image and addressed by its name (`hydra-main.service.ts:113` and `:186`); a
container of the image under another name makes every start fail, so that
liveness is asserted for containers that have the name.

| Property | Says |
|---|---|
| `FlagIsCorrected` | the flag is not `true` for good over a dead socket, unless its close came between the two awaits of a `connect()` |
| `NoSocketForgotten` | no socket is left open beside the one in the field, unless calls connect at once, the ledger client fails, or an older socket's event is taken for the newer one's |
| `OverlapIsHarmless` | calls that connect at the same time, and replace the socket under the queries of others, never make one another fail: while nothing outside fails and Ogmios runs, no call fails |
| `CallsEnd`, `WorksInTheEnd` | calls end; once the mishaps are over, no call fails any more, unless the client is blind (the flag is up over a socket that is gone) |
| `NetworkBeforeUse` | of tasks that all find the network missing, none goes on without it |
| `EnsuringSettles` | to lose the race for the network is no lasting error: in the end every call of `ensureHydraNetwork` succeeds |
| `AttachedWhenUp` | cardano-node is on the network when requests are served |
| `CrashesOnce` | the process exits once more at most than there were failures from outside |
| `BootsInTheEnd` | it is up in the end and stays so |
| `HeadsKnownInTheEnd` | the entries without heads that a start leaves in the cache do not last |

## 7. HubSync

One head, whose announcements are numbered in the order in which their status was
stored. `stored` is the row; `said[p]` what announcement `p` says; `post[p]` how
far it is here (`stored`, `open`, `ok`, `failed`), `wire[p]` how far its request
is; `hub` what the hub has. `Activation`, `HealthCheck`, `Restart` and
`Deactivation` store and announce as those methods do: a restart announces what
it loaded, a deactivation nothing. `Fails` is every way a post ends without
success, the timeout of axios among them, after which the request may still
arrive. A crash forgets what is not posted. The heads share nothing, so one is
enough.

| Property | Says |
|---|---|
| `NeverBack` | the hub never shows a status whose post had succeeded before another, which succeeded too, was sent |
| `HubAgrees` | after a successful last announcement the hub agrees with the row, if nothing was unfinished when it was stored and what was stored was announced |

## 8. BigIntConversion and Responses

`BigIntConversion` has the conversions of `bigint.utils.ts` and
`ogmios-converter.ts` that an answer meets. A value is the function from the paths of
its nodes to their kind and number; a string is the number it stands for, if any; the
keys are the constant `Key`. What the code computes by recursion over a value is then
said of its paths at once: `bigIntFields` is the set of the paths that end in a
BigInt, the conversion changes the kind of exactly those nodes. `KeysAssumption` names
the keys that the code itself reads or writes. `Responses` takes an answer from Ogmios,
through the handler, through the interceptor of its route, the envelope, the
global BigInt conversion and the resolution of promises, to JSON. What Ogmios may
answer are constants, a reference script is known by whether the converter knows its
language; `ResponsesAssumption` says that they are well-formed, and that
UTxOs have the shape of Ogmios' schema where the converter reads them. The
`ClassSerializerInterceptor` of `OgmiosController` is left out: it leaves BigInts as they are.

| Property | Says |
|---|---|
| `NothingUnwritable` | no BigInt is left in what is sent |
| `AmountsArrive` | each amount the handler returned is at its place, in decimal |
| `ListIsExact` | a reader that follows `bigIntFields` finds every amount and nothing else |

The tables leave out each module's type invariant.

## 9. Runs

| Run | Module | Bounds | Shows |
|---|---|---|---|
| `races` | `MCHeadLifecycle` | 1 head × 2 nodes, 2 requests (activate, deactivate, delete), 1 death or refusal, 2 attempts | the cleanup of a failed activation |
| `commands` | `MCHeadLifecycle` | 2 heads with 3 nodes, one head running at the start, 2 requests of any kind, 1 pass of the health check, 2 attempts, 1 misfortune of any kind, without the list cron | commands that nothing disturbs; the health check over several heads; deletions among other requests and passes |
| `settle` | `MCHeadLifecycle` | 1 running head × 2 nodes, 1 request, 2 faults or deaths | liveness |
| `metrics` | `MCMonitoringAgent` | 4 connections, 2 mishaps, 2 ticks at once, app.close() | safety of the reconnection and of the retries |
| `metrics_live` | `MCMonitoringAgent` | 3 connections, 2 mishaps, 2 ticks at once | liveness of the client and of the metrics, and the refinement of `ReconnectLoop` |
| `creation` | `MCHeadCreation` | 2 creations × 2 keys, 6 ports, one taken by another process, 3 connections in the pool, 1 failing call, a deletion per head | creations against each other and against deletion |
| `ogmios` | `MCOgmiosClient` | 3 calls, 2 queries in `queryTip` (five in the code), 4 sockets, 1 mishap, app.close() | the shared websocket |
| `bringup` | `MCHydraMainInit` | 3 calls, 1 query in `queryTip`, 3 sockets, 2 activations, 1 mishap, both modes, docker in any state | the start over restarts |
| `responses` | `MCResponses` | parameters, UTxO sets of up to 2 outputs, rows | the way of an answer |
| `hub` | `MCHubSync` | 3 announcements | posts to the hub |
| `pool` | `MCHeadCreation` | 3 creations, 2 connections in the pool | a finding |
| `deactivation` | `MCHeadLifecycle` | 1 running head × 2 nodes, 1 request, nothing fails | a finding |

Two requests are enough for every race between two commands, and for a command that
runs by itself after another one that failed or was lost at any point; two nodes for a
head that is half up, two heads for a pass that takes something from one to the next;
`commands` stops once its requests have ended and no head is left to check; a container that dies needs one misfortune, a death
that meets a fault two. A mishap of the client uses up at most one connection,
so that with one more connection than mishaps no attempt is refused for want of
an identity. Two queries are enough for a socket that is replaced between two of one
call; with one mishap a call meets one broken socket and connects anew, which two
calls can do at once. In `bringup` the exit that follows the creation of the
container needs no mishap, so that one mishap gives two broken starts. Three
announcements are a newest one, one before it, and one that was given up.
Six ports are more than two heads with two nodes and one foreign
process can take, so that the search never meets the bound: it would show as a
creation that does not end.

**Fairness** (`settle`): each request, each pass and each pending listing moves
as long as it can, since Node's event loop runs every callback that is ready
and each awaited call has an answer, an error or a deadline; the listing cron
keeps ticking. Nothing is owed by clients or by the environment. In particular
`NodeAnswers` and `WaitTimeout` share one fairness condition: a node need not
answer.

`metrics_live` assumes that timers fire, that an attempt to connect ends (one
way or the other: success and failure share a condition) and that close events
are delivered: all of them are callbacks of the event loop. Of the ticks it
assumes that those that collect their sample are not failing for ever (strong
fairness of `Sampled`): collecting reads counters of the operating system. The
mishaps are finite, the usual "once the network behaves".

`creation` and `pool` assume that a handler goes on as long as what it awaits
can answer; a call that waits for a connection of the pool can only while there
is one. Nobody has to call `delete`.

`ogmios` and `bringup` assume that each await of a call or of the start ends, one
way or the other (success and failure share a condition), that a broken socket
is reported, that docker starts Ogmios again (`restart: on-failure` in
`configs/ogmios/docker-compose.yml:7`) and that the cron ticks. They do not assume that the ledger
client or a query succeeds; mishaps are finite. `hub` checks safety only, and no deadlock, since
announcements run out (a bound).

**Findings** (violation runs):

* `pool`: a creation never releases its query runner; the one that takes the
  last connection of the pool waits for ever, and so does everybody after it.
* `deactivation`: the comment in `deactiveHydraHead` says of its loop "Stop all
  containers for this head (don't remove, keep for reuse)"
  (`hydra-heads.service.ts:569`); the loop calls `removeContainerByName` (line 572),
  which stops and removes. `StoppedAlone` asks of a deactivation only what both agree
  on: no node of the head runs.

**Seen while modelling**, kept by the models, without a run of its own:

* The limit of nodes is checked against a cache that an activation extends only
  minutes later: two activations that check before either writes both pass
  (`hydra-heads.service.ts:192`).
* An activation that is under way while its head is deleted saves the head, which
  inserts its row again (`hydra-heads.service.ts:415`) without nodes. A later
  deactivation or deletion, with nothing beside it, then finds no node to stop
  (`hydra-heads.service.ts:566`, `:877`), and containers of the first activation run
  on with nobody left who knows them. An instance of `commands` with three requests shows
  this once the two exceptions in `StoppedAlone` and `DeletedForGood` are taken out.
* A restart that fails stores `stop` and announces the status it had loaded
  (`hydra-heads.service.ts:975`); a deactivation and a deletion announce nothing.
  The health check corrects neither, since it looks at running heads.
* A setup that fails after `amqp.connect` leaves its connection open without
  handlers (`rabbitmq.service.ts:61`).
* The first start creates the cardano-node container and then reads the id of the
  one it did not find (`hydra-main.service.ts:182`): it fails, and the next one
  finds the container.
* The listing at the start labels its cache entries with a party
  (`hydra-main.service.ts:226`); they have no head until the first cron.
* The flag of the Ogmios client is set after two awaits
  (`ogmios-client.service.ts:69`) over whatever the close handler wrote between.
* The global BigInt conversion wraps the envelope, so that such an answer has its
  data one level deeper than others (`main.ts:32`).
* `convertStringToBigInt` leaves the elements of arrays strings
  (`bigint.utils.ts:104`); the comment above calls it the reverse of
  `convertBigIntToString`.
* The container of a last, failed attempt of `createContainer` stays behind,
  created and not running (`docker.service.ts:100`).
* The rollback of a failed creation undoes nothing
  (`hydra-heads.service.ts:130`).
* The close that `onModuleDestroy` asks for schedules a reconnection
  (`rabbitmq.service.ts:55`).
* `publishToExchange` returns false for a message it has taken while its buffer
  is full (`rabbitmq.service.ts:135`), and the agent publishes again.
* A tick under way sets the retry timer after the agent has stopped
  (`monitoring-agent.service.ts:95`).

## 10. Proofs

`HeadLifecycleProofs` proves, for any sets of heads, nodes, requests and
passes, any bounds and any number of misfortunes, from `NodesAssumption` (there are
finitely many nodes, and the heads' sets of them are disjoint and not empty) and
`ConstantsAssumption`:

| Theorem | Statement |
|---|---|
| `TypeCorrect` | `Spec => []TypeOK` |
| `CronBlameIsOwn` | `Spec => []CronBlamesOwnNodes` |
| `CleanupIsOwn` | `Spec => CleanupSparesOthers` |
| `NoStray` | `Spec => []NoStrayAfterFailure`, if no request is a restart and no call of a cleanup fails |
| `RequestsTerminate` | `Spec => RequestsGetOn`: each step that a request takes lowers its rank, which cannot go on for ever; only a crash takes it elsewhere, to its end |
| `PassesTerminate` | `Spec => PassesGetOn`: the same for a pass of the health check |

The inductive invariant is `IInv == TypeOK /\ LocalsOK`. `TypeOK` alone is not
inductive: a request in a phase that works on a node must have one (`cur` is
used as an index of `ctr`), one in flight must have a head, and one in phase
`retry` must have an attempt left. Steps of requests are shown to be `Local`:
they move one request, keep its command and head, and keep those facts; a
lemma per way of moving (`FinishLocal`, `VisitLocal`, `FailLocal`,
`AttemptFailsLocal`) is cited by the actions. `CronInv` adds that the nodes
left to check belong to the head at hand.

`NoStray` needs to know where a request stands while a container it made runs:
it finished well, or it is at work and `made` holds the container, or it is
cleaning up and the container is still to be stopped (`Tracked`). The two
premises are needed: a restart of the head starts a container again between
the stop and the removal of a cleanup, and a cleanup whose stop fails is only
logged. TLC finds both.

The ranks are tuples of numbers, ordered from the left (`LexProductOrdering`, well
founded by a theorem of the library). That of a request, `Left`, counts the stages
before it, the nodes its loop has not visited, the attempts left for the node at hand,
the parts of an attempt, the calls left in a removal or restart, and the containers a
cleanup has yet to stop: each loop of the code lowers one of them and resets only those
to its right. That of a pass, `PassLeft`, counts heads, nodes and the announcement.
`Onward` and `PassOnward` say so without numbers, and a lemma goes over the steps.
The heads a pass loads are finitely many since each has a node of its own
(`HeadsFinite`).

`HeadCommandProofs` proves, from the same assumptions:

| Theorem | Statement |
|---|---|
| `DeletionIsForGood` | `Spec => []DeletedForGood` |
| `ActivatedIsUp` | `Spec => ActivatedAlone` |
| `StoppedIsStopped` | `Spec => StoppedAlone` |
| `RestartedIsUp` | `Spec => RestartedAlone`: a restart that ran alone ends with every node of its head running, or with the row saying `stop` and a failure |

Its invariant, `CommandInv`, follows a command that nothing disturbs. Requests in
flight on one head have disturbed each other (`OverlapsSeen`), so that nobody else
works on the nodes of its head (`OwnNodes`: a handler keeps to the nodes of its own),
and `Unmoved` carries what it knows over the steps of all others. In its own steps,

* a deactivation or a deletion has removed the containers it has passed (`Removals`);
  node rows go with a deletion only (`RowsKept`), so that a head without nodes was
  deleted before, and after a deletion a request for the head gets no further than
  its missing row (`Deleted`);
* an activation has all the nodes of its head (`Whole`), its containers run from the
  moment it has seen them do so (`Up`), and each container it has is recorded, about
  to be, or still to be cleaned up (`Tidy`; an activation that is alone never finds
  a name taken, so it never comes to `retry`). A request has no containers before it
  starts and none of another head (`MadeByOwn`);
* what is written is there when the command ends (`Writings`).

The last step of such a command is its own (`LastStep`): a step that fails disturbs
it, a crash loses it, nothing else moves it. `PhasesKnown` says where each of the four
commands can be, which tells apart the two uses of a phase they share.

`RestartedAlone` is stated with its proof, and no run checks it. Its invariant is
`Restarts` beside `CommandInv`: a restart has all nodes of its head once it has loaded
them (`Loaded`), and those it has seen run, before it waits or in its catch block, still
do (`Back`).

`MetricsProofs` proves, for any set of connections and any number of mishaps, from
`ConnsAssumption`:

| Theorem | Statement |
|---|---|
| `NoOrphan` | `Spec => []NoOrphanIsWatched` |
| `SomebodySees` | `Spec => []SomebodyReconnects` |
| `ImplementsLoop` | `Spec => Loop!Spec`, if `app.close()` is not called |

The invariant says when the two ways back to a connection are out of the way of
each other: while a watched connection is live, it is in the field, no attempt
runs and no timer is set; while an attempt runs, no timer is set; in the setup,
the channel is that of the connection; and before the start there is nothing.

and, in addition from `TicksAssumption`, of the client with the agent beside it:

| Theorem | Statement |
|---|---|
| `KeepsClient` | `AgentSpec => Spec`: the agent beside its client shows the client nothing new |
| `AgentTypeCorrect` | `AgentSpec => []AgentTypeOK` |
| `RetryKept` | `AgentSpec => []FailureIsRetried` |
| `NoOrphanBesideAgent` | `AgentSpec => []NoOrphanIsWatched` |
| `SomebodySeesBesideAgent` | `AgentSpec => []SomebodyReconnects` |
| `LoopBesideAgent` | `AgentSpec => Loop!Spec`, if `app.close()` is not called |

The last three follow from `KeepsClient` and the client's own theorems.

`HeadCreationProofs` proves, from `CreationAssumption`:

| Theorem | Statement |
|---|---|
| `CreationTypeCorrect` | `Spec => []TypeOK` |
| `SuccessIsWhole` | `Spec => []CreatedWhole` |
| `DeletionFinal` | `Spec => []DeletionIsFinal` |
| `CreationsTerminate` | `Spec => CreationsGetOn`: each step of a creation lowers its rank |

Its invariant adds two parts. `Progress` says what a creation has made wherever
it stands, as long as no deletion has met it: all that is before the key it is
at. `Unborn` says that a head that was not saved yet is not deleted either,
which is why no later step of its creation can bring a deleted head back; a
node cannot be saved then for want of its head. The rank counts the stages before a
creation, the keys it has not come to, the ports between the one it tries and
`MaxPort`, and the parts of a node's creation: a creation that finds its port taken by
another goes up, and no other sets it back.

`OgmiosClientProofs` proves, from `OgmiosAssumption`:

| Theorem | Statement |
|---|---|
| `OgmiosTypes` | `Spec => []OgmiosTypeOK` |
| `FlagCorrected` | `Spec => []FlagIsCorrected` |
| `SocketsKept` | `Spec => []NoSocketForgotten` |
| `OverlapHarmless` | `Spec => OverlapIsHarmless` |
| `CallsTerminate` | `Spec => CallsGetOn`: each step of a call lowers its rank; only an exit of the process starts it anew |

`FlagIsCorrected` is not inductive: `LedgerReady` raises the flag over whatever
became of the socket. `FlagInv` adds that between the two awaits of a `connect()`
the context is already as good as the flag will claim. For `NoSocketForgotten`,
`SocketInv` says, until something crossed: one call connects at a time; while it
dials, nothing is open; and an open socket is that of the connected client or of
the call that prepares it. For `OverlapIsHarmless`, `HarmlessInv` says, while nothing has
failed: a socket is open or unused, and whoever counts on a context (the flag, a call
that prepares one, waits for an answer or probes for a test) finds one, though not always
the one it made. The lemmas about steps are stated for `ClientNext`, which is
all that can happen to the client in any system it is part of (`NextIsClients`).

`HydraMainInitProofs` proves, in addition from `HydraMainAssumption`:

| Theorem | Statement |
|---|---|
| `MainTypes` | `MainSpec => []MainTypeOK` |
| `NetworkIsThereToUse` | `MainSpec => []NetworkBeforeUse` |
| `NodeAttached` | `MainSpec => []AttachedWhenUp` |
| `ExitsArePaid` | `MainSpec => []CrashesOnce` |
| `FlagCorrectedHere` | `MainSpec => []FlagIsCorrected` |
| `SocketsKeptHere` | `MainSpec => []NoSocketForgotten` |
| `CallsGetOnHere` | `MainSpec => CallsGetOn` |

The invariant says what the hook knows at each await: past an inspection the
container is attached or about to be; a task past `ensureHydraNetwork` has its
network. For `CrashesOnce` it counts: the exits so far, the one that is certain to
come (`Owed`: an error is on its way that a mishap has paid for) and the one that a
missing container costs (`First`) are at most one more than the mishaps. The last three
carry what `OgmiosClientProofs` says of the client into the start, where the hooks call
it and the process may exit: every step of the start is one the client can meet
(`MainIsClients`). No run checks them there.

`HubSyncProofs` proves, from `HubSyncAssumption`:

| Theorem | Statement |
|---|---|
| `HubTypes` | `Spec => []HubTypeOK` |
| `HubNeverGoesBack` | `Spec => []NeverBack` |
| `HubAgreesWhenCalm` | `Spec => []HubAgrees` |

Its invariant ties the two histories to the requests: what was posted after a
success finds that request already applied, so that it is not the writer any more
once a later one is (`OkApplied`, `BeforeOk`, `WriterIsNew`); an announcement that
was alone when stored has none beside it that could still arrive (`AloneStays`); and
what the last announcement said is stored unless a change was silent (`SaysStored`).

`ResponsesProofs` proves, for answers of any depth and size, from `KeysAssumption` and
`ResponsesAssumption`:

| Theorem | Statement |
|---|---|
| `AlwaysWritable` | `Spec => []NothingUnwritable` |
| `AmountsAlwaysArrive` | `Spec => []AmountsArrive` |
| `ListIsAlwaysExact` | `Spec => []ListIsExact` |

`RInv` says of each stage that the body is still the answer (`Answer`): every place of
what the handler returned is there, moved by what the stages so far put around it, with
its number; the BigInts left are exactly those of the handler as long as nothing is
listed, and none afterwards; and the listed paths, put under `under`, are those places.
One lemma per stage (`AnswerWrapped`, for one) says how it moves them.

Only model-checked: liveness, which is out of the prover's reach (and `ENABLED` with
it). Of `RequestsEnd`, `CreationsEnd` and `CallsEnd` one half is proved: no request,
creation or call goes on for ever. The other, that each comes to its next step, is what
fairness and the timeouts of the code give and TLC checks.

## 11. Not modelled

* Item 4 of the plan: a websocket probe is one step of `HeadLifecycle`, and the
  retry loop of `createContainer` is modelled there in full.
* Accounts and the listing of nodes (`hydra-main.service.ts:355-436`): reads, and a
  check before a save whose race the unique columns of the table decide.
* Methods without a caller: `genHydraKey`, `checkUtxoAccount` and the copies of
  docker helpers in `hydra-main.service.ts`; `convertStringToBigInt` and `safeParse`; `sendToQueue` and `consumeFromQueue`.
* `clearHeadData`, which only removes persistence directories.
* Authentication: `login`, `loginPermanent` and `auth` read one row and change nothing;
  guards appear in `Responses` only as what may refuse a request.
* Seeders: scripts an operator runs by hand, one at a time. What a failed one leaves
  depends on how MySQL treats the `TRUNCATE` that `clear()` is inside a transaction
  (`create-account-admin-and-provider.seeder.ts:108`), which no code of the
  repository says.
* The metrics collector, the Blockfrost client, configuration, logging and
  documentation pages: no state.
* Byte-level encodings of keys and addresses (library code).
