---------------------------- MODULE HeadCreation ----------------------------
(***************************************************************************)
(* HydraHeadService.create: a head, its directory, and for every key a     *)
(* node with a port of its own and its key files. create() opens a         *)
(* transaction on a connection of its own, does all of its work through    *)
(* repositories, which take other connections, and never gives its         *)
(* connection back. The head can be seen, and deleted, before it is whole. *)
(*                                                                         *)
(* A head is known by the request that creates it, a node by its head and  *)
(* its place among the keys. Deletion is here without the containers,      *)
(* which HeadLifecycle models: a head that is being created has none.      *)
(***************************************************************************)
EXTENDS Naturals, FiniteSets

CONSTANTS
    Reqs,         \* calls of create()
    Keys,         \* number of keys in a call
    MaxPort,      \* bound: the ports are 1 .. MaxPort
    Foreign,      \* ports that other processes of the host listen on
    PoolSize,     \* connections of the database pool
    MaxMishaps    \* bound: calls of the database or the file system that fail

ASSUME CreationAssumption ==
    /\ IsFiniteSet(Reqs)
    /\ Keys \in Nat \ {0} /\ MaxPort \in Nat \ {0} /\ PoolSize \in Nat \ {0}
    /\ Foreign \subseteq 1 .. MaxPort /\ MaxMishaps \in Nat

VARIABLES
    pc,           \* pc[r]: where create() stands
    at,           \* at[r]: the key it is at
    port,         \* port[r]: the port it tries
    pool,         \* calls whose query runner has a connection of the pool
    head,         \* row of the head: "none", "row" or "deleted"
    row,          \* row[r][i]: port of node i of head r, 0 without a row
    dir,          \* heads whose directory exists
    files,        \* files[r]: the nodes whose keys are in it
    del,          \* del[r]: where a deletion of the head stands
    seen,         \* seen[r]: the nodes the deletion has loaded
    mishaps       \* calls that failed so far

request  == <<pc, at, port>>
disk     == <<dir, files>>
deletion == <<del, seen>>
vars == <<request, pool, head, row, disk, deletion, mishaps>>

Places == 1 .. Keys
Ports  == 1 .. MaxPort

Init ==
    /\ pc = [r \in Reqs |-> "new"]
    /\ at = [r \in Reqs |-> 1]
    /\ port = [r \in Reqs |-> 1]
    /\ pool = {}
    /\ head = [r \in Reqs |-> "none"]
    /\ row = [r \in Reqs |-> [i \in Places |-> 0]]
    /\ dir = {} /\ files = [r \in Reqs |-> {}]
    /\ del = [r \in Reqs |-> "none"] /\ seen = [r \in Reqs |-> {}]
    /\ mishaps = 0

Goto(r, l) == pc' = [pc EXCEPT ![r] = l]

\* A repository waits until the pool has a connection for it.
Connected == Cardinality(pool) < PoolSize

PortTaken(p) == \E r \in Reqs, i \in Places : row[r][i] = p

Nodes(r) == {i \in Places : row[r][i] # 0}

------------------------------------------------------------------------------
(* create(). *)

\* createQueryRunner().connect() and startTransaction().
TakeConnection(r) ==
    /\ pc[r] = "new" /\ Connected
    /\ pool' = pool \cup {r}
    /\ Goto(r, "head")
    /\ UNCHANGED <<at, port, head, row, disk, deletion, mishaps>>

SaveHead(r) ==
    /\ pc[r] = "head" /\ Connected
    /\ head' = [head EXCEPT ![r] = "row"]
    /\ Goto(r, "dir")
    /\ UNCHANGED <<at, port, pool, row, disk, deletion, mishaps>>

MakeDir(r) ==
    /\ pc[r] = "dir"
    /\ dir' = dir \cup {r}
    /\ Goto(r, "probe")
    /\ UNCHANGED <<at, port, pool, head, row, files, deletion, mishaps>>

TryNext(r) ==
    /\ port[r] < MaxPort
    /\ port' = [port EXCEPT ![r] = @ + 1]
    /\ Goto(r, "probe")

\* Another creation may be listening on the port for a moment of its own.
Contended(r) == \E q \in Reqs \ {r} : pc[q] = "probe" /\ port[q] = port[r]

\* genValidPort(): isPortAvailable() listens on the port for a moment.
Probe(r) ==
    /\ pc[r] = "probe"
    /\ \/ (port[r] \in Foreign \/ Contended(r)) /\ TryNext(r)
       \/ port[r] \notin Foreign /\ Goto(r, "lookup") /\ UNCHANGED port
    /\ UNCHANGED <<at, pool, head, row, disk, deletion, mishaps>>

\* Mutated form of Lookup: the port is tried again.
LookupAgain(r) ==
    /\ pc[r] = "lookup" /\ Connected
    /\ IF PortTaken(port[r]) THEN Goto(r, "probe") ELSE Goto(r, "save")
    /\ UNCHANGED <<at, port, pool, head, row, disk, deletion, mishaps>>

\* genValidPort(): checkHydraNodePort() looks for a node with the port.
Lookup(r) ==
    /\ pc[r] = "lookup" /\ Connected
    /\ \/ PortTaken(port[r]) /\ TryNext(r)
       \/ ~PortTaken(port[r]) /\ Goto(r, "save") /\ UNCHANGED port
    /\ UNCHANGED <<at, pool, head, row, disk, deletion, mishaps>>

\* Mutated form of SaveNode: the node does not refer to its head.
SaveNodeLoose(r) ==
    /\ pc[r] = "save" /\ Connected
    /\ \/ /\ ~PortTaken(port[r])
          /\ row' = [row EXCEPT ![r][at[r]] = port[r]]
          /\ Goto(r, "keys")
       \/ PortTaken(port[r]) /\ Goto(r, "rollback") /\ UNCHANGED row
    /\ UNCHANGED <<at, port, pool, head, disk, deletion, mishaps>>

\* The port is unique, and the row of the head has to exist; between Lookup and
\* here another call may have saved a node with the port, or deleted the head.
SaveNode(r) ==
    /\ pc[r] = "save" /\ Connected
    /\ \/ /\ head[r] = "row" /\ ~PortTaken(port[r])
          /\ row' = [row EXCEPT ![r][at[r]] = port[r]]
          /\ Goto(r, "keys")
       \/ /\ head[r] # "row" \/ PortTaken(port[r])
          /\ Goto(r, "rollback") /\ UNCHANGED row
    /\ UNCHANGED <<at, port, pool, head, disk, deletion, mishaps>>

\* Mutated form of WriteKeys: the end is noticed one key too late.
WriteKeysPast(r) ==
    /\ pc[r] = "keys" /\ r \in dir
    /\ files' = [files EXCEPT ![r] = @ \cup {at[r]}]
    /\ IF at[r] > Keys THEN Goto(r, "commit") /\ UNCHANGED <<at, port>>
       ELSE /\ at' = [at EXCEPT ![r] = @ + 1] /\ port' = [port EXCEPT ![r] = 1]
            /\ Goto(r, "probe")
    /\ UNCHANGED <<pool, head, row, dir, deletion, mishaps>>

\* Mutated form of WriteKeys: the last key is taken for the end one too early.
WriteKeysShort(r) ==
    /\ pc[r] = "keys" /\ r \in dir
    /\ files' = [files EXCEPT ![r] = @ \cup {at[r]}]
    /\ IF at[r] + 1 >= Keys THEN Goto(r, "commit") /\ UNCHANGED <<at, port>>
       ELSE /\ at' = [at EXCEPT ![r] = @ + 1] /\ port' = [port EXCEPT ![r] = 1]
            /\ Goto(r, "probe")
    /\ UNCHANGED <<pool, head, row, dir, deletion, mishaps>>

\* The key files of the node, and on to the next key, whose search for a port
\* starts from the first one again.
WriteKeys(r) ==
    /\ pc[r] = "keys" /\ r \in dir
    /\ files' = [files EXCEPT ![r] = @ \cup {at[r]}]
    /\ \/ at[r] = Keys /\ Goto(r, "commit") /\ UNCHANGED <<at, port>>
       \/ /\ at[r] < Keys
          /\ at' = [at EXCEPT ![r] = @ + 1] /\ port' = [port EXCEPT ![r] = 1]
          /\ Goto(r, "probe")
    /\ UNCHANGED <<pool, head, row, dir, deletion, mishaps>>

\* The directory is gone.
NoDirectory(r) ==
    /\ pc[r] = "keys" /\ r \notin dir
    /\ Goto(r, "rollback")
    /\ UNCHANGED <<at, port, pool, head, row, disk, deletion, mishaps>>

Fault == mishaps < MaxMishaps /\ mishaps' = mishaps + 1

\* connect() or startTransaction() rejects, before the try block: there is no rollback,
\* and a connection that was taken stays taken.
BeginFails(r) ==
    /\ pc[r] = "new" /\ Fault
    /\ Goto(r, "failed")
    /\ UNCHANGED pool \/ (Connected /\ pool' = pool \cup {r})
    /\ UNCHANGED <<at, port, head, row, disk, deletion>>

CallFails(r) ==
    /\ pc[r] \in {"head", "dir", "lookup", "save", "keys", "commit"} /\ Fault
    /\ Goto(r, "rollback")
    /\ UNCHANGED <<at, port, pool, head, row, disk, deletion>>

Commit(r) ==
    /\ pc[r] = "commit"
    /\ Goto(r, "created")
    /\ UNCHANGED <<at, port, pool, head, row, disk, deletion, mishaps>>

\* Nothing was done in the transaction: nothing is undone.
Rollback(r) ==
    /\ pc[r] = "rollback"
    /\ Goto(r, "failed")
    /\ UNCHANGED <<at, port, pool, head, row, disk, deletion, mishaps>>

------------------------------------------------------------------------------
(* delete(). *)

DeleteLoad(h) ==
    /\ del[h] = "none" /\ head[h] = "row" /\ Connected
    /\ del' = [del EXCEPT ![h] = "dir"]
    /\ seen' = [seen EXCEPT ![h] = Nodes(h)]
    /\ UNCHANGED <<request, pool, head, row, disk, mishaps>>

DeleteDir(h) ==
    /\ del[h] = "dir"
    /\ dir' = dir \ {h} /\ files' = [files EXCEPT ![h] = {}]
    /\ del' = [del EXCEPT ![h] = "rows"]
    /\ UNCHANGED <<request, pool, head, row, seen, mishaps>>

\* A transaction: the nodes that were loaded, then the head, which a node that
\* was saved since keeps in place.
DeleteRows(h) ==
    /\ del[h] = "rows" /\ Connected
    /\ \/ /\ Nodes(h) \subseteq seen[h]
          /\ row' = [row EXCEPT ![h] = [i \in Places |-> 0]]
          /\ head' = [head EXCEPT ![h] = "deleted"]
          /\ del' = [del EXCEPT ![h] = "done"]
       \/ /\ ~(Nodes(h) \subseteq seen[h])
          /\ del' = [del EXCEPT ![h] = "failed"]
          /\ UNCHANGED <<row, head>>
    /\ UNCHANGED <<request, pool, disk, seen, mishaps>>

------------------------------------------------------------------------------
CreateStep(r) ==
    \/ TakeConnection(r) \/ SaveHead(r) \/ MakeDir(r) \/ Probe(r) \/ Lookup(r)
    \/ SaveNode(r) \/ WriteKeys(r) \/ NoDirectory(r) \/ Commit(r) \/ Rollback(r)

DeleteStep(h) == DeleteDir(h) \/ DeleteRows(h)

Next ==
    \E r \in Reqs : \/ CreateStep(r) \/ BeginFails(r) \/ CallFails(r)
                  \/ DeleteLoad(r) \/ DeleteStep(r)

Spec == Init /\ [][Next]_vars

\* Handlers go on as long as what they await can answer.
FairSpec == Spec /\ \A r \in Reqs : WF_vars(CreateStep(r)) /\ WF_vars(DeleteStep(r))

------------------------------------------------------------------------------
(* Properties. *)

Answered(r) == pc[r] \in {"created", "failed"}

TypeOK ==
    /\ pc \in [Reqs -> {"new", "head", "dir", "probe", "lookup", "save", "keys",
                        "commit", "rollback", "created", "failed"}]
    /\ at \in [Reqs -> Places] /\ port \in [Reqs -> Ports]
    /\ pool \subseteq Reqs
    /\ head \in [Reqs -> {"none", "row", "deleted"}]
    /\ row \in [Reqs -> [Places -> {0} \cup Ports]]
    /\ dir \subseteq Reqs /\ files \in [Reqs -> SUBSET Places]
    /\ del \in [Reqs -> {"none", "dir", "rows", "done", "failed"}]
    /\ seen \in [Reqs -> SUBSET Places]
    /\ mishaps \in 0 .. MaxMishaps

\* A creation that reports success has made a head with a node and key files for
\* every key, whatever other creations do, unless the head is being deleted.
CreatedWhole ==
    \A r \in Reqs : (pc[r] = "created" /\ del[r] = "none") =>
        /\ head[r] = "row" /\ r \in dir
        /\ \A i \in Places : row[r][i] # 0 /\ i \in files[r]

\* A deletion that reports success is final: a creation that is still under way
\* puts neither the head nor a node back.
DeletionIsFinal ==
    \A h \in Reqs : del[h] = "done" => head[h] = "deleted" /\ Nodes(h) = {}

\* As long as the pool is not used up, a creation is answered, and the search
\* for a port ends, whoever takes ports and deletes heads meanwhile.
CreationsEnd == \A r \in Reqs : []Connected => <>Answered(r)

------------------------------------------------------------------------------
(* What a test says, and the code does not keep. *)

\* "should create a hydra head successfully": a creation is answered.
CreationsAnswer == \A r \in Reqs : <>Answered(r)
=============================================================================
