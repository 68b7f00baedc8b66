------------------------- MODULE HeadCommandProofs --------------------------
(***************************************************************************)
(* Proofs about the commands of HeadLifecycle that nothing disturbs, for   *)
(* every set of heads, nodes, requests and passes, every command before    *)
(* and beside them and every misfortune of the others: an activation that  *)
(* succeeds is up, a deactivation, a deletion and an activation that fails *)
(* leave nothing behind, and a deletion is final.                          *)
(***************************************************************************)
EXTENDS HeadLifecycleProofs

------------------------------------------------------------------------------
(* The inductive invariant. *)

\* The nodes in the locals j of a handler are those of head h.
Within(j, h) ==
    j.nodes \subseteq NodesOf[h] /\ j.todo \subseteq NodesOf[h] /\ j.made \subseteq NodesOf[h]

Owned(r) ==
    /\ Within(job[r], HeadOf(r))
    /\ pc[r] \in NodePhases => job[r].cur \in NodesOf[HeadOf(r)]

\* A handler works on the nodes of its own head.
OwnNodes == \A r \in Reqs : InFlight(r) => Owned(r)

\* Where each command can be.
ActivatePcs   == {"load", "limit", "prepare", "clear", "create", "start", "retry", "inspect",
                     "cacheRead", "cacheWrite", "wait", "emit", "cleanup", "saveStop",
                     "emitFailed"}
RestartPcs    == {"load", "listed", "restart", "cacheWrite", "wait", "verify", "saveStop",
                     "emitFailed"}
DeactivatePcs == {"load", "remove", "saveStop", "refresh"}
DeletePcs     == {"load", "remove", "removeDir", "deleteRows"}

Fits(op, p) ==
    /\ op \in Commands
    /\ op = "activate" => p \in ActivatePcs
    /\ op = "restart" => p \in RestartPcs
    /\ op = "deactivate" => p \in DeactivatePcs
    /\ op = "delete" => p \in DeletePcs
PhaseKnown(r)  == Fits(job[r].op, pc[r])
PhasesKnown == \A r \in Reqs : InFlight(r) => PhaseKnown(r)

\* Requests in flight on one head have disturbed each other.
OverlapsSeen ==
    \A q, r \in Reqs :
        q # r /\ InFlight(q) /\ InFlight(r) /\ HeadOf(q) = HeadOf(r) => r \in disturbed

\* Node rows go with a deletion only.
RowsKept == \A h \in Heads : h \in nodeRows \/ \E q \in Reqs : DeletedBy(q, h)

\* An undisturbed deactivation or deletion has removed the containers it has
\* passed, and knows of the one it is at.
RemovalClears(r) ==
    LET S == NodesOf[HeadOf(r)]
        n == job[r].cur
    IN  /\ pc[r] = "remove" =>
             /\ \A m \in S : Exists(m) => m \in job[r].todo \cup {n}
             /\ job[r].call = "stop" => Running(n)
             /\ job[r].call = "remove" => ~Running(n)
        /\ pc[r] \in {"removeDir", "deleteRows", "saveStop", "refresh"} =>
             \A m \in S : ~Exists(m)

Removals ==
    \A r \in Reqs :
        /\ InFlight(r) /\ job[r].op \in {"deactivate", "delete"} /\ r \notin disturbed
        /\ HeadOf(r) \in nodeRows
        => RemovalClears(r)

OnlyDeleter(r, h) == \A q \in Reqs \ {r} : ~DeletedBy(q, h)

\* After it, requests for the head get no further than its missing row.
Deleted ==
    \A r \in Reqs, h \in Heads : DeletedBy(r, h) /\ r \notin disturbed =>
        /\ row[h] = "absent" /\ h \notin nodeRows
        /\ \A q \in Reqs : InFlight(q) /\ HeadOf(q) = h => pc[q] = "load"
        /\ OnlyDeleter(r, h) => \A n \in NodesOf[h] : ~Exists(n)

\* What an undisturbed command has written by its last steps.
Written(r) ==
    /\ pc[r] \in {"emitFailed", "refresh"} /\ job[r].op \in {"activate", "deactivate"} =>
         row[HeadOf(r)] = "stop"
    /\ pc[r] = "deleteRows" => HeadOf(r) \notin dirs

Writings == \A r \in Reqs : InFlight(r) /\ r \notin disturbed => Written(r)

\* A request has containers of its own under the names of its head's nodes only.
MadeByOwn ==
    \A r \in Reqs, n \in Nodes : Owns(r, n) => pc[r] # "new" /\ n \in NodesOf[HeadOf(r)]

\* An activation past its limit has loaded every node of its head: one that has
\* found none counts as active already.
Whole(r) ==
    LET S == job[r].nodes
        T == NodesOf[HeadOf(r)]
    IN  /\ pc[r] = "limit" => S \in {{}, T}
        /\ pc[r] \notin {"load", "limit"} => S = T

\* It announces what it has saved.
Said(r) == pc[r] = "emit" => job[r].status = "running"

\* Undisturbed, it has seen its containers run, and they do.
Up(r) ==
    pc[r] \in {"wait", "emit"} => \A n \in NodesOf[HeadOf(r)] : Owns(r, n) /\ Running(n)

\* Undisturbed, it never meets a name that is taken, and every container it has
\* is recorded, is about to be, or is still to be cleaned up.
Tidy(r) ==
    LET n == job[r].cur
    IN  /\ pc[r] # "retry"
        /\ pc[r] \notin {"start", "cleanup", "saveStop", "emitFailed"} =>
             \A m \in Nodes : Owns(r, m) => m \in job[r].made
        /\ pc[r] = "start" =>
             /\ \A m \in Nodes : Owns(r, m) => m \in job[r].made \cup {n}
             /\ Owns(r, n) /\ ~Running(n)
        /\ pc[r] \in {"clear", "cleanup"} =>
             /\ job[r].call = "stop" => Running(n) /\ Found(r)
             /\ job[r].call = "remove" => ~Running(n)
        /\ pc[r] = "create" => ~Exists(n)
        /\ pc[r] = "cleanup" => \A m \in Nodes : Owns(r, m) => m \in job[r].todo \cup {n}
        /\ pc[r] \in {"saveStop", "emitFailed"} => \A m \in Nodes : ~Owns(r, m)

Activations ==
    \A r \in Reqs : InFlight(r) /\ job[r].op = "activate" =>
        Whole(r) /\ Said(r) /\ (r \notin disturbed => Up(r) /\ Tidy(r))

CommandInv ==
    /\ OwnNodes /\ PhasesKnown /\ OverlapsSeen /\ RowsKept
    /\ Removals /\ Deleted /\ Writings /\ MadeByOwn /\ Activations

------------------------------------------------------------------------------
(* A handler works on the nodes of its own head. *)

LEMMA VisitOwned ==
    ASSUME TypeOK, NEW r \in Reqs, NEW j \in JobType, j.head = HeadOf(r), Within(j, HeadOf(r)),
           NEW S \in SUBSET NodesOf[HeadOf(r)], NEW phase, NEW after, after \notin NodePhases,
           Visit(r, j, S, phase, after)
    PROVE  Owned(r)'
<1>1. CASE Goto(r, after) /\ job' = [job EXCEPT ![r] = j]
  BY <1>1 DEF TypeOK, Goto, Owned, Within, HeadOf
<1>2. ASSUME NEW n \in S, Goto(r, phase),
             job' = [job EXCEPT ![r] = [j EXCEPT !.cur = n, !.todo = S \ {n},
                                               !.call = "inspect"]]
      PROVE  Owned(r)'
  <2>1. /\ job'[r].cur = n /\ job'[r].todo = S \ {n} /\ job'[r].nodes = j.nodes
        /\ job'[r].made = j.made /\ job'[r].head = j.head
    BY <1>2 DEF TypeOK, JobType
  <2> QED
    BY <2>1 DEF Owned, Within, HeadOf
<1> QED
  BY <1>1, <1>2 DEF Visit

\* A step that keeps the node or leaves the phases that have one.
LEMMA MoveOwned ==
    ASSUME TypeOK, NEW r \in Reqs, Owned(r), NEW p, pc' = [pc EXCEPT ![r] = p],
           p \in NodePhases => pc[r] \in NodePhases,
           NEW e, job' = [job EXCEPT ![r] = e], Within(e, HeadOf(r)),
           e.head = HeadOf(r), e.cur = job[r].cur
    PROVE  Owned(r)'
BY DEF TypeOK, Owned, Within, HeadOf

\* The locals as they are, and with one field set.
LEMMA WithinFields ==
    ASSUME TypeOK, NEW r \in Reqs, Owned(r)
    PROVE  LET j == job[r]
               h == HeadOf(r)
           IN  /\ j \in JobType /\ Within(j, h) /\ j.head = h
               /\ job = [job EXCEPT ![r] = j] /\ pc = [pc EXCEPT ![r] = pc[r]]
               /\ j.todo \subseteq NodesOf[h] /\ j.made \subseteq NodesOf[h]
               /\ j.nodes \subseteq NodesOf[h]
               /\ pc[r] \in NodePhases => j.cur \in NodesOf[h]
BY DEF TypeOK, Owned, Within, HeadOf

LEMMA FailOwned ==
    ASSUME TypeOK, NEW r \in Reqs, Owned(r), Fail(r)
    PROVE  Owned(r)'
<1>1. CASE Visit(r, job[r], job[r].made, "cleanup", "saveStop")
  BY <1>1, VisitOwned, WithinFields, PhaseFacts
<1>2. CASE Goto(r, "verify") /\ job' = [job EXCEPT ![r].todo = job[r].nodes]
  <2> DEFINE e == [job[r] EXCEPT !.todo = job[r].nodes]
  <2>1. Within(e, HeadOf(r)) /\ e.head = HeadOf(r) /\ e.cur = job[r].cur
    BY WithinFields DEF Within, JobType
  <2>2. job' = [job EXCEPT ![r] = e] /\ pc' = [pc EXCEPT ![r] = "verify"]
    BY <1>2 DEF Goto
  <2> HIDE DEF e
  <2> QED
    BY <2>1, <2>2, MoveOwned, PhaseFacts
<1> QED
  BY <1>1, <1>2 DEF Fail

LEMMA EndRemovalOwned ==
    ASSUME TypeOK, NEW r \in Reqs, Owned(r), EndRemoval(r)
    PROVE  Owned(r)'
<1>1. ASSUME pc[r] \in NodePhases, Goto(r, "create"), NEW k, job' = [job EXCEPT ![r].tries = k]
      PROVE  Owned(r)'
  <2> DEFINE e == [job[r] EXCEPT !.tries = k]
  <2>1. Within(e, HeadOf(r)) /\ e.head = HeadOf(r) /\ e.cur = job[r].cur
    BY WithinFields DEF Within, JobType
  <2>2. job' = [job EXCEPT ![r] = e] /\ pc' = [pc EXCEPT ![r] = "create"]
    BY <1>1 DEF Goto
  <2> HIDE DEF e
  <2> QED
    BY <1>1, <2>1, <2>2, MoveOwned
<1>2. ASSUME NEW p, NEW q, q \notin NodePhases, Visit(r, job[r], job[r].todo, p, q)
      PROVE  Owned(r)'
  BY <1>2, VisitOwned, WithinFields
<1>3. pc[r] \in {"clear", "retry"} => pc[r] \in NodePhases
  BY PhaseFacts
<1> QED
  BY <1>1, <1>2, <1>3, PhaseFacts DEF EndRemoval

LEMMA AttemptFailsOwned ==
    ASSUME TypeOK, NEW r \in Reqs, Owned(r), pc[r] \in {"create", "start"}, AttemptFails(r)
    PROVE  Owned(r)'
<1>1. CASE Goto(r, "retry") /\ job' = [job EXCEPT ![r].call = "inspect"]
  <2> DEFINE e == [job[r] EXCEPT !.call = "inspect"]
  <2>1. Within(e, HeadOf(r)) /\ e.head = HeadOf(r) /\ e.cur = job[r].cur
    BY WithinFields DEF Within, JobType
  <2>2. job' = [job EXCEPT ![r] = e] /\ pc' = [pc EXCEPT ![r] = "retry"]
    BY <1>1 DEF Goto
  <2> HIDE DEF e
  <2> QED
    BY <2>1, <2>2, MoveOwned, PhaseFacts
<1> QED
  BY <1>1, FailOwned DEF AttemptFails

LEMMA LoadOwned ==
    ASSUME IInv, NEW r \in Reqs, Owned(r), Load(r), InFlight(r)'
    PROVE  Owned(r)'
<1> DEFINE h == HeadOf(r)
           S == IF h \in nodeRows THEN NodesOf[h] ELSE {}
           j == [job[r] EXCEPT !.nodes = S, !.status = row[h]]
<1>1. h \in Heads /\ TypeOK
  BY DEF IInv, Load, LocalsOK, InFlight, Ended
<1>2. S \in SUBSET Nodes /\ row[h] \in Statuses /\ S \subseteq NodesOf[h]
  BY <1>1, NodesAssumption DEF TypeOK, Statuses
<1>3. /\ j \in JobType /\ Within(j, h) /\ j.head = h /\ j.cur = job[r].cur
      /\ j.nodes = S
  BY <1>1, <1>2, WithinFields DEF Within, JobType
<1> HIDE DEF j, S
<1>4. CASE \E p \in {"limit", "listed"} : Goto(r, p) /\ job' = [job EXCEPT ![r] = j]
  BY <1>1, <1>3, <1>4, MoveOwned, PhaseFacts DEF Goto, h
<1>5. CASE \E p \in {"saveStop", "removeDir"} : Visit(r, j, j.nodes, "remove", p)
  BY <1>1, <1>2, <1>3, <1>5, VisitOwned, PhaseFacts DEF h
<1>6. CASE Finish(r, "rejected")
  BY <1>1, <1>6 DEF Finish, Goto, TypeOK, InFlight, Ended
<1> QED
  BY <1>4, <1>5, <1>6 DEF Load, j, h, S

LEMMA ReqStepOwned ==
    ASSUME IInv, NEW r \in Reqs, Owned(r), ReqStep(r), InFlight(r)'
    PROVE  Owned(r)'
<1> DEFINE j == job[r]
           h == HeadOf(r)
<1>1. TypeOK /\ pc \in [Reqs -> Phases] /\ job \in [Reqs -> JobType]
  BY DEF IInv, TypeOK
<1>2. ASSUME NEW p, Goto(r, p), UNCHANGED job, p \in NodePhases => pc[r] \in NodePhases
      PROVE  Owned(r)'
  BY <1>1, <1>2 DEF Goto, Owned, Within, HeadOf
<1>3. ASSUME NEW p, pc' = [pc EXCEPT ![r] = p], p \in NodePhases => pc[r] \in NodePhases,
             NEW e, job' = [job EXCEPT ![r] = e], Within(e, h), e.head = h, e.cur = j.cur
      PROVE  Owned(r)'
  BY <1>1, <1>3, MoveOwned
<1>4. ASSUME NEW o \in Ended, Finish(r, o) PROVE Owned(r)'
  BY <1>1, <1>4 DEF Finish, Goto, InFlight
<1>5. ASSUME NEW p, NEW q, q \notin NodePhases, NEW S \in SUBSET NodesOf[h], Visit(r, j, S, p, q)
      PROVE  Owned(r)'
  BY <1>1, <1>5, VisitOwned, WithinFields
<1>6. ASSUME NEW S \in SUBSET NodesOf[h] PROVE
        /\ Within([j EXCEPT !.todo = S], h) /\ [j EXCEPT !.todo = S].head = h
        /\ [j EXCEPT !.todo = S].cur = j.cur
        /\ Within([j EXCEPT !.made = S], h) /\ [j EXCEPT !.made = S].head = h
        /\ [j EXCEPT !.made = S].cur = j.cur
  BY <1>1, WithinFields DEF Within, JobType
<1>7. CASE Load(r)
  BY <1>7, LoadOwned
<1>8. CASE CheckLimit(r)
  BY <1>2, <1>4, <1>8, PhaseFacts DEF CheckLimit
<1>9. CASE Prepare(r)
  BY <1>1, <1>4, <1>5, <1>9, WithinFields, PhaseFacts DEF Prepare
<1>10. CASE RemovalInspect(r) \/ RemovalStop(r) \/ RemovalRemove(r)
  <2>1. ASSUME NEW c, NextCall(r, c) PROVE Owned(r)'
    <3> DEFINE e == [j EXCEPT !.call = c]
    <3>1. Within(e, h) /\ e.head = h /\ e.cur = j.cur
      BY <1>1, WithinFields DEF Within, JobType
    <3>2. job' = [job EXCEPT ![r] = e] /\ pc' = [pc EXCEPT ![r] = pc[r]]
      BY <1>1, <2>1, WithinFields DEF NextCall
    <3> HIDE DEF e
    <3> QED
      BY <1>3, <3>1, <3>2
  <2> QED
    BY <1>1, <1>10, <2>1, EndRemovalOwned DEF RemovalInspect, RemovalStop, RemovalRemove
<1>11. CASE Create(r)
  BY <1>1, <1>2, <1>11, AttemptFailsOwned, PhaseFacts DEF Create
<1>12. CASE Start(r)
  <2>1. CASE Goto(r, "inspect") /\ job' = [job EXCEPT ![r].made = @ \cup {j.cur}]
    <3> DEFINE S == j.made \cup {j.cur}
    <3>1. S \in SUBSET NodesOf[h] /\ pc[r] \in NodePhases
      BY <1>1, <1>12, WithinFields, PhaseFacts DEF Start
    <3>2. job' = [job EXCEPT ![r] = [j EXCEPT !.made = S]]
      BY <2>1
    <3> HIDE DEF S
    <3> QED
      BY <1>3, <1>6, <2>1, <3>1, <3>2 DEF Goto
  <2> QED
    BY <1>1, <1>12, <2>1, AttemptFailsOwned DEF Start
<1>13. CASE InspectNew(r)
  BY <1>1, <1>5, <1>13, FailOwned, WithinFields, PhaseFacts DEF InspectNew
<1>14. CASE CacheRead(r)
  <2> DEFINE e == [j EXCEPT !.read = cache]
  <2>1. Within(e, h) /\ e.head = h /\ e.cur = j.cur
    BY <1>1, WithinFields DEF Within, JobType
  <2>2. job' = [job EXCEPT ![r] = e] /\ pc' = [pc EXCEPT ![r] = "cacheWrite"]
    BY <1>14 DEF CacheRead, Goto
  <2> HIDE DEF e
  <2> QED
    BY <1>3, <2>1, <2>2, PhaseFacts
<1>15. CASE CacheWrite(r)
  <2>1. CASE Goto(r, "wait") /\ job' = [job EXCEPT ![r].todo = j.nodes, ![r].read = {}]
    <3> DEFINE e == [j EXCEPT !.todo = j.nodes, !.read = {}]
    <3>1. Within(e, h) /\ e.head = h /\ e.cur = j.cur
      BY <1>1, WithinFields DEF Within, JobType
    <3>2. job' = [job EXCEPT ![r] = e] /\ pc' = [pc EXCEPT ![r] = "wait"]
      BY <1>1, <2>1 DEF Goto, JobType
    <3> HIDE DEF e
    <3> QED
      BY <1>3, <3>1, <3>2, PhaseFacts
  <2> QED
    BY <1>1, <1>15, <2>1, FailOwned DEF CacheWrite
<1>16. CASE NodeAnswers(r) \/ RestartCheck(r) \/ RestartStart(r) \/ RestartVerify(r)
  <2>1. ASSUME NEW S \in SUBSET NodesOf[h], NEW p, p \notin NodePhases, Goto(r, p),
               \/ job' = [job EXCEPT ![r].todo = S]
               \/ job' = [job EXCEPT ![r].made = S]
        PROVE  Owned(r)'
    <3>1. CASE job' = [job EXCEPT ![r] = [j EXCEPT !.todo = S]]
      BY <1>3, <1>6, <2>1, <3>1 DEF Goto
    <3>2. CASE job' = [job EXCEPT ![r] = [j EXCEPT !.made = S]]
      BY <1>3, <1>6, <2>1, <3>2 DEF Goto
    <3> QED
      BY <2>1, <3>1, <3>2
  <2>2. UNCHANGED pc => Goto(r, pc[r])
    BY <1>1, WithinFields DEF Goto
  <2>3. /\ \A n : j.todo \ {n} \in SUBSET NodesOf[h]
        /\ \A n : j.made \ {n} \in SUBSET NodesOf[h]
        /\ j.nodes \in SUBSET NodesOf[h]
    BY <1>1, WithinFields
  <2>4. CASE NodeAnswers(r)
    <3>1. pc[r] \notin NodePhases /\ Goto(r, pc[r])
      BY <2>2, <2>4, PhaseFacts DEF NodeAnswers
    <3>2. PICK n \in j.todo : job' = [job EXCEPT ![r].todo = j.todo \ {n}]
      BY <2>4 DEF NodeAnswers
    <3> QED
      BY <2>1, <2>3, <3>1, <3>2
  <2>5. CASE RestartCheck(r)
    BY <1>4, <2>1, <2>3, <2>5, PhaseFacts DEF RestartCheck
  <2>6. CASE RestartStart(r)
    <3>1. pc[r] \notin NodePhases /\ Goto(r, pc[r])
      BY <2>2, <2>6, PhaseFacts DEF RestartStart
    <3>2. PICK n \in j.made : job' = [job EXCEPT ![r].made = j.made \ {n}]
      BY <2>6 DEF RestartStart
    <3> QED
      BY <2>1, <2>3, <3>1, <3>2
  <2>7. CASE RestartVerify(r)
    <3>1. CASE \E p \in {"emitFailed", "saveStop"} : Goto(r, p) /\ UNCHANGED job
      BY <1>2, <3>1, PhaseFacts
    <3>2. ASSUME NEW n \in j.todo, UNCHANGED pc, job' = [job EXCEPT ![r].todo = @ \ {n}]
          PROVE  Owned(r)'
      <4>1. pc[r] \notin NodePhases /\ Goto(r, pc[r])
        BY <2>2, <2>7, <3>2, PhaseFacts DEF RestartVerify
      <4> QED
        BY <2>1, <2>3, <3>2, <4>1
    <3> QED
      BY <2>7, <3>1, <3>2 DEF RestartVerify
  <2> QED
    BY <1>16, <2>4, <2>5, <2>6, <2>7
<1>17. CASE RestartStop(r)
  <2>1. PICK n \in j.todo :
          \/ job' = [job EXCEPT ![r].todo = @ \ {n}, ![r].made = @ \cup {n}]
          \/ job' = [job EXCEPT ![r].todo = @ \ {n}]
    BY <1>17 DEF RestartStop
  <2>2. PICK T \in SUBSET NodesOf[h] :
          job' = [job EXCEPT ![r] = [j EXCEPT !.todo = j.todo \ {n}, !.made = T]]
    <3>1. j.made \cup {n} \in SUBSET NodesOf[h] /\ j.made \in SUBSET NodesOf[h]
      BY <1>1, WithinFields
    <3>2. [j EXCEPT !.todo = j.todo \ {n}, !.made = j.made] = [j EXCEPT !.todo = j.todo \ {n}]
      BY <1>1 DEF JobType
    <3>3. CASE job' = [job EXCEPT ![r].todo = @ \ {n}, ![r].made = @ \cup {n}]
      BY <1>1, <3>1, <3>3 DEF JobType
    <3>4. CASE job' = [job EXCEPT ![r].todo = @ \ {n}]
      BY <3>1, <3>2, <3>4
    <3> QED
      BY <2>1, <3>3, <3>4
  <2> DEFINE e == [j EXCEPT !.todo = j.todo \ {n}, !.made = T]
  <2>3. Within(e, h) /\ e.head = h /\ e.cur = j.cur
    BY <1>1, WithinFields DEF Within, JobType
  <2>4. pc' = [pc EXCEPT ![r] = pc[r]] /\ pc[r] \notin NodePhases
    BY <1>1, <1>17, WithinFields, PhaseFacts DEF RestartStop
  <2>5. job' = [job EXCEPT ![r] = e]
    BY <2>2
  <2> HIDE DEF e
  <2> QED
    BY <1>3, <2>3, <2>4, <2>5
<1>18. CASE SaveRunning(r) \/ SaveStop(r)
  <2>1. ASSUME NEW st, NEW p, p \notin NodePhases, Goto(r, p), job' = [job EXCEPT ![r].status = st]
        PROVE  Owned(r)'
    <3> DEFINE e == [j EXCEPT !.status = st]
    <3>1. Within(e, h) /\ e.head = h /\ e.cur = j.cur
      BY <1>1, WithinFields DEF Within, JobType
    <3>2. job' = [job EXCEPT ![r] = e] /\ pc' = [pc EXCEPT ![r] = p]
      BY <2>1 DEF Goto
    <3> HIDE DEF e
    <3> QED
      BY <1>3, <2>1, <3>1, <3>2
  <2> QED
    BY <1>2, <1>18, <2>1, PhaseFacts DEF SaveRunning, SaveStop
<1>19. CASE RemoveDir(r)
  BY <1>2, <1>19, PhaseFacts DEF RemoveDir
<1>20. CASE WaitTimeout(r)
  BY <1>1, <1>20, FailOwned DEF WaitTimeout
<1>21. CASE Emit(r) \/ Refresh(r) \/ DeleteRows(r)
  BY <1>4, <1>21, PhaseFacts DEF Emit, Refresh, DeleteRows
<1> QED
  BY <1>7, <1>8, <1>9, <1>10, <1>11, <1>12, <1>13, <1>14, <1>15, <1>16, <1>17, <1>18, <1>19,
     <1>20, <1>21 DEF ReqStep

LEMMA ReqFaultOwned ==
    ASSUME IInv, NEW r \in Reqs, Owned(r), ReqFault(r), InFlight(r)'
    PROVE  Owned(r)'
<1> DEFINE j == job[r]
           h == HeadOf(r)
<1>1. TypeOK /\ pc \in [Reqs -> Phases] /\ job \in [Reqs -> JobType]
  BY DEF IInv, TypeOK
<1>2. CASE pc[r] \in {"create", "start"} /\ AttemptFails(r)
  BY <1>1, <1>2, AttemptFailsOwned
<1>3. CASE \E o \in {"rejected", "failed"} : Finish(r, o)
  BY <1>1, <1>3 DEF Finish, Goto, InFlight, Ended
<1>4. CASE EndRemoval(r)
  BY <1>1, <1>4, EndRemovalOwned
<1>5. CASE Fail(r)
  BY <1>1, <1>5, FailOwned
<1>6. CASE UNCHANGED job /\ \E p \in {"deleteRows", "saveStop"} : Goto(r, p)
  BY <1>1, <1>6, PhaseFacts DEF Goto, Owned, Within, HeadOf
<1>7. CASE /\ pc[r] = "restart" /\ UNCHANGED pc
           /\ \E n \in j.todo \cup j.made :
              job' = [job EXCEPT ![r].todo = @ \ {n}, ![r].made = @ \ {n}]
  <2>1. PICK n \in j.todo \cup j.made :
              job' = [job EXCEPT ![r].todo = @ \ {n}, ![r].made = @ \ {n}]
    BY <1>7
  <2> DEFINE e == [j EXCEPT !.todo = @ \ {n}, !.made = @ \ {n}]
  <2>2. Within(e, h) /\ e.head = h /\ e.cur = j.cur
    BY <1>1, WithinFields DEF Within, JobType
  <2>3. job' = [job EXCEPT ![r] = e] /\ pc' = [pc EXCEPT ![r] = pc[r]]
    BY <1>1, <1>7, <2>1, WithinFields DEF JobType
  <2> HIDE DEF e
  <2> QED
    BY <1>1, <1>7, <2>2, <2>3, MoveOwned, PhaseFacts
<1> QED
  BY <1>2, <1>3, <1>4, <1>5, <1>6, <1>7 DEF ReqFault

------------------------------------------------------------------------------
(* What a step of a request can change. *)

LEMMA StepFrame ==
    ASSUME IInv, NEW r \in Reqs, Owned(r), ReqStep(r) \/ ReqFault(r)
    PROVE  /\ \A n \in Nodes : n \notin NodesOf[HeadOf(r)] => ctr'[n] = ctr[n]
           /\ \A g \in Heads : g # HeadOf(r) =>
                row'[g] = row[g] /\ (g \in nodeRows => g \in nodeRows')
           /\ nodeRows' \subseteq nodeRows /\ dirs' \subseteq dirs
           /\ disturbed \subseteq disturbed'
<1> USE DEF db, mem, env
<1>1. /\ ctr \in [Nodes -> ContainerType] /\ row \in [Heads -> Statuses]
      /\ pc[r] \in NodePhases => job[r].cur \in NodesOf[HeadOf(r)]
      /\ job[r].todo \subseteq NodesOf[HeadOf(r)] /\ job[r].made \subseteq NodesOf[HeadOf(r)]
  BY DEF IInv, TypeOK, Statuses, Owned, Within
<1>2. CASE UNCHANGED <<db, ctr, disturbed>>
  BY <1>2
<1>3. CASE UNCHANGED <<db, disturbed>> /\ pc[r] \in NodePhases
           /\ \E c : ctr' = [ctr EXCEPT ![job[r].cur] = c]
  BY <1>1, <1>3
<1>4. CASE RemovalStop(r)
  BY <1>2, <1>3, <1>4, PhaseFacts DEF RemovalStop, SetState, NodePhases
<1>5. CASE RemovalRemove(r)
  BY <1>2, <1>3, <1>5, PhaseFacts DEF RemovalRemove, NodePhases
<1>6. CASE Create(r) \/ Start(r)
  BY <1>2, <1>3, <1>6, PhaseFacts DEF Create, Start, SetState
<1>7. CASE RestartStop(r) \/ RestartStart(r)
  BY <1>1, <1>7 DEF RestartStop, RestartStart, SetState
<1>8. CASE SaveRunning(r) \/ SaveStop(r)
  BY <1>1, <1>8 DEF SaveRunning, SaveStop
<1>9. CASE RemoveDir(r) \/ DeleteRows(r)
  BY <1>1, <1>9 DEF RemoveDir, DeleteRows
<1>10. CASE ReqFault(r)
  BY <1>10 DEF ReqFault
<1>11. CASE Load(r) \/ CheckLimit(r) \/ Prepare(r) \/ RemovalInspect(r) \/ InspectNew(r)
            \/ CacheRead(r) \/ CacheWrite(r) \/ NodeAnswers(r) \/ WaitTimeout(r) \/ Emit(r)
            \/ RestartCheck(r) \/ RestartVerify(r) \/ Refresh(r)
  BY <1>2, <1>11 DEF Load, CheckLimit, Prepare, RemovalInspect, InspectNew, CacheRead,
     CacheWrite, NodeAnswers, WaitTimeout, Emit, RestartCheck, RestartVerify, Refresh
<1> QED
  BY <1>4, <1>5, <1>6, <1>7, <1>8, <1>9, <1>10, <1>11 DEF ReqStep

\* A request that is yet to load a head without a row is rejected.
LEMMA LoadRejected ==
    ASSUME NEW r \in Reqs, ReqStep(r) \/ ReqFault(r), pc[r] = "load", row[HeadOf(r)] = "absent"
    PROVE  Finish(r, "rejected") /\ UNCHANGED <<db, ctr>>
<1>1. CASE ReqFault(r)
  BY <1>1 DEF ReqFault, Removing
<1>2. CASE ReqStep(r)
  BY <1>2 DEF ReqStep, Load, CheckLimit, Prepare, RemovalInspect,
     RemovalStop, RemovalRemove, Create, Start, InspectNew, CacheRead, CacheWrite, NodeAnswers,
     WaitTimeout, SaveRunning, SaveStop, Emit, RestartCheck, RestartStop, RestartStart,
     RestartVerify, Refresh, RemoveDir, DeleteRows, Removing
<1> QED
  BY <1>1, <1>2

LEMMA FitsTable ==
    ASSUME NEW o
    PROVE  /\ \A p \in {"limit", "prepare", "clear", "create", "start", "retry", "inspect",
                       "cacheRead", "emit", "cleanup"} : Fits(o, p) <=> o = "activate"
           /\ \A p \in {"listed", "restart", "verify"} : Fits(o, p) <=> o = "restart"
           /\ \A p \in {"removeDir", "deleteRows"} : Fits(o, p) <=> o = "delete"
           /\ \A p \in {"cacheWrite", "wait", "emitFailed"} :
                Fits(o, p) <=> o \in {"activate", "restart"}
           /\ Fits(o, "load") <=> o \in Commands
           /\ Fits(o, "remove") <=> o \in {"deactivate", "delete"}
           /\ Fits(o, "refresh") <=> o = "deactivate"
           /\ Fits(o, "saveStop") <=> o \in {"activate", "restart", "deactivate"}
BY DEF Fits, Commands, ActivatePcs, RestartPcs, DeactivatePcs, DeletePcs

\* A command goes its own way, and ends well with its last action.
LEMMA StepPhases ==
    ASSUME IInv, NEW r \in Reqs, PhaseKnown(r), ReqStep(r) \/ ReqFault(r)
    PROVE  \/ PhaseKnown(r)'
           \/ pc'[r] = "rejected"
           \/ ReqFault(r) /\ pc'[r] = "failed"
           \/ /\ Emit(r) \/ Refresh(r) \/ DeleteRows(r)
              /\ pc'[r] \in {"done", "failed"}
<1> DEFINE op == job[r].op
           G == \/ Fits(op, pc'[r])
                \/ pc'[r] = "rejected"
                \/ ReqFault(r) /\ pc'[r] = "failed"
                \/ /\ Emit(r) \/ Refresh(r) \/ DeleteRows(r)
                   /\ pc'[r] \in {"done", "failed"}
<1>1. pc \in [Reqs -> Phases] /\ job'[r].op = op /\ InFlight(r) /\ Fits(op, pc[r])
  BY ReqStepLocal, ReqFaultLocal, ReqInFlight DEF IInv, TypeOK, Local, PhaseKnown
<1>2. ASSUME NEW p, Goto(r, p), Fits(op, p) PROVE G
  BY <1>1, <1>2 DEF Goto
<1>3. ASSUME Finish(r, "rejected") PROVE G
  BY <1>1, <1>3 DEF Finish, Goto
<1>4. ASSUME NEW j, NEW S, NEW p, NEW q, Visit(r, j, S, p, q), Fits(op, p), Fits(op, q) PROVE G
  BY <1>2, <1>4 DEF Visit
<1> SUFFICES G
  BY <1>1 DEF PhaseKnown, G
<1> HIDE DEF G
<1>5. ASSUME Fail(r) PROVE G
  <2>1. CASE op = "activate" /\ Visit(r, job[r], job[r].made, "cleanup", "saveStop")
    BY <1>4, <2>1, FitsTable
  <2>2. CASE op = "restart" /\ Goto(r, "verify")
    BY <1>2, <2>2, FitsTable
  <2> QED
    BY <1>5, <2>1, <2>2 DEF Fail
<1>6. ASSUME AttemptFails(r), pc[r] \in {"create", "start"} PROVE G
  <2>1. op = "activate"
    BY <1>1, <1>6, FitsTable
  <2> QED
    BY <1>2, <1>5, <1>6, <2>1, FitsTable DEF AttemptFails
<1>7. ASSUME EndRemoval(r) PROVE G
  <2>1. CASE pc[r] \in {"clear", "retry"} /\ Goto(r, "create")
    BY <1>1, <1>2, <2>1, FitsTable
  <2>2. CASE pc[r] = "cleanup" /\ Visit(r, job[r], job[r].todo, "cleanup", "saveStop")
    BY <1>1, <1>4, <2>2, FitsTable
  <2>3. CASE pc[r] = "remove" /\ Visit(r, job[r], job[r].todo, "remove",
                   IF op = "delete" THEN "removeDir" ELSE "saveStop")
    BY <1>1, <1>4, <2>3, FitsTable
  <2> QED
    BY <1>7, <2>1, <2>2, <2>3 DEF EndRemoval
<1>8. ASSUME UNCHANGED pc PROVE G
  BY <1>1, <1>8 DEF G
<1>9. CASE Load(r)
  <2>1. ASSUME NEW j, NEW S, op = "deactivate", Visit(r, j, S, "remove", "saveStop") PROVE G
    BY <1>4, <2>1, FitsTable
  <2>2. ASSUME NEW j, NEW S, op = "delete", Visit(r, j, S, "remove", "removeDir") PROVE G
    BY <1>4, <2>2, FitsTable
  <2>3. CASE op = "activate" /\ Goto(r, "limit")
    BY <1>2, <2>3, FitsTable
  <2>4. CASE op = "restart" /\ Goto(r, "listed")
    BY <1>2, <2>4, FitsTable
  <2>5. job[r] \in JobType
    BY DEF IInv, TypeOK
  <2> QED
    BY <1>3, <1>9, <2>1, <2>2, <2>3, <2>4, <2>5 DEF Load, JobType
<1>10. CASE CheckLimit(r)
  BY <1>1, <1>2, <1>3, <1>10, FitsTable DEF CheckLimit
<1>11. CASE Prepare(r)
  BY <1>1, <1>3, <1>4, <1>11, FitsTable DEF Prepare
<1>12. CASE RemovalInspect(r) \/ RemovalStop(r) \/ RemovalRemove(r)
  BY <1>7, <1>8, <1>12 DEF RemovalInspect, RemovalStop, RemovalRemove, NextCall
<1>13. CASE Create(r) \/ Start(r)
  BY <1>1, <1>2, <1>6, <1>13, FitsTable DEF Create, Start
<1>14. CASE InspectNew(r)
  BY <1>1, <1>4, <1>5, <1>14, FitsTable DEF InspectNew
<1>15. CASE CacheRead(r) \/ CacheWrite(r)
  BY <1>1, <1>2, <1>5, <1>15, FitsTable DEF CacheRead, CacheWrite
<1>16. CASE NodeAnswers(r) \/ WaitTimeout(r) \/ RestartStop(r) \/ RestartStart(r)
  BY <1>5, <1>8, <1>16 DEF NodeAnswers, WaitTimeout, RestartStop, RestartStart
<1>17. CASE SaveRunning(r) \/ SaveStop(r)
  BY <1>2, <1>17, FitsTable DEF SaveRunning, SaveStop
<1>18. CASE Emit(r) \/ Refresh(r) \/ DeleteRows(r)
  <2>1. pc'[r] \in {"done", "failed"}
    BY <1>1, <1>18 DEF Emit, Refresh, DeleteRows, Finish, Goto
  <2> QED
    BY <1>18, <2>1 DEF G
<1>19. CASE RestartCheck(r)
  BY <1>1, <1>2, <1>3, <1>19, FitsTable DEF RestartCheck
<1>20. CASE RestartVerify(r)
  BY <1>1, <1>2, <1>8, <1>20, FitsTable DEF RestartVerify
<1>21. CASE RemoveDir(r)
  BY <1>1, <1>2, <1>21, FitsTable DEF RemoveDir
<1>22. CASE ReqFault(r)
  <2>1. CASE pc[r] \in {"create", "start"} /\ AttemptFails(r)
    BY <1>6, <2>1
  <2>2. CASE \E o \in {"rejected", "failed"} : Finish(r, o)
    BY <1>1, <1>22, <2>2 DEF Finish, Goto, G
  <2>3. CASE EndRemoval(r) \/ Fail(r) \/ UNCHANGED pc
    BY <1>5, <1>7, <1>8, <2>3
  <2>4. CASE pc[r] = "removeDir" /\ Goto(r, "deleteRows")
    BY <1>1, <1>2, <2>4, FitsTable
  <2>5. CASE pc[r] = "verify" /\ Goto(r, "saveStop")
    BY <1>1, <1>2, <2>5, FitsTable
  <2> QED
    BY <1>22, <2>1, <2>2, <2>3, <2>4, <2>5 DEF ReqFault
<1> QED
  BY <1>9, <1>10, <1>11, <1>12, <1>13, <1>14, <1>15, <1>16, <1>17, <1>18, <1>19, <1>20, <1>21,
     <1>22 DEF ReqStep

\* Nothing that has ended or is still to come has a phase of its command.
LEMMA FitsInFlight == \A op, p : Fits(op, p) => p \notin Ended \cup {"new"}
BY DEF Fits, Commands, ActivatePcs, RestartPcs, DeactivatePcs, DeletePcs, Ended

LEMMA PhasesGoOn ==
    ASSUME IInv, NEW r \in Reqs, PhaseKnown(r), ReqStep(r) \/ ReqFault(r)
    PROVE  (InFlight(r)' => PhaseKnown(r)') /\ pc'[r] # "new"
BY StepPhases, FitsInFlight DEF InFlight, Ended, PhaseKnown

\* A container of q is there because it was, or because q has just created it.
LEMMA StepOwns ==
    ASSUME IInv, NEW r \in Reqs, ReqStep(r) \/ ReqFault(r), NEW q \in Reqs, NEW n \in Nodes,
           Owns(q, n)'
    PROVE  Owns(q, n) \/ (Create(r) /\ q = r /\ n = job[r].cur)
<1>1. ctr \in [Nodes -> ContainerType]
  BY DEF IInv, TypeOK
<1>2. CASE UNCHANGED ctr
  BY <1>2 DEF Owns, Exists
<1>3. ASSUME NEW m, Exists(m), NEW s, SetState(m, s) PROVE Owns(q, n)
  BY <1>1, <1>3 DEF SetState, Owns, Exists, ContainerType
<1>4. CASE RemovalStop(r) \/ Start(r)
  BY <1>2, <1>3, <1>4 DEF RemovalStop, Start, Owns, Found
<1>5. CASE RemovalRemove(r)
  BY <1>1, <1>2, <1>5 DEF RemovalRemove, NoContainer, Owns, Exists
<1>6. CASE Create(r)
  BY <1>1, <1>2, <1>6 DEF Create, Owns, Exists
<1>7. CASE RestartStop(r) \/ RestartStart(r)
  BY <1>2, <1>3, <1>7 DEF RestartStop, RestartStart, Exists
<1> QED
  BY <1>2, <1>4, <1>5, <1>6, <1>7 DEF ReqFault, ReqStep, Load, CheckLimit, Prepare,
     RemovalInspect, InspectNew, CacheRead, CacheWrite, NodeAnswers, WaitTimeout, SaveRunning,
     SaveStop, Emit, RestartCheck, RestartVerify, Refresh, RemoveDir, DeleteRows

------------------------------------------------------------------------------
(* A deactivation or deletion that nothing disturbs clears its head. *)

LEMMA VisitClears ==
    ASSUME TypeOK, NEW r \in Reqs, NEW j \in JobType, j.head = HeadOf(r), NEW S,
           \A m \in NodesOf[HeadOf(r)] : Exists(m)' => m \in S,
           NEW after \in {"removeDir", "saveStop"}, Visit(r, j, S, "remove", after)
    PROVE  RemovalClears(r)'
<1>1. CASE S = {} /\ Goto(r, after) /\ job' = [job EXCEPT ![r] = j]
  BY <1>1 DEF TypeOK, Goto, RemovalClears, HeadOf
<1>2. ASSUME NEW n \in S, Goto(r, "remove"),
             job' = [job EXCEPT ![r] = [j EXCEPT !.cur = n, !.todo = S \ {n},
                                               !.call = "inspect"]]
      PROVE  RemovalClears(r)'
  <2>1. /\ job'[r].cur = n /\ job'[r].todo = S \ {n} /\ job'[r].call = "inspect"
        /\ job'[r].head = j.head /\ pc'[r] = "remove"
    BY <1>2 DEF TypeOK, JobType, Goto
  <2> QED
    BY <2>1 DEF RemovalClears, HeadOf
<1> QED
  BY <1>1, <1>2 DEF Visit

LEMMA RemovalStep ==
    ASSUME IInv, NEW r \in Reqs, Owned(r), PhaseKnown(r), job[r].op \in {"deactivate", "delete"},
           HeadOf(r) \in nodeRows, RemovalClears(r), ReqStep(r), InFlight(r)'
    PROVE  RemovalClears(r)'
<1> DEFINE j == job[r]
           h == HeadOf(r)
           n == job[r].cur
           after == IF j.op = "delete" THEN "removeDir" ELSE "saveStop"
           Pcs == {"load", "remove", "saveStop", "refresh", "removeDir", "deleteRows"}
<1>1. /\ TypeOK /\ pc \in [Reqs -> Phases] /\ job \in [Reqs -> JobType] /\ j \in JobType
      /\ ctr \in [Nodes -> ContainerType] /\ j.head = h /\ h \in Heads
      /\ pc[r] \in Pcs
  <2>1. InFlight(r)
    BY ReqInFlight
  <2> QED
    BY <2>1 DEF IInv, LocalsOK, TypeOK, HeadOf, PhaseKnown, Fits, DeactivatePcs, DeletePcs
<1>2. NodesOf[h] \subseteq Nodes
  BY <1>1, NodesAssumption
<1>3. ASSUME EndRemoval(r), pc[r] = "remove",
             \A m \in NodesOf[h] : Exists(m)' => m \in j.todo
      PROVE  RemovalClears(r)'
  <2>1. Visit(r, j, j.todo, "remove", after)
    BY <1>3 DEF EndRemoval
  <2> QED
    BY <1>1, <1>3, <2>1, VisitClears
<1>4. ASSUME NEW c, NextCall(r, c), pc[r] = "remove",
             \A m \in NodesOf[h] : Exists(m)' => Exists(m),
             c = "stop" => ctr'[n].state = "running",
             c = "remove" => ctr'[n].state # "running"
      PROVE  RemovalClears(r)'
  <2>1. /\ pc'[r] = "remove" /\ job'[r].todo = j.todo /\ job'[r].cur = n /\ job'[r].head = h
        /\ job'[r].call = c
    BY <1>1, <1>4 DEF NextCall, JobType
  <2> QED
    BY <1>4, <2>1 DEF RemovalClears, HeadOf, Running, Exists
<1>5. CASE Load(r)
  <2> DEFINE k == [j EXCEPT !.nodes = NodesOf[h], !.status = row[h]]
  <2>1. k \in JobType /\ k.head = h /\ k.nodes = NodesOf[h] /\ k.op = j.op
    BY <1>1, <1>2 DEF JobType, TypeOK, Statuses
  <2>2. UNCHANGED ctr /\ (Visit(r, k, k.nodes, "remove", after) \/ Finish(r, "rejected"))
    BY <1>5, <2>1 DEF Load
  <2> HIDE DEF k
  <2>3. ~Finish(r, "rejected")
    BY <1>1 DEF Finish, Goto, InFlight, Ended
  <2> QED
    BY <1>1, <2>1, <2>2, <2>3, VisitClears
<1>6. CASE RemovalInspect(r) /\ pc[r] = "remove"
  <2>1. UNCHANGED ctr /\ (Found(r) <=> Exists(n))
    BY <1>6 DEF RemovalInspect, Found, ByName
  <2>2. ~Found(r) => \A m \in NodesOf[h] : Exists(m)' => m \in j.todo
    BY <1>6, <2>1 DEF RemovalClears, Exists
  <2> QED
    BY <1>3, <1>4, <1>6, <2>1, <2>2 DEF RemovalInspect, Running, Exists
<1>7. CASE RemovalStop(r) /\ pc[r] = "remove"
  <2>1. Found(r) /\ Running(n)
    BY <1>7 DEF RemovalStop, Found, ByName, RemovalClears, Running, Exists
  <2>2. SetState(n, "exited") /\ NextCall(r, "remove")
    BY <1>7, <2>1 DEF RemovalStop
  <2>3. n \in Nodes
    BY <1>7 DEF IInv, LocalsOK, NodePhases, Removing
  <2>4. ctr'[n].state = "exited" /\ \A m \in Nodes : m # n => ctr'[m] = ctr[m]
    BY <1>1, <2>2, <2>3 DEF SetState, ContainerType
  <2> QED
    BY <1>2, <1>4, <1>7, <2>1, <2>2, <2>4 DEF Running, Exists
<1>8. CASE RemovalRemove(r) /\ pc[r] = "remove"
  <2>1. ~Running(n) /\ (Found(r) <=> Exists(n))
    BY <1>8 DEF RemovalRemove, Found, ByName, RemovalClears
  <2>2. n \in Nodes
    BY <1>8 DEF IInv, LocalsOK, NodePhases, Removing
  <2>3. ctr'[n].state = "absent" /\ \A m \in Nodes : m # n => ctr'[m] = ctr[m]
    BY <1>1, <1>8, <2>1, <2>2 DEF RemovalRemove, NoContainer, Exists
  <2>4. \A m \in NodesOf[h] : Exists(m)' => m \in j.todo
    BY <1>2, <1>8, <2>3 DEF RemovalClears, Exists
  <2> QED
    BY <1>3, <1>8, <2>4 DEF RemovalRemove
<1>9. CASE RemoveDir(r)
  <2>1. pc'[r] = "deleteRows" /\ UNCHANGED <<job, ctr>> /\ pc[r] = "removeDir"
    BY <1>1, <1>9 DEF RemoveDir, Goto
  <2> QED
    BY <2>1 DEF RemovalClears, HeadOf, Exists
<1>10. CASE DeleteRows(r) \/ Refresh(r)
  BY <1>1, <1>10, PhaseFacts DEF DeleteRows, Refresh, Finish, Goto, InFlight
<1>11. CASE SaveStop(r)
  <2>1. pc'[r] = "refresh" /\ UNCHANGED <<job, ctr>> /\ pc[r] = "saveStop"
    BY <1>1, <1>11 DEF SaveStop, Goto
  <2> QED
    BY <2>1 DEF RemovalClears, HeadOf, Exists
<1> QED
  BY <1>1, <1>5, <1>6, <1>7, <1>8, <1>9, <1>10, <1>11 DEF ReqStep, CheckLimit, Prepare,
     RemovalInspect, RemovalStop, RemovalRemove, Removing,
     Create, Start, InspectNew, CacheRead, CacheWrite, NodeAnswers, WaitTimeout, SaveRunning,
     Emit, RestartCheck, RestartStop, RestartStart, RestartVerify

------------------------------------------------------------------------------
(* An activation that nothing disturbs. *)

\* The loaded nodes stay until the handler ends; only the last check of the
\* containers leads to the waiting, and only the saving to the announcement.
LEMMA NodesKept ==
    ASSUME IInv, NEW r \in Reqs, ReqStep(r) \/ ReqFault(r), ~Load(r), InFlight(r)'
    PROVE  /\ job'[r].nodes = job[r].nodes /\ pc'[r] \notin {"load", "limit"}
           /\ pc[r] = "limit" => LimitAllows(r)
           /\ pc'[r] = "wait" => pc[r] = "wait" \/ CacheWrite(r)
           /\ pc'[r] = "emit" => SaveRunning(r)
<1> DEFINE j == job[r]
           K == job'[r].nodes = j.nodes
           G == /\ K /\ pc'[r] \notin {"load", "limit"}
                /\ pc[r] = "limit" => LimitAllows(r)
                /\ pc'[r] = "wait" => pc[r] = "wait" \/ CacheWrite(r)
                /\ pc'[r] = "emit" => SaveRunning(r)
<1> SUFFICES G
  OBVIOUS
<1>1. pc \in [Reqs -> Phases] /\ job \in [Reqs -> JobType] /\ j \in JobType
  BY DEF IInv, TypeOK
<1>2. ASSUME NEW p, p \notin {"load", "limit", "wait", "emit"}, Goto(r, p), K, pc[r] # "limit"
      PROVE  G
  BY <1>1, <1>2 DEF Goto
<1>3. ASSUME UNCHANGED pc, K, pc[r] \notin {"load", "limit", "emit"} PROVE G
  BY <1>3
<1>4. ASSUME NEW o \in Ended, Finish(r, o) PROVE FALSE
  BY <1>1, <1>4 DEF Finish, Goto, InFlight
<1> HIDE DEF G
<1>5. ASSUME NEW S, NEW p, NEW q, Visit(r, j, S, p, q),
             {p, q} \cap {"load", "limit", "wait", "emit"} = {},
             pc[r] # "limit"
      PROVE  G
  <2>1. CASE Goto(r, q) /\ job' = [job EXCEPT ![r] = j]
    BY <1>1, <1>2, <1>5, <2>1
  <2>2. ASSUME NEW n, Goto(r, p),
               job' = [job EXCEPT ![r] = [j EXCEPT !.cur = n, !.todo = S \ {n},
                                                  !.call = "inspect"]]
        PROVE  G
    <3>1. K
      BY <1>1, <2>2 DEF JobType
    <3> QED
      BY <1>2, <1>5, <2>2, <3>1
  <2> QED
    BY <1>5, <2>1, <2>2 DEF Visit
<1>6. ASSUME Fail(r), pc[r] # "limit" PROVE G
  <2>1. CASE Goto(r, "verify") /\ job' = [job EXCEPT ![r].todo = j.nodes]
    <3>1. K
      BY <1>1, <2>1 DEF JobType
    <3> QED
      BY <1>2, <1>6, <2>1, <3>1
  <2> QED
    BY <1>5, <1>6, <2>1 DEF Fail
<1>7. ASSUME AttemptFails(r), pc[r] \in {"create", "start"} PROVE G
  <2>1. CASE Goto(r, "retry") /\ job' = [job EXCEPT ![r].call = "inspect"]
    <3>1. K
      BY <1>1, <2>1 DEF JobType
    <3> QED
      BY <1>2, <1>7, <2>1, <3>1
  <2> QED
    BY <1>6, <1>7, <2>1 DEF AttemptFails
<1>8. ASSUME EndRemoval(r) PROVE G
  <2>1. ASSUME pc[r] \in {"clear", "retry"}, Goto(r, "create"), NEW k,
               job' = [job EXCEPT ![r].tries = k]
        PROVE  G
    <3>1. K
      BY <1>1, <2>1 DEF JobType
    <3> QED
      BY <1>2, <2>1, <3>1
  <2> QED
    BY <1>5, <1>8, <2>1 DEF EndRemoval
<1>9. CASE CheckLimit(r)
  <2>1. Goto(r, "prepare") /\ UNCHANGED job /\ LimitAllows(r)
    BY <1>4, <1>9, PhaseFacts DEF CheckLimit
  <2> QED
    BY <1>1, <2>1 DEF Goto, G
<1>10. CASE Prepare(r)
  BY <1>4, <1>5, <1>10, PhaseFacts DEF Prepare
<1>11. CASE RemovalInspect(r) \/ RemovalStop(r) \/ RemovalRemove(r)
  <2>1. ASSUME NEW c, NextCall(r, c) PROVE G
    <3>1. K
      BY <1>1, <2>1 DEF NextCall, JobType
    <3>2. pc[r] \in Removing
      BY <1>11 DEF RemovalInspect, RemovalStop, RemovalRemove
    <3> QED
      BY <1>3, <2>1, <3>1, <3>2 DEF NextCall, Removing
  <2> QED
    BY <1>8, <1>11, <2>1 DEF RemovalInspect, RemovalStop, RemovalRemove
<1>12. CASE Create(r)
  BY <1>2, <1>7, <1>12 DEF Create
<1>13. CASE Start(r)
  <2>1. CASE Goto(r, "inspect") /\ job' = [job EXCEPT ![r].made = @ \cup {j.cur}]
    <3>1. K
      BY <1>1, <2>1 DEF JobType
    <3> QED
      BY <1>2, <1>13, <2>1, <3>1 DEF Start
  <2> QED
    BY <1>7, <1>13, <2>1 DEF Start
<1>14. CASE InspectNew(r)
  BY <1>5, <1>6, <1>14 DEF InspectNew
<1>15. CASE CacheRead(r)
  <2>1. K
    BY <1>1, <1>15 DEF CacheRead, JobType
  <2> QED
    BY <1>2, <1>15, <2>1 DEF CacheRead
<1>16. CASE CacheWrite(r)
  <2>1. CASE Goto(r, "wait") /\ job' = [job EXCEPT ![r].todo = j.nodes, ![r].read = {}]
    <3>1. K /\ pc'[r] = "wait"
      BY <1>1, <2>1 DEF Goto, JobType
    <3> QED
      BY <1>16, <3>1 DEF CacheWrite, G
  <2> QED
    BY <1>6, <1>16, <2>1 DEF CacheWrite
<1>17. CASE NodeAnswers(r)
  <2>1. K
    BY <1>1, <1>17 DEF NodeAnswers, JobType
  <2> QED
    BY <1>3, <1>17, <2>1 DEF NodeAnswers
<1>18. CASE WaitTimeout(r)
  BY <1>6, <1>18 DEF WaitTimeout
<1>19. CASE SaveRunning(r)
  <2>1. K /\ pc'[r] = "emit"
    BY <1>1, <1>19 DEF SaveRunning, Goto, JobType
  <2> QED
    BY <1>19, <2>1 DEF SaveRunning, G
<1>20. CASE SaveStop(r)
  <2>1. K
    BY <1>1, <1>20 DEF SaveStop, JobType
  <2> QED
    BY <1>2, <1>20, <2>1 DEF SaveStop
<1>21. CASE Emit(r) \/ Refresh(r) \/ DeleteRows(r)
  BY <1>4, <1>21, PhaseFacts DEF Emit, Refresh, DeleteRows
<1>22. CASE RestartCheck(r)
  <2>1. Goto(r, "restart") /\ job' = [job EXCEPT ![r].todo = j.nodes]
    BY <1>4, <1>22, PhaseFacts DEF RestartCheck
  <2>2. K
    BY <1>1, <2>1 DEF JobType
  <2> QED
    BY <1>2, <1>22, <2>1, <2>2 DEF RestartCheck
<1>23. CASE RestartStop(r)
  <2>1. K
    BY <1>1, <1>23 DEF RestartStop, JobType
  <2> QED
    BY <1>3, <1>23, <2>1 DEF RestartStop
<1>24. CASE RestartStart(r)
  <2>1. K
    BY <1>1, <1>24 DEF RestartStart, JobType
  <2> QED
    BY <1>3, <1>24, <2>1 DEF RestartStart
<1>25. CASE RestartVerify(r)
  <2>1. K
    BY <1>1, <1>25 DEF RestartVerify, JobType
  <2> QED
    BY <1>2, <1>3, <1>25, <2>1 DEF RestartVerify
<1>26. CASE RemoveDir(r)
  BY <1>2, <1>26 DEF RemoveDir
<1>27. CASE ReqFault(r)
  <2>1. ASSUME NEW o \in {"rejected", "failed"}, Finish(r, o) PROVE FALSE
    BY <1>4, <2>1, PhaseFacts
  <2>2. CASE \E p \in {"deleteRows", "saveStop"} : Goto(r, p) /\ UNCHANGED job /\ pc[r] # "limit"
    BY <1>2, <2>2
  <2>3. CASE /\ pc[r] = "restart" /\ UNCHANGED pc
             /\ \E n : job' = [job EXCEPT ![r].todo = @ \ {n}, ![r].made = @ \ {n}]
    <3>1. K
      BY <1>1, <2>3 DEF JobType
    <3> QED
      BY <1>3, <2>3, <3>1
  <2> QED
    BY <1>6, <1>7, <1>8, <1>27, <2>1, <2>2, <2>3 DEF ReqFault
<1> QED
  BY <1>9, <1>10, <1>11, <1>12, <1>13, <1>14, <1>15, <1>16, <1>17, <1>18, <1>19, <1>20, <1>21,
     <1>22, <1>23, <1>24, <1>25, <1>26, <1>27 DEF ReqStep

LEMMA WholeStep ==
    ASSUME IInv, NEW r \in Reqs, PhaseKnown(r), job[r].op = "activate", Whole(r), Said(r),
           ReqStep(r) \/ ReqFault(r), InFlight(r)'
    PROVE  Whole(r)' /\ Said(r)'
<1>1. /\ pc \in [Reqs -> Phases] /\ job \in [Reqs -> JobType] /\ job[r] \in JobType
      /\ HeadOf(r)' = HeadOf(r) /\ InFlight(r)
  BY ReqInFlight, ReqStepLocal, ReqFaultLocal DEF IInv, TypeOK, Local, HeadOf
<1>2. CASE Load(r)
  <2> DEFINE S == IF HeadOf(r) \in nodeRows THEN NodesOf[HeadOf(r)] ELSE {}
             k == [job[r] EXCEPT !.nodes = S, !.status = row[HeadOf(r)]]
  <2>1. k.nodes = S /\ k.op = "activate"
    BY <1>1 DEF JobType
  <2>2. ~Finish(r, "rejected")
    BY <1>1 DEF Finish, Goto, InFlight, Ended
  <2>3. Goto(r, "limit") /\ job' = [job EXCEPT ![r] = k]
    BY <1>2, <2>1, <2>2 DEF Load
  <2>4. pc'[r] = "limit" /\ job'[r].nodes = S
    BY <1>1, <2>1, <2>3 DEF Goto
  <2> QED
    BY <1>1, <2>4 DEF Whole, Said
<1>3. CASE ~Load(r)
  <2>1. pc[r] # "load"
    <3>1. ASSUME pc[r] = "load", ReqFault(r) PROVE FALSE
      BY <1>1, <3>1 DEF ReqFault, Removing, Finish, Goto, InFlight, Ended
    <3>2. ASSUME pc[r] = "load", ReqStep(r) PROVE FALSE
      BY <1>3, <3>2 DEF ReqStep, CheckLimit, Prepare, RemovalInspect, RemovalStop, RemovalRemove,
         Create, Start, InspectNew, CacheRead, CacheWrite, NodeAnswers, WaitTimeout, SaveRunning,
         SaveStop, Emit, RestartCheck, RestartStop, RestartStart, RestartVerify, Refresh,
         RemoveDir, DeleteRows, Removing
    <3> QED
      BY <3>1, <3>2
  <2>2. job'[r].nodes = NodesOf[HeadOf(r)]
    BY <1>3, <2>1, NodesKept DEF Whole, LimitAllows
  <2>3. pc'[r] = "emit" => job'[r].status = "running"
    BY <1>1, <1>3, NodesKept DEF SaveRunning, JobType
  <2> QED
    BY <1>1, <1>3, <2>2, <2>3, NodesKept DEF Whole, Said
<1> QED
  BY <1>2, <1>3

LEMMA UpStep ==
    ASSUME IInv, NEW r \in Reqs, PhaseKnown(r), job[r].op = "activate", Whole(r), Up(r),
           ReqStep(r), InFlight(r)'
    PROVE  Up(r)'
<1>1. pc \in [Reqs -> Phases] /\ HeadOf(r)' = HeadOf(r)
  BY ReqStepLocal DEF IInv, TypeOK, Local, HeadOf
<1> SUFFICES ASSUME pc'[r] \in {"wait", "emit"}
             PROVE  \A n \in NodesOf[HeadOf(r)] : Owns(r, n)' /\ Running(n)'
  BY <1>1 DEF Up
<1>2. ~Load(r)
  <2>1. job[r] \in JobType
    BY DEF IInv, TypeOK
  <2> QED
    BY <1>1, <2>1 DEF Load, Finish, Goto, JobType
<1>3. CASE CacheWrite(r)
  <2>1. ~Fail(r)
    BY <1>1 DEF Fail, Visit, Goto
  <2>2. UNCHANGED ctr /\ \A n \in job[r].nodes : SeenRunning(r, n)
    BY <1>3, <2>1 DEF CacheWrite
  <2>3. job[r].nodes = NodesOf[HeadOf(r)]
    BY <1>3 DEF CacheWrite, Whole
  <2> QED
    BY <2>2, <2>3 DEF SeenRunning, Owns, Running, Exists
<1>4. CASE ~CacheWrite(r)
  <2>1. pc[r] = "wait"
    BY <1>2, <1>4, NodesKept DEF SaveRunning
  <2>2. UNCHANGED ctr
    BY <2>1 DEF ReqStep, Load, CheckLimit, Prepare, RemovalInspect, RemovalStop, RemovalRemove,
       Create, Start, InspectNew, CacheRead, CacheWrite, NodeAnswers, WaitTimeout, SaveRunning,
       SaveStop, Emit, RestartCheck, RestartStop, RestartStart, RestartVerify, Refresh,
       RemoveDir, DeleteRows, Removing
  <2> QED
    BY <2>1, <2>2 DEF Up, Owns, Running, Exists
<1> QED
  BY <1>3, <1>4

\* A loop entered or continued with everything the request has recorded.
LEMMA VisitTidy ==
    ASSUME TypeOK, NEW r \in Reqs, NEW j \in JobType, NEW S,
           \/ /\ Visit(r, j, S, "clear", "cacheRead")
              /\ \A m \in Nodes : Owns(r, m)' => m \in j.made
           \/ /\ Visit(r, j, S, "cleanup", "saveStop")
              /\ \A m \in Nodes : Owns(r, m)' => m \in S
    PROVE  Tidy(r)'
<1>1. ASSUME NEW p, NEW q, Visit(r, j, S, p, q)
      PROVE  /\ job'[r].made = j.made
             /\ \/ S = {} /\ pc'[r] = q
                \/ /\ pc'[r] = p /\ job'[r].call = "inspect" /\ job'[r].cur \in S
                   /\ job'[r].todo = S \ {job'[r].cur}
  <2>1. CASE S = {} /\ Goto(r, q) /\ job' = [job EXCEPT ![r] = j]
    BY <2>1 DEF TypeOK, Goto
  <2>2. ASSUME NEW n \in S, Goto(r, p),
               job' = [job EXCEPT ![r] = [j EXCEPT !.cur = n, !.todo = S \ {n},
                                                  !.call = "inspect"]]
        PROVE  /\ job'[r].made = j.made /\ pc'[r] = p /\ job'[r].call = "inspect"
               /\ job'[r].cur = n /\ job'[r].todo = S \ {n}
    BY <2>2 DEF TypeOK, Goto, JobType
  <2> QED
    BY <1>1, <2>1, <2>2 DEF Visit
<1>2. CASE /\ Visit(r, j, S, "clear", "cacheRead")
           /\ \A m \in Nodes : Owns(r, m)' => m \in j.made
  BY <1>1, <1>2 DEF Tidy
<1>3. CASE /\ Visit(r, j, S, "cleanup", "saveStop")
           /\ \A m \in Nodes : Owns(r, m)' => m \in S
  BY <1>1, <1>3 DEF Tidy
<1> QED
  BY <1>2, <1>3

LEMMA FailTidy ==
    ASSUME TypeOK, NEW r \in Reqs, job[r].op = "activate", Fail(r), UNCHANGED ctr,
           \A m \in Nodes : Owns(r, m) => m \in job[r].made
    PROVE  Tidy(r)'
<1>1. Visit(r, job[r], job[r].made, "cleanup", "saveStop") /\ job[r] \in JobType
  BY DEF Fail, TypeOK
<1>2. \A m \in Nodes : Owns(r, m)' => m \in job[r].made
  BY DEF Owns, Exists
<1> QED
  BY <1>1, <1>2, VisitTidy

\* The removals of an activation: what it finds is as it was at the last call.
LEMMA RemovalTidy ==
    ASSUME IInv, NEW r \in Reqs, job[r].op = "activate", pc[r] \in {"clear", "cleanup"}, Tidy(r),
           RemovalInspect(r) \/ RemovalStop(r) \/ RemovalRemove(r)
    PROVE  Tidy(r)'
<1> DEFINE j == job[r]
           n == job[r].cur
<1>1. /\ TypeOK /\ pc \in [Reqs -> Phases] /\ job \in [Reqs -> JobType] /\ j \in JobType
      /\ ctr \in [Nodes -> ContainerType] /\ n \in Nodes
  BY PhaseFacts DEF IInv, TypeOK, LocalsOK
<1>2. \A m \in Nodes : Owns(r, m) => m \in IF pc[r] = "clear" THEN j.made ELSE j.todo \cup {n}
  BY DEF Tidy
<1>3. ASSUME EndRemoval(r), \A m \in Nodes : Owns(r, m)' => Owns(r, m),
             pc[r] = "clear" => ctr'[n].state = "absent",
             pc[r] = "cleanup" => ctr'[n].state = "absent" \/ ctr'[n].by # r
      PROVE  Tidy(r)'
  <2>1. CASE pc[r] = "clear"
    <3>1. Goto(r, "create") /\ job' = [job EXCEPT ![r].tries = 0]
      BY <1>3, <2>1 DEF EndRemoval
    <3>2. pc'[r] = "create" /\ job'[r].made = j.made /\ job'[r].cur = n
      BY <1>1, <3>1 DEF Goto, JobType
    <3> QED
      BY <1>2, <1>3, <2>1, <3>2 DEF Tidy, Exists
  <2>2. CASE pc[r] = "cleanup"
    <3>1. Visit(r, j, j.todo, "cleanup", "saveStop")
      BY <1>3, <2>2 DEF EndRemoval
    <3>2. \A m \in Nodes : Owns(r, m)' => m \in j.todo
      BY <1>2, <1>3, <2>2 DEF Owns, Exists
    <3> QED
      BY <1>1, <3>1, <3>2, VisitTidy
  <2> QED
    BY <2>1, <2>2
<1>4. ASSUME NEW c, NextCall(r, c), \A m \in Nodes : Owns(r, m)' => Owns(r, m),
             c = "stop" => /\ ctr'[n].state = "running"
                           /\ pc[r] = "clear" \/ ctr'[n].by = r,
             c = "remove" => ctr'[n].state # "running"
      PROVE  Tidy(r)'
  <2>1. /\ pc'[r] = pc[r] /\ job'[r].todo = j.todo /\ job'[r].made = j.made
        /\ job'[r].cur = n /\ job'[r].call = c
    BY <1>1, <1>4 DEF NextCall, JobType
  <2> QED
    BY <1>2, <1>4, <2>1 DEF Tidy, Found, Exists, Running, ByName
<1>5. CASE RemovalInspect(r)
  <2>1. UNCHANGED ctr /\ \A m \in Nodes : Owns(r, m)' => Owns(r, m)
    BY <1>5 DEF RemovalInspect, Owns, Exists
  <2>2. CASE Found(r) /\ Running(n) /\ NextCall(r, "stop")
    BY <1>4, <2>1, <2>2 DEF Found, Running, ByName
  <2>3. CASE Found(r) /\ ~Running(n) /\ NextCall(r, "remove")
    BY <1>4, <2>1, <2>3 DEF Running
  <2>4. CASE ~Found(r) /\ EndRemoval(r)
    BY <1>3, <2>1, <2>4 DEF Found, Exists, ByName
  <2> QED
    BY <1>5, <2>2, <2>3, <2>4 DEF RemovalInspect
<1>6. CASE RemovalStop(r)
  <2>1. SetState(n, "exited") /\ NextCall(r, "remove")
    BY <1>6 DEF RemovalStop, Tidy
  <2>2. ctr'[n].state = "exited" /\ \A m \in Nodes : Owns(r, m)' => Owns(r, m)
    BY <1>1, <1>6, <2>1 DEF RemovalStop, Tidy, SetState, Owns, Exists, Found, ContainerType
  <2> QED
    BY <1>4, <2>1, <2>2
<1>7. CASE RemovalRemove(r)
  <2>1. ~Running(n)
    BY <1>7 DEF RemovalRemove, Tidy
  <2>2. CASE Found(r)
    <3>1. ctr' = [ctr EXCEPT ![n] = NoContainer]
      BY <1>7, <2>1, <2>2 DEF RemovalRemove
    <3>2. ctr'[n].state = "absent" /\ \A m \in Nodes : Owns(r, m)' => Owns(r, m)
      BY <1>1, <3>1 DEF NoContainer, Owns, Exists
    <3> QED
      BY <1>3, <1>7, <3>2 DEF RemovalRemove
  <2>3. CASE ~Found(r)
    <3>1. UNCHANGED ctr
      BY <1>7, <2>3 DEF RemovalRemove
    <3> QED
      BY <1>3, <1>7, <2>3, <3>1 DEF RemovalRemove, Found, Owns, Exists, ByName
  <2> QED
    BY <2>2, <2>3
<1> QED
  BY <1>5, <1>6, <1>7

LEMMA TidyStep ==
    ASSUME IInv, NEW r \in Reqs, PhaseKnown(r), job[r].op = "activate", Tidy(r),
           ReqStep(r), InFlight(r)'
    PROVE  Tidy(r)'
<1> DEFINE j == job[r]
           n == job[r].cur
<1>1. /\ TypeOK /\ pc \in [Reqs -> Phases] /\ job \in [Reqs -> JobType] /\ j \in JobType
      /\ ctr \in [Nodes -> ContainerType] /\ pc[r] \in ActivatePcs \ {"retry"}
  BY DEF IInv, TypeOK, PhaseKnown, Fits, Tidy
<1>2. ASSUME NEW o \in Ended, Finish(r, o) PROVE FALSE
  BY <1>1, <1>2 DEF Finish, Goto, InFlight
<1>3. ASSUME NEW p \in {"limit", "prepare", "cacheWrite", "wait", "emit"}, pc'[r] = p,
             job'[r].made = j.made, UNCHANGED ctr,
             \A m \in Nodes : Owns(r, m) => m \in j.made
      PROVE  Tidy(r)'
  BY <1>3 DEF Tidy, Owns, Exists
<1>4. pc[r] \notin {"start", "cleanup", "saveStop", "emitFailed"} =>
        \A m \in Nodes : Owns(r, m) => m \in j.made
  BY DEF Tidy
<1>5. UNCHANGED ctr => \A m \in Nodes : Owns(r, m)' => Owns(r, m)
  BY DEF Owns, Exists
<1>6. CASE Load(r)
  <2> DEFINE S == IF HeadOf(r) \in nodeRows THEN NodesOf[HeadOf(r)] ELSE {}
             k == [j EXCEPT !.nodes = S, !.status = row[HeadOf(r)]]
  <2>1. k.made = j.made /\ k.op = "activate"
    BY <1>1 DEF JobType
  <2>2. ~Finish(r, "rejected")
    BY <1>2, PhaseFacts
  <2>3. Goto(r, "limit") /\ job' = [job EXCEPT ![r] = k] /\ UNCHANGED ctr /\ pc[r] = "load"
    BY <1>6, <2>1, <2>2 DEF Load
  <2>4. pc'[r] = "limit" /\ job'[r].made = j.made
    BY <1>1, <2>1, <2>3 DEF Goto
  <2> QED
    BY <1>3, <1>4, <2>3, <2>4
<1>7. CASE CheckLimit(r)
  <2>1. pc'[r] = "prepare" /\ UNCHANGED <<job, ctr>> /\ pc[r] = "limit"
    BY <1>1, <1>2, <1>7, PhaseFacts DEF CheckLimit, Goto
  <2> QED
    BY <1>3, <1>4, <2>1
<1>8. CASE Prepare(r)
  <2>1. Visit(r, j, j.nodes, "clear", "cacheRead") /\ UNCHANGED ctr /\ pc[r] = "prepare"
    BY <1>2, <1>8, PhaseFacts DEF Prepare
  <2> QED
    BY <1>1, <1>4, <1>5, <2>1, VisitTidy
<1>9. CASE RemovalInspect(r) \/ RemovalStop(r) \/ RemovalRemove(r)
  <2>1. pc[r] \in {"clear", "cleanup"}
    BY <1>1, <1>9 DEF ActivatePcs, Removing, RemovalInspect, RemovalStop, RemovalRemove
  <2> QED
    BY <1>9, <2>1, RemovalTidy
<1>10. CASE Create(r)
  <2>1. /\ ctr' = [ctr EXCEPT ![n] = [by |-> r, state |-> "created"]]
        /\ Goto(r, "start") /\ UNCHANGED job /\ pc[r] = "create"
    BY <1>10 DEF Create, Tidy
  <2>2. n \in Nodes
    BY <2>1, PhaseFacts DEF IInv, LocalsOK
  <2>3. /\ pc'[r] = "start" /\ Owns(r, n)' /\ ~Running(n)'
        /\ \A m \in Nodes : Owns(r, m)' => m \in j.made \cup {n}
    BY <1>1, <1>4, <2>1, <2>2 DEF Goto, Owns, Exists, Running
  <2> QED
    BY <2>1, <2>3 DEF Tidy
<1>11. CASE Start(r)
  <2>1. /\ SetState(n, "running") /\ Goto(r, "inspect") /\ pc[r] = "start"
        /\ job' = [job EXCEPT ![r].made = @ \cup {n}]
    BY <1>11 DEF Start, Tidy
  <2>2. \A m \in Nodes : Owns(r, m) => m \in j.made \cup {n}
    BY <2>1 DEF Tidy
  <2>3. \A m \in Nodes : Owns(r, m)' => m \in j.made \cup {n}
    BY <1>1, <2>1, <2>2 DEF SetState, Owns, Exists
  <2>4. pc'[r] = "inspect" /\ job'[r].made = j.made \cup {n}
    BY <1>1, <2>1 DEF Goto, JobType
  <2> QED
    BY <2>3, <2>4 DEF Tidy
<1>12. CASE InspectNew(r)
  <2>1. UNCHANGED ctr /\ pc[r] = "inspect"
    BY <1>12 DEF InspectNew
  <2>2. CASE Visit(r, j, j.todo, "clear", "cacheRead")
    BY <1>1, <1>4, <1>5, <2>1, <2>2, VisitTidy
  <2> QED
    BY <1>1, <1>4, <1>12, <2>1, <2>2, FailTidy DEF InspectNew
<1>13. CASE CacheRead(r)
  <2>1. /\ pc'[r] = "cacheWrite" /\ job'[r].made = j.made /\ UNCHANGED ctr
        /\ pc[r] \notin {"start", "cleanup", "saveStop", "emitFailed"}
    BY <1>1, <1>13 DEF CacheRead, Goto, JobType
  <2> QED
    BY <1>3, <1>4, <2>1
<1>14. CASE CacheWrite(r)
  <2>1. UNCHANGED ctr /\ pc[r] = "cacheWrite"
    BY <1>14 DEF CacheWrite
  <2>2. CASE Goto(r, "wait") /\ job' = [job EXCEPT ![r].todo = j.nodes, ![r].read = {}]
    <3>1. pc'[r] = "wait" /\ job'[r].made = j.made
      BY <1>1, <2>2 DEF Goto, JobType
    <3> QED
      BY <1>3, <1>4, <2>1, <3>1
  <2> QED
    BY <1>1, <1>4, <1>14, <2>1, <2>2, FailTidy DEF CacheWrite
<1>15. CASE NodeAnswers(r)
  <2>1. pc'[r] = "wait" /\ job'[r].made = j.made /\ UNCHANGED ctr /\ pc[r] = "wait"
    BY <1>1, <1>15 DEF NodeAnswers, JobType
  <2> QED
    BY <1>3, <1>4, <2>1
<1>16. CASE WaitTimeout(r)
  <2>1. UNCHANGED ctr /\ pc[r] = "wait" /\ Fail(r)
    BY <1>16 DEF WaitTimeout
  <2> QED
    BY <1>1, <1>4, <2>1, FailTidy
<1>17. CASE SaveRunning(r)
  <2>1. pc'[r] = "emit" /\ job'[r].made = j.made /\ UNCHANGED ctr /\ pc[r] = "wait"
    BY <1>1, <1>17 DEF SaveRunning, Goto, JobType
  <2> QED
    BY <1>3, <1>4, <2>1
<1>18. CASE SaveStop(r)
  <2>1. pc'[r] = "emitFailed" /\ UNCHANGED ctr /\ pc[r] = "saveStop"
    BY <1>1, <1>18 DEF SaveStop, Goto
  <2> QED
    BY <1>5, <2>1 DEF Tidy
<1>19. CASE Emit(r) \/ Refresh(r) \/ DeleteRows(r)
  BY <1>2, <1>19, PhaseFacts DEF Emit, Refresh, DeleteRows
<1>20. ~(RestartCheck(r) \/ RestartStop(r) \/ RestartStart(r) \/ RestartVerify(r) \/ RemoveDir(r))
  BY <1>1 DEF ActivatePcs, RestartCheck, RestartStop, RestartStart, RestartVerify, RemoveDir
<1> QED
  BY <1>6, <1>7, <1>8, <1>9, <1>10, <1>11, <1>12, <1>13, <1>14, <1>15, <1>16, <1>17, <1>18,
     <1>19, <1>20 DEF ReqStep

------------------------------------------------------------------------------
(* What the last steps of a command have written. *)

LEMMA WrittenStep ==
    ASSUME IInv, NEW r \in Reqs, PhaseKnown(r), ReqStep(r), InFlight(r)'
    PROVE  Written(r)'
<1>1. /\ pc \in [Reqs -> Phases] /\ job \in [Reqs -> JobType]
      /\ row \in [Heads -> Statuses] /\ HeadOf(r) \in Heads /\ HeadOf(r)' = HeadOf(r)
      /\ job'[r].op = job[r].op
  BY ReqInFlight, ReqStepLocal DEF IInv, TypeOK, Statuses, LocalsOK, Local, HeadOf
<1> DEFINE Last == {"emitFailed", "refresh", "deleteRows"}
<1>2. ASSUME NEW o, Finish(r, o), o \in Ended PROVE FALSE
  BY <1>1, <1>2 DEF Finish, Goto, InFlight
<1>3. ASSUME NEW p, p \notin Last, Goto(r, p) PROVE pc'[r] \notin Last
  BY <1>1, <1>3 DEF Goto
<1>4. ASSUME NEW j, NEW S, NEW p, NEW q, Visit(r, j, S, p, q), p \notin Last, q \notin Last
      PROVE  pc'[r] \notin Last
  BY <1>1, <1>3, <1>4 DEF Visit
<1>5. ASSUME Fail(r) PROVE pc'[r] \notin Last
  BY <1>3, <1>4, <1>5 DEF Fail
<1>6. ASSUME EndRemoval(r) PROVE pc'[r] \notin Last
  BY <1>3, <1>4, <1>6 DEF EndRemoval
<1>7. ASSUME AttemptFails(r) PROVE pc'[r] \notin Last
  BY <1>3, <1>5, <1>7 DEF AttemptFails
<1>8. ASSUME pc'[r] \in Last PROVE SaveStop(r) \/ RestartVerify(r) \/ RemoveDir(r)
  <2>1. CASE Load(r) \/ CheckLimit(r) \/ Prepare(r) \/ RestartCheck(r)
    BY <1>2, <1>3, <1>4, <1>8, <2>1
       DEF Load, CheckLimit, Prepare, RestartCheck, Ended
  <2>2. CASE RemovalInspect(r) \/ RemovalStop(r) \/ RemovalRemove(r)
    BY <1>6, <1>8, <2>2 DEF RemovalInspect, RemovalStop, RemovalRemove, NextCall, Removing
  <2>3. CASE Create(r) \/ Start(r) \/ InspectNew(r) \/ CacheRead(r) \/ CacheWrite(r)
    BY <1>3, <1>4, <1>5, <1>7, <1>8, <2>3
       DEF Create, Start, InspectNew, CacheRead, CacheWrite
  <2>4. CASE NodeAnswers(r) \/ WaitTimeout(r) \/ SaveRunning(r) \/ Emit(r) \/ Refresh(r)
             \/ RestartStop(r) \/ RestartStart(r) \/ DeleteRows(r)
    BY <1>2, <1>3, <1>5, <1>8, <2>4
       DEF NodeAnswers, WaitTimeout, SaveRunning, Emit, Refresh, RestartStop, RestartStart,
           DeleteRows, Ended
  <2> QED
    BY <2>1, <2>2, <2>3, <2>4 DEF ReqStep
<1>9. CASE SaveStop(r)
  BY <1>1, <1>9 DEF SaveStop, Goto, Written, HeadOf
<1>10. CASE RestartVerify(r)
  <2>1. job[r].op = "restart"
    BY <1>10, FitsTable DEF RestartVerify, PhaseKnown
  <2>2. pc'[r] # "deleteRows"
    BY <1>1, <1>10 DEF RestartVerify, Goto
  <2> QED
    BY <1>1, <2>1, <2>2 DEF Written
<1>11. CASE RemoveDir(r)
  BY <1>1, <1>11 DEF RemoveDir, Goto, Written, HeadOf
<1> QED
  BY <1>8, <1>9, <1>10, <1>11 DEF Written

------------------------------------------------------------------------------
(* The invariant is inductive. *)

LEMMA InitCommands == Init => CommandInv
<1> SUFFICES ASSUME Init PROVE CommandInv
  OBVIOUS
<1>1. \A r \in Reqs : pc[r] = "new" /\ ~InFlight(r)
  BY DEF Init, InFlight
<1>2. nodeRows = Heads
  BY DEF Init
<1>3. ASSUME NEW r \in Reqs, NEW n \in Nodes PROVE ~Owns(r, n)
  <2>1. ctr[n].by = Earlier
    BY DEF Init, NoContainer
  <2> QED
    BY <2>1, ConstantsAssumption DEF Owns
<1> QED
  BY <1>1, <1>2, <1>3 DEF CommandInv, OwnNodes, PhasesKnown, OverlapsSeen, RowsKept, Removals,
     Deleted, DeletedBy, Writings, MadeByOwn, Activations

\* A request whose locals and whose containers stay as they are knows what it knew.
LEMMA Unmoved ==
    ASSUME IInv, NEW q \in Reqs, InFlight(q), Owned(q), pc'[q] = pc[q], job'[q] = job[q],
           \A m \in NodesOf[HeadOf(q)] : ctr'[m] = ctr[m],
           \A m \in Nodes : Owns(q, m)' => Owns(q, m)
    PROVE  /\ RemovalClears(q) => RemovalClears(q)'
           /\ Up(q) => Up(q)'
           /\ Tidy(q) => Tidy(q)'
<1>1. pc[q] \in NodePhases => job[q].cur \in NodesOf[HeadOf(q)]
  BY DEF Owned
<1>2. HeadOf(q)' = HeadOf(q)
  BY DEF HeadOf
<1>3. RemovalClears(q) => RemovalClears(q)'
  BY <1>1, <1>2, PhaseFacts DEF RemovalClears, Exists, Running
<1>4. Up(q) => Up(q)'
  BY <1>2 DEF Up, Owns, Exists, Running
<1>5. ASSUME Tidy(q) PROVE Tidy(q)'
  <2> DEFINE n == job[q].cur
  <2>1. pc[q] \in {"start", "clear", "cleanup", "create"} => ctr'[n] = ctr[n]
    BY <1>1, PhaseFacts
  <2>2. pc[q] \in {"clear", "cleanup"} =>
          /\ job[q].call = "stop" => Running(n)' /\ Found(q)'
          /\ job[q].call = "remove" => ~Running(n)'
    BY <1>5, <2>1 DEF Tidy, Found, Exists, Running
  <2>3. pc[q] = "start" => Owns(q, n)' /\ ~Running(n)'
    BY <1>5, <2>1 DEF Tidy, Owns, Exists, Running
  <2>4. pc[q] = "create" => ~Exists(n)'
    BY <1>5, <2>1 DEF Tidy, Exists
  <2>5. /\ pc[q] \notin {"start", "cleanup", "saveStop", "emitFailed"} =>
             \A m \in Nodes : Owns(q, m)' => m \in job[q].made
        /\ pc[q] = "start" => \A m \in Nodes : Owns(q, m)' => m \in job[q].made \cup {n}
        /\ pc[q] = "cleanup" => \A m \in Nodes : Owns(q, m)' => m \in job[q].todo \cup {n}
        /\ pc[q] \in {"saveStop", "emitFailed"} => \A m \in Nodes : ~Owns(q, m)'
        /\ pc[q] # "retry"
    BY <1>5 DEF Tidy
  <2> QED
    BY <2>2, <2>3, <2>4, <2>5 DEF Tidy
<1> QED
  BY <1>3, <1>4, <1>5

LEMMA SaysTheSame ==
    ASSUME NEW q \in Reqs, pc'[q] = pc[q], job'[q] = job[q]
    PROVE  (Whole(q) => Whole(q)') /\ (Said(q) => Said(q)')
BY DEF Whole, Said, HeadOf

\* The requests a step of r does not make stay as they are.
LEMMA OthersStay ==
    ASSUME IInv, NEW r \in Reqs, ReqStep(r) \/ ReqFault(r)
    PROVE  /\ InFlight(r) /\ HeadOf(r) \in Heads /\ HeadOf(r)' = HeadOf(r)
           /\ job'[r].op = job[r].op
           /\ \A q \in Reqs \ {r} :
                /\ pc'[q] = pc[q] /\ job'[q] = job[q]
                /\ InFlight(q)' <=> InFlight(q)
                /\ \A h \in Heads : DeletedBy(q, h)' <=> DeletedBy(q, h)
           /\ \A h \in Heads : ~DeletedBy(r, h)
<1>1. InFlight(r) /\ Local(r)
  BY ReqInFlight, ReqStepLocal, ReqFaultLocal DEF IInv
<1> QED
  BY <1>1 DEF IInv, LocalsOK, Local, InFlight, Ended, HeadOf, DeletedBy

\* Nor does it touch the head of a request that stays undisturbed.
LEMMA OtherHead ==
    ASSUME IInv, CommandInv, NEW r \in Reqs, ReqStep(r) \/ ReqFault(r),
           NEW q \in Reqs \ {r}, InFlight(q), q \notin disturbed'
    PROVE  /\ HeadOf(q) \in Heads /\ HeadOf(q) # HeadOf(r) /\ row'[HeadOf(q)] = row[HeadOf(q)]
           /\ dirs' \subseteq dirs /\ q \notin disturbed
           /\ RemovalClears(q) => RemovalClears(q)'
           /\ Up(q) => Up(q)'
           /\ Tidy(q) => Tidy(q)'
<1>1. Owned(r) /\ Owned(q) /\ HeadOf(r) \in Heads
  BY OthersStay DEF CommandInv, OwnNodes
<1>2. disturbed \subseteq disturbed' /\ dirs' \subseteq dirs
  BY <1>1, StepFrame
<1>3. HeadOf(q) # HeadOf(r) /\ HeadOf(q) \in Heads
  BY <1>2, OthersStay DEF CommandInv, OverlapsSeen, IInv, LocalsOK
<1>4. \A m \in NodesOf[HeadOf(q)] : ctr'[m] = ctr[m]
  BY <1>1, <1>3, StepFrame, NodesAssumption
<1>5. row'[HeadOf(q)] = row[HeadOf(q)]
  BY <1>1, <1>3, StepFrame
<1>6. \A m \in Nodes : Owns(q, m)' => Owns(q, m)
  BY StepOwns
<1>7. pc'[q] = pc[q] /\ job'[q] = job[q]
  BY OthersStay
<1> QED
  BY <1>1, <1>2, <1>3, <1>4, <1>5, <1>6, <1>7, Unmoved

LEMMA ReqLocals ==
    ASSUME IInv, CommandInv, NEW r \in Reqs, ReqStep(r) \/ ReqFault(r)
    PROVE  OwnNodes' /\ PhasesKnown' /\ OverlapsSeen'
<1>1. Owned(r) /\ PhaseKnown(r)
  BY OthersStay DEF CommandInv, OwnNodes, PhasesKnown
<1>2. OwnNodes'
  <2> SUFFICES ASSUME NEW q \in Reqs, InFlight(q)' PROVE Owned(q)'
    BY DEF OwnNodes
  <2>1. CASE q = r
    BY <1>1, <2>1, ReqStepOwned, ReqFaultOwned
  <2>2. CASE q # r
    BY <2>2, OthersStay DEF CommandInv, OwnNodes, Owned, Within, HeadOf
  <2> QED
    BY <2>1, <2>2
<1>3. PhasesKnown'
  <2> SUFFICES ASSUME NEW q \in Reqs, InFlight(q)' PROVE PhaseKnown(q)'
    BY DEF PhasesKnown
  <2>1. CASE q = r
    BY <1>1, <2>1, PhasesGoOn
  <2>2. CASE q # r
    BY <2>2, OthersStay DEF CommandInv, PhasesKnown, PhaseKnown
  <2> QED
    BY <2>1, <2>2
<1>4. OverlapsSeen'
  <2> SUFFICES ASSUME NEW p \in Reqs, NEW q \in Reqs, p # q, InFlight(p)', InFlight(q)',
                      HeadOf(p)' = HeadOf(q)'
               PROVE  q \in disturbed'
    BY DEF OverlapsSeen
  <2>1. InFlight(p) /\ InFlight(q) /\ HeadOf(p) = HeadOf(q)
    BY OthersStay DEF HeadOf
  <2> QED
    BY <1>1, <2>1, StepFrame DEF CommandInv, OverlapsSeen
<1> QED
  BY <1>2, <1>3, <1>4

LEMMA ReqRows ==
    ASSUME IInv, CommandInv, NEW r \in Reqs, ReqStep(r) \/ ReqFault(r)
    PROVE  RowsKept'
<1>1. Owned(r) /\ PhaseKnown(r)
  BY OthersStay DEF CommandInv, OwnNodes, PhasesKnown
<1> SUFFICES ASSUME NEW h \in Heads, h \notin nodeRows'
             PROVE  \E q \in Reqs : DeletedBy(q, h)'
  BY DEF RowsKept
<1>2. CASE h \notin nodeRows
  BY <1>2, OthersStay DEF CommandInv, RowsKept
<1>3. CASE h \in nodeRows
  <2>1. DeleteRows(r)
    BY <1>3 DEF db, ReqStep, ReqFault, Load, CheckLimit, Prepare, RemovalInspect, RemovalStop,
       RemovalRemove, Create, Start, InspectNew, CacheRead, CacheWrite, NodeAnswers, WaitTimeout,
       SaveRunning, SaveStop, Emit, RestartCheck, RestartStop, RestartStart, RestartVerify,
       Refresh, RemoveDir
  <2>2. h = HeadOf(r) /\ job[r].op = "delete"
    BY <1>1, <1>3, <2>1, FitsTable DEF DeleteRows, PhaseKnown
  <2>3. pc'[r] = "done"
    BY <2>1 DEF DeleteRows, Finish, Goto, IInv, TypeOK
  <2> QED
    BY <2>2, <2>3, OthersStay DEF DeletedBy, HeadOf
<1> QED
  BY <1>2, <1>3

LEMMA ReqRemovals ==
    ASSUME IInv, CommandInv, NEW r \in Reqs, ReqStep(r) \/ ReqFault(r)
    PROVE  Removals'
<1>1. Owned(r) /\ PhaseKnown(r)
  BY OthersStay DEF CommandInv, OwnNodes, PhasesKnown
<1> SUFFICES ASSUME NEW q \in Reqs, InFlight(q)', job'[q].op \in {"deactivate", "delete"},
                    q \notin disturbed', HeadOf(q)' \in nodeRows'
             PROVE  RemovalClears(q)'
  BY DEF Removals
<1>2. q \notin disturbed /\ InFlight(q) /\ HeadOf(q) \in nodeRows
      /\ job[q].op \in {"deactivate", "delete"}
  BY <1>1, StepFrame, OthersStay DEF HeadOf
<1>3. RemovalClears(q)
  BY <1>2 DEF CommandInv, Removals
<1>4. CASE q = r
  <2>1. ReqStep(r)
    BY <1>4 DEF ReqFault
  <2> QED
    BY <1>1, <1>2, <1>3, <1>4, <2>1, RemovalStep
<1>5. CASE q # r
  BY <1>2, <1>3, <1>5, OtherHead
<1> QED
  BY <1>4, <1>5

LEMMA ReqDeleted ==
    ASSUME IInv, CommandInv, NEW r \in Reqs, ReqStep(r) \/ ReqFault(r)
    PROVE  Deleted'
<1>1. Owned(r) /\ PhaseKnown(r)
  BY OthersStay DEF CommandInv, OwnNodes, PhasesKnown
<1> SUFFICES ASSUME NEW d \in Reqs, NEW h \in Heads, DeletedBy(d, h)', d \notin disturbed'
             PROVE  /\ row'[h] = "absent" /\ h \notin nodeRows'
                    /\ \A q \in Reqs : InFlight(q)' /\ HeadOf(q)' = h => pc'[q] = "load"
                    /\ OnlyDeleter(d, h)' => \A n \in NodesOf[h] : ~Exists(n)'
  BY DEF Deleted
<1>2. d \notin disturbed
  BY <1>1, StepFrame
<1>3. OnlyDeleter(d, h)' => OnlyDeleter(d, h)
  BY OthersStay DEF OnlyDeleter
<1>4. NodesOf[h] \subseteq Nodes
  BY NodesAssumption
<1>5. CASE d # r
  <2>1. /\ row[h] = "absent" /\ h \notin nodeRows
        /\ \A q \in Reqs : InFlight(q) /\ HeadOf(q) = h => pc[q] = "load"
        /\ OnlyDeleter(d, h) => \A n \in NodesOf[h] : ~Exists(n)
    BY <1>2, <1>5, OthersStay DEF CommandInv, Deleted
  <2>2. CASE HeadOf(r) # h
    <3>1. row'[h] = "absent" /\ h \notin nodeRows'
      BY <1>1, <2>1, <2>2, StepFrame
    <3>2. \A n \in NodesOf[h] : ctr'[n] = ctr[n]
      BY <1>1, <1>4, <2>2, StepFrame, OthersStay, NodesAssumption
    <3>3. ASSUME NEW q \in Reqs, InFlight(q)', HeadOf(q)' = h PROVE pc'[q] = "load"
      BY <2>1, <2>2, <3>3, OthersStay DEF HeadOf
    <3> QED
      BY <1>3, <2>1, <3>1, <3>2, <3>3 DEF Exists
  <2>3. CASE HeadOf(r) = h
    <3>1. Finish(r, "rejected") /\ UNCHANGED <<db, ctr>>
      BY <2>1, <2>3, LoadRejected, OthersStay
    <3>2. ~InFlight(r)'
      BY <3>1 DEF Finish, Goto, InFlight, Ended, IInv, TypeOK
    <3>3. ASSUME NEW q \in Reqs, InFlight(q)', HeadOf(q)' = h PROVE pc'[q] = "load"
      BY <2>1, <3>2, <3>3, OthersStay DEF HeadOf
    <3> QED
      BY <1>3, <2>1, <3>1, <3>3 DEF Exists, db
  <2> QED
    BY <2>2, <2>3
<1>6. CASE d = r
  <2>1. pc'[r] = "done" /\ job[r].op = "delete" /\ HeadOf(r) = h
    BY <1>6, OthersStay DEF DeletedBy
  <2>2. DeleteRows(r)
    <3>1. pc[r] \in DeletePcs
      BY <1>1, <2>1 DEF PhaseKnown, Fits
    <3>2. ~PhaseKnown(r)'
      BY <2>1, FitsInFlight DEF PhaseKnown, Ended
    <3>3. ~Emit(r) /\ ~Refresh(r)
      BY <3>1 DEF Emit, Refresh, DeletePcs
    <3> QED
      BY <1>1, <2>1, <3>2, <3>3, StepPhases
  <2>3. row'[h] = "absent" /\ h \notin nodeRows' /\ UNCHANGED ctr /\ pc[r] = "deleteRows"
    BY <2>1, <2>2 DEF DeleteRows, IInv, TypeOK
  <2>4. ASSUME NEW q \in Reqs, InFlight(q)', HeadOf(q)' = h PROVE FALSE
    <3>1. q # r
      BY <2>1, <2>4 DEF InFlight, Ended
    <3>2. InFlight(q) /\ HeadOf(q) = HeadOf(r)
      BY <2>1, <2>4, <3>1, OthersStay DEF HeadOf
    <3> QED
      BY <1>2, <1>6, <3>1, <3>2, OthersStay DEF CommandInv, OverlapsSeen
  <2>5. ASSUME OnlyDeleter(r, h)' PROVE \A n \in NodesOf[h] : ~Exists(n)
    <3>1. h \in nodeRows
      BY <1>3, <1>6, <2>5, OthersStay DEF OnlyDeleter, CommandInv, RowsKept
    <3>2. RemovalClears(r)
      BY <1>2, <1>6, <2>1, <3>1, OthersStay DEF CommandInv, Removals
    <3> QED
      BY <2>1, <2>3, <3>2 DEF RemovalClears
  <2> QED
    BY <1>6, <2>3, <2>4, <2>5 DEF Exists
<1> QED
  BY <1>5, <1>6

LEMMA ReqWritings ==
    ASSUME IInv, CommandInv, NEW r \in Reqs, ReqStep(r) \/ ReqFault(r)
    PROVE  Writings'
<1> SUFFICES ASSUME NEW q \in Reqs, InFlight(q)', q \notin disturbed' PROVE Written(q)'
  BY DEF Writings
<1>1. CASE q = r
  <2>1. ReqStep(r) /\ PhaseKnown(r)
    BY <1>1, OthersStay DEF ReqFault, CommandInv, PhasesKnown
  <2> QED
    BY <1>1, <2>1, WrittenStep
<1>2. CASE q # r
  <2>1. InFlight(q) /\ pc'[q] = pc[q] /\ job'[q] = job[q]
    BY <1>2, OthersStay
  <2>2. /\ q \notin disturbed /\ row'[HeadOf(q)] = row[HeadOf(q)] /\ dirs' \subseteq dirs
    BY <1>2, <2>1, OtherHead
  <2> QED
    BY <2>1, <2>2 DEF CommandInv, Writings, Written, HeadOf
<1> QED
  BY <1>1, <1>2

LEMMA ReqMade ==
    ASSUME IInv, CommandInv, NEW r \in Reqs, ReqStep(r) \/ ReqFault(r)
    PROVE  MadeByOwn'
<1>1. Owned(r) /\ PhaseKnown(r)
  BY OthersStay DEF CommandInv, OwnNodes, PhasesKnown
<1>2. pc'[r] # "new"
  BY <1>1, PhasesGoOn
<1> SUFFICES ASSUME NEW q \in Reqs, NEW n \in Nodes, Owns(q, n)'
             PROVE  pc'[q] # "new" /\ n \in NodesOf[HeadOf(q)']
  BY DEF MadeByOwn, HeadOf
<1>3. HeadOf(q)' = HeadOf(q) /\ (q # r => pc'[q] = pc[q])
  BY OthersStay DEF HeadOf
<1>4. CASE Owns(q, n)
  BY <1>2, <1>3, <1>4 DEF CommandInv, MadeByOwn
<1>5. CASE Create(r) /\ q = r /\ n = job[r].cur
  BY <1>1, <1>2, <1>3, <1>5, PhaseFacts DEF Create, Owned
<1> QED
  BY <1>4, <1>5, StepOwns

LEMMA ReqActivations ==
    ASSUME IInv, CommandInv, NEW r \in Reqs, ReqStep(r) \/ ReqFault(r)
    PROVE  Activations'
<1>1. PhaseKnown(r)
  BY OthersStay DEF CommandInv, PhasesKnown
<1> SUFFICES ASSUME NEW q \in Reqs, InFlight(q)', job'[q].op = "activate"
             PROVE  Whole(q)' /\ Said(q)' /\ (q \notin disturbed' => Up(q)' /\ Tidy(q)')
  BY DEF Activations
<1>2. InFlight(q) /\ job[q].op = "activate"
  BY OthersStay
<1>3. Whole(q) /\ Said(q) /\ (q \notin disturbed => Up(q) /\ Tidy(q))
  BY <1>2 DEF CommandInv, Activations
<1>4. CASE q = r
  <2>1. Whole(r)' /\ Said(r)'
    BY <1>1, <1>2, <1>3, <1>4, WholeStep
  <2>2. ASSUME r \notin disturbed' PROVE Up(r)' /\ Tidy(r)'
    <3>1. ReqStep(r) /\ r \notin disturbed
      <4>1. Owned(r)
        BY OthersStay DEF CommandInv, OwnNodes
      <4> QED
        BY <2>2, <4>1, StepFrame DEF ReqFault
    <3> QED
      BY <1>1, <1>2, <1>3, <1>4, <3>1, UpStep, TidyStep
  <2> QED
    BY <1>4, <2>1, <2>2
<1>5. CASE q # r
  <2>1. Whole(q)' /\ Said(q)'
    BY <1>3, <1>5, OthersStay, SaysTheSame
  <2>2. ASSUME q \notin disturbed' PROVE Up(q)' /\ Tidy(q)'
    BY <1>2, <1>3, <1>5, <2>2, OtherHead
  <2> QED
    BY <2>1, <2>2
<1> QED
  BY <1>4, <1>5

LEMMA AcceptCommands ==
    ASSUME IInv, CommandInv, NEW r \in Reqs, Accept(r)
    PROVE  CommandInv'
<1>1. PICK o \in Ops, h \in Heads :
        LET others == {q \in Reqs : InFlight(q) /\ HeadOf(q) = h}
        IN  /\ job' = [job EXCEPT ![r] = [NoJob EXCEPT !.op = o, !.head = h]]
            /\ disturbed' = IF others = {} THEN disturbed ELSE disturbed \cup others \cup {r}
  BY DEF Accept
<1>2. /\ pc' = [pc EXCEPT ![r] = "load"] /\ pc[r] = "new"
      /\ UNCHANGED <<row, nodeRows, dirs, ctr>>
  BY DEF Accept, Goto, db
<1>3. /\ pc'[r] = "load" /\ InFlight(r)' /\ ~InFlight(r)
      /\ \A q \in Reqs \ {r} : pc'[q] = pc[q] /\ job'[q] = job[q] /\ (InFlight(q)' <=> InFlight(q))
      /\ job'[r].head = h /\ job'[r].nodes = {} /\ job'[r].todo = {} /\ job'[r].made = {}
      /\ job'[r].op = o
  BY <1>1, <1>2 DEF IInv, TypeOK, InFlight, Ended, NoJob
<1>4. \A q \in Reqs, g \in Heads : DeletedBy(q, g)' <=> DeletedBy(q, g)
  BY <1>2, <1>3 DEF DeletedBy, HeadOf
<1>5. disturbed \subseteq disturbed'
  BY <1>1
<1>12. ASSUME NEW q \in Reqs \ {r}, InFlight(q)
       PROVE  /\ RemovalClears(q) => RemovalClears(q)'
              /\ Up(q) => Up(q)'
              /\ Tidy(q) => Tidy(q)'
  <2>1. Owned(q)
    BY <1>12 DEF CommandInv, OwnNodes
  <2>2. \A m \in Nodes : Owns(q, m)' => Owns(q, m)
    BY <1>2 DEF Owns, Exists
  <2>3. /\ pc'[q] = pc[q] /\ job'[q] = job[q]
        /\ \A m \in NodesOf[HeadOf(q)] : ctr'[m] = ctr[m]
    BY <1>2, <1>3
  <2> QED
    BY <1>12, <2>1, <2>2, <2>3, Unmoved
<1>6. OwnNodes'
  BY <1>3, PhaseFacts DEF CommandInv, OwnNodes, Owned, Within, HeadOf
<1>7. PhasesKnown'
  BY <1>3, FitsTable, ConstantsAssumption DEF CommandInv, PhasesKnown, PhaseKnown
<1>8. OverlapsSeen'
  <2> SUFFICES ASSUME NEW p \in Reqs, NEW q \in Reqs, p # q, InFlight(p)', InFlight(q)',
                      job'[p].head = job'[q].head
               PROVE  q \in disturbed'
    BY DEF OverlapsSeen, HeadOf
  <2>1. CASE p # r /\ q # r
    BY <1>3, <1>5, <2>1 DEF CommandInv, OverlapsSeen, HeadOf
  <2>2. CASE p = r
    <3>1. InFlight(q) /\ HeadOf(q) = h
      BY <1>3, <2>2 DEF HeadOf
    <3> QED
      BY <1>1, <3>1
  <2>3. CASE q = r
    <3>1. InFlight(p) /\ HeadOf(p) = h
      BY <1>3, <2>3 DEF HeadOf
    <3> QED
      BY <1>1, <2>3, <3>1
  <2> QED
    BY <2>1, <2>2, <2>3
<1>9. RowsKept'
  BY <1>2, <1>4 DEF CommandInv, RowsKept
<1>10. Removals'
  <2> SUFFICES ASSUME NEW q \in Reqs, InFlight(q)', job'[q].op \in {"deactivate", "delete"},
                      q \notin disturbed', job'[q].head \in nodeRows'
               PROVE  RemovalClears(q)'
    BY DEF Removals, HeadOf
  <2>1. CASE q = r
    BY <1>3, <2>1 DEF RemovalClears
  <2>2. CASE q # r
    <3>1. RemovalClears(q)
      BY <1>2, <1>3, <1>5, <2>2 DEF CommandInv, Removals, HeadOf
    <3> QED
      BY <1>3, <1>12, <2>2, <3>1
  <2> QED
    BY <2>1, <2>2
<1>11. Deleted'
  <2> SUFFICES ASSUME NEW d \in Reqs, NEW g \in Heads, DeletedBy(d, g), d \notin disturbed
               PROVE  /\ row'[g] = "absent" /\ g \notin nodeRows'
                      /\ \A q \in Reqs : InFlight(q)' /\ HeadOf(q)' = g => pc'[q] = "load"
                      /\ OnlyDeleter(d, g)' => \A n \in NodesOf[g] : ~Exists(n)'
    BY <1>4, <1>5 DEF Deleted
  <2>1. \A q \in Reqs : InFlight(q)' /\ HeadOf(q)' = g => pc'[q] = "load"
    BY <1>3 DEF CommandInv, Deleted, HeadOf
  <2> QED
    BY <1>2, <1>4, <2>1 DEF CommandInv, Deleted, OnlyDeleter, Exists
<1>13. Writings'
  BY <1>2, <1>3, <1>5 DEF CommandInv, Writings, Written, HeadOf
<1>14. MadeByOwn'
  <2> SUFFICES ASSUME NEW q \in Reqs, NEW n \in Nodes, Owns(q, n)
               PROVE  pc'[q] # "new" /\ n \in NodesOf[HeadOf(q)']
    BY <1>2 DEF MadeByOwn, Owns, Exists, HeadOf
  <2>1. q # r
    BY <1>2 DEF CommandInv, MadeByOwn
  <2> QED
    BY <1>3, <2>1 DEF CommandInv, MadeByOwn, HeadOf
<1>15. Activations'
  <2> SUFFICES ASSUME NEW q \in Reqs, InFlight(q)', job'[q].op = "activate"
               PROVE  Whole(q)' /\ Said(q)' /\ (q \notin disturbed' => Up(q)' /\ Tidy(q)')
    BY DEF Activations
  <2>1. CASE q = r
    <3>1. \A m \in Nodes : ~Owns(r, m)'
      BY <1>2 DEF CommandInv, MadeByOwn, Owns, Exists
    <3> QED
      BY <1>3, <2>1, <3>1 DEF Whole, Said, Up, Tidy
  <2>2. CASE q # r
    <3>1. InFlight(q) /\ job[q].op = "activate" /\ pc'[q] = pc[q] /\ job'[q] = job[q]
      BY <1>3, <2>2
    <3>2. Whole(q) /\ Said(q) /\ (q \notin disturbed' => Up(q) /\ Tidy(q))
      BY <1>5, <3>1 DEF CommandInv, Activations
    <3>3. Whole(q)' /\ Said(q)'
      BY <3>1, <3>2, SaysTheSame
    <3>4. ASSUME q \notin disturbed' PROVE Up(q)' /\ Tidy(q)'
      BY <1>12, <2>2, <3>1, <3>2, <3>4
    <3> QED
      BY <3>3, <3>4
  <2> QED
    BY <2>1, <2>2
<1> QED
  BY <1>6, <1>7, <1>8, <1>9, <1>10, <1>11, <1>13, <1>14, <1>15 DEF CommandInv

LEMMA CrashCommands ==
    ASSUME IInv, CommandInv, Crash
    PROVE  CommandInv'
<1>1. /\ \A q \in Reqs : pc'[q] = IF InFlight(q) THEN "lost" ELSE pc[q]
      /\ \A q \in Reqs : job'[q].op = job[q].op /\ job'[q].head = job[q].head
      /\ UNCHANGED <<row, nodeRows, disturbed>>
  BY DEF Crash, NoJob, db
<1>2. \A q \in Reqs : ~InFlight(q)'
  BY <1>1 DEF InFlight, Ended
<1>3. \A q \in Reqs, h \in Heads : DeletedBy(q, h)' <=> DeletedBy(q, h)
  BY <1>1 DEF DeletedBy, HeadOf, InFlight, Ended
<1>4. \A n \in Nodes : (Exists(n)' <=> Exists(n)) /\ ctr'[n].by = ctr[n].by
  <2>1. PICK back \in SUBSET {n \in Nodes : ctr[n].state = "restarting"} :
          ctr' = [n \in Nodes |-> IF n \in back THEN [ctr[n] EXCEPT !.state = "running"]
                                  ELSE ctr[n]]
    BY DEF Crash
  <2>2. ASSUME NEW n \in Nodes PROVE (Exists(n)' <=> Exists(n)) /\ ctr'[n].by = ctr[n].by
    <3>1. ctr[n] \in ContainerType
      BY DEF IInv, TypeOK
    <3>2. CASE n \in back
      <4>1. /\ ctr'[n].state = "running" /\ ctr[n].state = "restarting"
            /\ ctr'[n].by = ctr[n].by
        BY <2>1, <3>1, <3>2 DEF ContainerType
      <4> QED
        BY <4>1 DEF Exists
    <3>3. CASE n \notin back
      BY <2>1, <3>3 DEF Exists
    <3> QED
      BY <3>2, <3>3
  <2> QED
    BY <2>2
<1>5. OwnNodes' /\ PhasesKnown' /\ OverlapsSeen' /\ Removals' /\ Writings' /\ Activations'
  BY <1>2 DEF OwnNodes, PhasesKnown, OverlapsSeen, Removals, Writings, Activations
<1>6. RowsKept'
  BY <1>1, <1>3 DEF CommandInv, RowsKept
<1>7. Deleted'
  BY <1>1, <1>2, <1>3, <1>4, NodesAssumption DEF CommandInv, Deleted, OnlyDeleter
<1>8. MadeByOwn'
  <2> SUFFICES ASSUME NEW q \in Reqs, NEW n \in Nodes, Owns(q, n)
               PROVE  pc'[q] # "new" /\ n \in NodesOf[HeadOf(q)']
    BY <1>4 DEF MadeByOwn, Owns, HeadOf
  <2> QED
    BY <1>1 DEF CommandInv, MadeByOwn, HeadOf
<1> QED
  BY <1>5, <1>6, <1>7, <1>8 DEF CommandInv

\* A container that dies disturbs the requests on its head; a pass of the health
\* cron updates only rows that are there.
LEMMA OtherCommands ==
    ASSUME IInv, CommandInv,
           \/ EnvStep \/ UNCHANGED vars
           \/ \E p \in Passes : CronStep(p) \/ CronFault(p)
    PROVE  CommandInv'
<1>1. UNCHANGED <<pc, job, nodeRows>> /\ disturbed \subseteq disturbed'
  BY DEF EnvStep, CronRefresh, StoreListing, CacheEmptied, ContainerDies, vars, db, env, CronStep,
     CronFault, CronFind, CronCheck, CronAllUp, CronUpdate, CronEmit
<1>2. /\ dirs' = dirs
      /\ \A h \in Heads, s \in {"absent", "stop"} : row[h] = s => row'[h] = s
  BY DEF EnvStep, CronRefresh, StoreListing, CacheEmptied, ContainerDies, vars, db, CronStep,
     CronFault, CronFind, CronCheck, CronAllUp, CronUpdate, CronEmit, IInv, TypeOK
<1>3. UNCHANGED ctr \/ \E n \in Nodes : ContainerDies(n)
  BY DEF EnvStep, CronRefresh, StoreListing, CacheEmptied, vars, CronStep,
     CronFault, CronFind, CronCheck, CronAllUp, CronUpdate, CronEmit
<1>4. \A n \in Nodes : (Exists(n)' <=> Exists(n)) /\ (Exists(n) => ctr'[n].by = ctr[n].by)
  BY <1>3 DEF ContainerDies, SetState, Exists, Running, IInv, TypeOK, ContainerType
<1>5. ASSUME NEW q \in Reqs, InFlight(q), q \notin disturbed', NEW n \in NodesOf[HeadOf(q)]
      PROVE  ctr'[n] = ctr[n]
  <2>1. HeadOf(q) \in Heads /\ ctr \in [Nodes -> ContainerType]
    BY <1>5 DEF IInv, LocalsOK, TypeOK
  <2>2. ASSUME NEW m \in Nodes, ContainerDies(m) PROVE m # n
    BY <1>5, <2>1, <2>2 DEF ContainerDies
  <2>3. ASSUME NEW m \in Nodes, ContainerDies(m) PROVE ctr'[n] = ctr[n]
    BY <2>1, <2>2, <2>3, NodesAssumption DEF ContainerDies, SetState
  <2> QED
    BY <1>3, <2>3
<1>6. OwnNodes' /\ PhasesKnown' /\ OverlapsSeen' /\ RowsKept'
  BY <1>1 DEF CommandInv, OwnNodes, Owned, Within, PhasesKnown, PhaseKnown, OverlapsSeen,
     RowsKept, DeletedBy, InFlight, HeadOf
<1>9. ASSUME NEW q \in Reqs, InFlight(q), q \notin disturbed'
      PROVE  /\ RemovalClears(q) => RemovalClears(q)'
             /\ Up(q) => Up(q)'
             /\ Tidy(q) => Tidy(q)'
  <2>1. Owned(q)
    BY <1>9 DEF CommandInv, OwnNodes
  <2>2. \A m \in Nodes : Owns(q, m)' => Owns(q, m)
    BY <1>4 DEF Owns
  <2>3. /\ pc'[q] = pc[q] /\ job'[q] = job[q]
        /\ \A m \in NodesOf[HeadOf(q)] : ctr'[m] = ctr[m]
    BY <1>1, <1>5, <1>9
  <2> QED
    BY <1>9, <2>1, <2>2, <2>3, Unmoved
<1>7. Removals'
  <2> SUFFICES ASSUME NEW q \in Reqs, InFlight(q), job[q].op \in {"deactivate", "delete"},
                      q \notin disturbed', HeadOf(q) \in nodeRows
               PROVE  RemovalClears(q)'
    BY <1>1 DEF Removals, InFlight, HeadOf
  <2>1. RemovalClears(q)
    BY <1>1 DEF CommandInv, Removals
  <2> QED
    BY <1>9, <2>1
<1>8. Deleted'
  <2> SUFFICES ASSUME NEW d \in Reqs, NEW h \in Heads, DeletedBy(d, h), d \notin disturbed
               PROVE  /\ row'[h] = "absent" /\ h \notin nodeRows
                      /\ \A q \in Reqs : InFlight(q) /\ HeadOf(q) = h => pc[q] = "load"
                      /\ OnlyDeleter(d, h) => \A n \in NodesOf[h] : ~Exists(n)'
    BY <1>1 DEF Deleted, DeletedBy, OnlyDeleter, InFlight, HeadOf
  <2> QED
    BY <1>2, <1>4, NodesAssumption DEF CommandInv, Deleted
<1>10. Writings'
  <2> SUFFICES ASSUME NEW q \in Reqs, InFlight(q), q \notin disturbed PROVE Written(q)'
    BY <1>1 DEF Writings, InFlight
  <2>1. Written(q) /\ HeadOf(q) \in Heads
    BY DEF CommandInv, Writings, IInv, LocalsOK
  <2> QED
    BY <1>1, <1>2, <2>1 DEF Written, HeadOf
<1>11. MadeByOwn'
  BY <1>1, <1>4 DEF CommandInv, MadeByOwn, Owns, HeadOf
<1>12. Activations'
  <2> SUFFICES ASSUME NEW q \in Reqs, InFlight(q), job[q].op = "activate"
               PROVE  Whole(q)' /\ Said(q)' /\ (q \notin disturbed' => Up(q)' /\ Tidy(q)')
    BY <1>1 DEF Activations, InFlight
  <2>1. Whole(q) /\ Said(q) /\ (q \notin disturbed' => Up(q) /\ Tidy(q))
    BY <1>1 DEF CommandInv, Activations
  <2>2. Whole(q)' /\ Said(q)'
    BY <1>1, <2>1, SaysTheSame
  <2>3. ASSUME q \notin disturbed' PROVE Up(q)' /\ Tidy(q)'
    BY <1>9, <2>1, <2>3
  <2> QED
    BY <2>2, <2>3
<1> QED
  BY <1>6, <1>7, <1>8, <1>10, <1>11, <1>12 DEF CommandInv

LEMMA NextCommands == IInv /\ CommandInv /\ [Next]_vars => CommandInv'
<1> SUFFICES ASSUME IInv, CommandInv, [Next]_vars PROVE CommandInv'
  OBVIOUS
<1>1. ASSUME NEW r \in Reqs, ReqStep(r) \/ ReqFault(r) PROVE CommandInv'
  BY <1>1, ReqLocals, ReqRows, ReqRemovals, ReqDeleted, ReqWritings, ReqMade, ReqActivations
     DEF CommandInv
<1>2. ASSUME NEW r \in Reqs, Accept(r) PROVE CommandInv'
  BY <1>2, AcceptCommands
<1>3. CASE Crash
  BY <1>3, CrashCommands
<1>4. CASE EnvStep \/ UNCHANGED vars \/ \E p \in Passes : CronStep(p) \/ CronFault(p)
  BY <1>4, OtherCommands
<1> QED
  BY <1>1, <1>2, <1>3, <1>4 DEF Next, EnvStep

\* A head deleted by a request that ran alone stays deleted, whatever ran
\* before it, runs beside it on other heads and comes after it: no row, no nodes
\* and, if that was the first deletion of the head, no container of it.
THEOREM DeletionIsForGood == Spec => []DeletedForGood
<1>1. CommandInv => DeletedForGood
  BY DEF CommandInv, Deleted, OnlyDeleter, DeletedForGood
<1> QED
  BY <1>1, InitCommands, NextCommands, InductiveInvariant, PTL DEF Spec

------------------------------------------------------------------------------
(* How a command ends that nothing disturbed. *)

\* Its last step is its own.
LEMMA LastStep ==
    ASSUME IInv, CommandInv, Next, NEW r \in Reqs, InFlight(r), pc'[r] \in {"done", "failed"},
           r \notin disturbed'
    PROVE  /\ ReqStep(r) /\ PhaseKnown(r) /\ r \notin disturbed /\ HeadOf(r) \in Heads
           /\ Emit(r) \/ Refresh(r) \/ DeleteRows(r)
<1>1. PhaseKnown(r) /\ Owned(r) /\ HeadOf(r) \in Heads /\ pc \in [Reqs -> Phases]
  BY DEF CommandInv, PhasesKnown, OwnNodes, IInv, LocalsOK, TypeOK
<1>2. pc'[r] # pc[r]
  BY DEF InFlight, Ended
<1>3. ReqStep(r) \/ ReqFault(r)
  <2>1. ~Accept(r) /\ ~Crash
    BY <1>1 DEF Accept, Crash, InFlight
  <2> QED
    BY <1>2, <2>1, OnlyOwnSteps
<1>4. ReqStep(r) /\ ~ReqFault(r) /\ r \notin disturbed
  BY <1>1, <1>3, StepFrame DEF ReqFault
<1>5. ~PhaseKnown(r)'
  BY FitsInFlight DEF PhaseKnown, Ended
<1> QED
  BY <1>1, <1>4, <1>5, StepPhases

LEMMA ActivatedStep ==
    ASSUME IInv, CommandInv, Next, NEW r \in Reqs, pc[r] = "emit", pc'[r] = "done",
           r \notin disturbed'
    PROVE  /\ \A n \in NodesOf[HeadOf(r)] : Owns(r, n) /\ Running(n)
           /\ told'[HeadOf(r)] = "running"
<1>1. InFlight(r)
  BY DEF InFlight, Ended
<1>2. /\ PhaseKnown(r) /\ r \notin disturbed /\ HeadOf(r) \in Heads
      /\ Emit(r) \/ Refresh(r) \/ DeleteRows(r)
  BY <1>1, LastStep
<1>3. job[r].op = "activate"
  BY <1>2, FitsTable DEF PhaseKnown
<1>4. Up(r) /\ Said(r)
  BY <1>1, <1>2, <1>3 DEF CommandInv, Activations
<1>5. told' = [told EXCEPT ![HeadOf(r)] = job[r].status]
  BY <1>2 DEF Emit, Refresh, DeleteRows
<1> QED
  BY <1>2, <1>4, <1>5 DEF Up, Said, IInv, TypeOK

LEMMA StoppedStep ==
    ASSUME IInv, CommandInv, Next, NEW r \in Reqs, InFlight(r), pc'[r] \in {"done", "failed"},
           r \notin disturbed'
    PROVE  /\ job[r].op = "activate" /\ pc'[r] = "failed" =>
                row'[HeadOf(r)] = "stop" /\ \A n \in Nodes : ~Owns(r, n)
           /\ job[r].op = "deactivate" => row'[HeadOf(r)] = "stop" /\ NodesDown(HeadOf(r))
           /\ job[r].op = "delete" =>
                row'[HeadOf(r)] = "absent" /\ HeadOf(r) \notin dirs' /\ NodesGone(HeadOf(r))
<1> DEFINE h == HeadOf(r)
<1>1. /\ PhaseKnown(r) /\ r \notin disturbed /\ h \in Heads /\ Written(r)
      /\ Emit(r) \/ Refresh(r) \/ DeleteRows(r)
  BY LastStep DEF CommandInv, Writings
<1>2. \A o \in {"deactivate", "delete"} : job[r].op = o /\ h \in nodeRows => RemovalClears(r)
  BY <1>1 DEF CommandInv, Removals
<1>3. /\ Emit(r) => job[r].op \in {"activate", "restart"}
      /\ Refresh(r) => job[r].op = "deactivate"
      /\ DeleteRows(r) => job[r].op = "delete"
  BY <1>1, FitsTable DEF PhaseKnown, Emit, Refresh, DeleteRows
<1>4. ASSUME job[r].op = "activate", pc'[r] = "failed"
      PROVE  row'[h] = "stop" /\ \A n \in Nodes : ~Owns(r, n)
  <2>1. Emit(r) /\ UNCHANGED row
    BY <1>1, <1>3, <1>4 DEF Emit, db
  <2>2. pc[r] = "emitFailed"
    BY <1>4, <2>1 DEF Emit, Finish, Goto, IInv, TypeOK
  <2>3. Tidy(r)
    BY <1>1, <1>4 DEF CommandInv, Activations
  <2> QED
    BY <1>1, <1>4, <2>1, <2>2, <2>3 DEF Written, Tidy
<1>5. ASSUME job[r].op = "deactivate" PROVE row'[h] = "stop" /\ NodesDown(h)
  <2>1. pc[r] = "refresh" /\ UNCHANGED row
    BY <1>1, <1>3, <1>5 DEF Refresh, db
  <2> QED
    BY <1>1, <1>2, <1>5, <2>1 DEF Written, NodesDown, RemovalClears, Exists
<1>6. ASSUME job[r].op = "delete" PROVE row'[h] = "absent" /\ h \notin dirs' /\ NodesGone(h)
  <2>1. pc[r] = "deleteRows" /\ row' = [row EXCEPT ![h] = "absent"] /\ UNCHANGED dirs
    BY <1>1, <1>3, <1>6 DEF DeleteRows
  <2> QED
    BY <1>1, <1>2, <1>6, <2>1 DEF Written, NodesGone, RemovalClears, IInv, TypeOK
<1> QED
  BY <1>4, <1>5, <1>6

\* An activation that nothing disturbed and that reports success has every node
\* of its head running in a container of its own when it does so, and tells the
\* hub so: the cleanups of createContainer and the checks of activeHydraHead
\* leave no other way to the event.
THEOREM ActivatedIsUp == Spec => ActivatedAlone
<1>1. IInv /\ CommandInv /\ [Next]_vars =>
        [\A r \in Reqs : (pc[r] = "emit" /\ pc'[r] = "done" /\ r \notin disturbed') =>
           /\ \A n \in NodesOf[HeadOf(r)] : Owns(r, n) /\ Running(n)
           /\ told'[HeadOf(r)] = "running"]_vars
  BY ActivatedStep
<1> QED
  BY <1>1, InitCommands, NextCommands, InductiveInvariant, PTL DEF Spec, ActivatedAlone

\* A deactivation that nothing disturbed leaves no container of its head running, a deletion
\* none at all, a failed activation none that it made, and the row says so, in whatever
\* state the commands before it left the head.
THEOREM StoppedIsStopped == Spec => StoppedAlone
<1>1. IInv /\ CommandInv /\ [Next]_vars =>
        [\A r \in Reqs : (InFlight(r) /\ pc'[r] \in {"done", "failed"} /\ r \notin disturbed') =>
           LET h == HeadOf(r) IN
           CASE job[r].op = "activate" /\ pc'[r] = "failed" ->
                  row'[h] = "stop" /\ \A n \in Nodes : ~(Exists(n) /\ ctr[n].by = r)
             [] job[r].op = "deactivate" -> row'[h] = "stop" /\ NodesDown(h)
             [] job[r].op = "delete" -> row'[h] = "absent" /\ h \notin dirs' /\ NodesGone(h)
             [] OTHER -> TRUE]_vars
  BY StoppedStep DEF Owns
<1> QED
  BY <1>1, InitCommands, NextCommands, InductiveInvariant, PTL DEF Spec, StoppedAlone
------------------------------------------------------------------------------
(* A restart. *)

\* It has loaded every node of its head, unless those were deleted before it or since.
Loaded(r) ==
    pc[r] # "load" /\ HeadOf(r) \in nodeRows => job[r].nodes = NodesOf[HeadOf(r)]

\* Undisturbed, it has seen its containers run when it waits for the nodes, and those it
\* has verified after a failure; before the last step, the row is changed or all run.
Back(r) ==
    LET S == job[r].nodes
    IN  /\ pc[r] = "wait" => \A n \in S : Running(n)
        /\ pc[r] = "verify" => \A n \in S \ job[r].todo : Running(n)
        /\ pc[r] = "emitFailed" => row[HeadOf(r)] = "stop" \/ \A n \in S : Running(n)

Restarts ==
    \A r \in Reqs : InFlight(r) /\ job[r].op = "restart" =>
        Loaded(r) /\ (r \notin disturbed => Back(r))

\* Where its steps lead, once it has loaded its head.
LEMMA RestartSteps ==
    ASSUME IInv, NEW r \in Reqs, PhaseKnown(r), job[r].op = "restart", ReqStep(r)
    PROVE  \/ Load(r) \/ RestartCheck(r) \/ RestartStop(r) \/ RestartStart(r) \/ CacheRead(r)
           \/ CacheWrite(r) \/ NodeAnswers(r) \/ WaitTimeout(r) \/ RestartVerify(r)
           \/ SaveStop(r) \/ Emit(r)
BY FitsTable DEF PhaseKnown, ReqStep, CheckLimit, Prepare, RemovalInspect, RemovalStop,
   RemovalRemove, Removing, Create, Start, InspectNew, SaveRunning, Refresh, RemoveDir,
   DeleteRows, Fits, RestartPcs

LEMMA LoadedStep ==
    ASSUME IInv, NEW r \in Reqs, Owned(r), job[r].op = "restart", Loaded(r),
           ReqStep(r) \/ ReqFault(r), InFlight(r)'
    PROVE  Loaded(r)'
<1>1. /\ pc \in [Reqs -> Phases] /\ job[r] \in JobType /\ job \in [Reqs -> JobType]
      /\ HeadOf(r)' = HeadOf(r) /\ InFlight(r)
  BY ReqInFlight, ReqStepLocal, ReqFaultLocal DEF IInv, TypeOK, Local, HeadOf
<1>2. nodeRows' \subseteq nodeRows
  BY StepFrame
<1>3. CASE Load(r)
  <2> DEFINE S == IF HeadOf(r) \in nodeRows THEN NodesOf[HeadOf(r)] ELSE {}
             k == [job[r] EXCEPT !.nodes = S, !.status = row[HeadOf(r)]]
  <2>1. k.nodes = S /\ k.op = "restart"
    BY <1>1 DEF JobType
  <2>2. ~Finish(r, "rejected")
    BY <1>1 DEF Finish, Goto, InFlight, Ended
  <2>3. job' = [job EXCEPT ![r] = k]
    BY <1>3, <2>1, <2>2 DEF Load
  <2>4. job'[r].nodes = S
    BY <1>1, <2>1, <2>3
  <2> QED
    BY <1>1, <1>2, <2>4 DEF Loaded
<1>4. CASE ~Load(r)
  <2>1. pc[r] # "load"
    <3>1. ASSUME pc[r] = "load", ReqFault(r) PROVE FALSE
      BY <1>1, <3>1 DEF ReqFault, Removing, Finish, Goto, InFlight, Ended
    <3>2. ASSUME pc[r] = "load", ReqStep(r) PROVE FALSE
      BY <1>4, <3>2 DEF ReqStep, CheckLimit, Prepare, RemovalInspect, RemovalStop, RemovalRemove,
         Create, Start, InspectNew, CacheRead, CacheWrite, NodeAnswers, WaitTimeout, SaveRunning,
         SaveStop, Emit, RestartCheck, RestartStop, RestartStart, RestartVerify, Refresh,
         RemoveDir, DeleteRows, Removing
    <3> QED
      BY <3>1, <3>2
  <2> QED
    BY <1>1, <1>2, <1>4, <2>1, NodesKept DEF Loaded
<1> QED
  BY <1>3, <1>4

LEMMA BackStep ==
    ASSUME IInv, NEW r \in Reqs, PhaseKnown(r), job[r].op = "restart", Back(r), ReqStep(r),
           InFlight(r)'
    PROVE  Back(r)'
<1>1. /\ pc \in [Reqs -> Phases] /\ job \in [Reqs -> JobType] /\ job[r] \in JobType
      /\ HeadOf(r)' = HeadOf(r) /\ HeadOf(r) \in Heads /\ row \in [Heads -> Statuses]
  BY ReqStepLocal, ReqInFlight DEF IInv, TypeOK, LocalsOK, Local, HeadOf, Statuses
<1>2. ASSUME NEW o, Finish(r, o), o \in Ended PROVE FALSE
  BY <1>1, <1>2 DEF Finish, Goto, InFlight
<1>3. ASSUME NEW p \in {"listed", "restart", "cacheWrite", "saveStop"}, pc'[r] = p
      PROVE  Back(r)'
  BY <1>3 DEF Back
<1>4. ASSUME Fail(r) PROVE Back(r)'
  <2>1. pc' = [pc EXCEPT ![r] = "verify"] /\ job' = [job EXCEPT ![r].todo = job[r].nodes]
    BY <1>4 DEF Fail, Goto
  <2>2. pc'[r] = "verify" /\ job'[r].todo = job[r].nodes /\ job'[r].nodes = job[r].nodes
    BY <1>1, <2>1 DEF JobType
  <2> QED
    BY <2>2 DEF Back
<1>5. CASE Load(r)
  <2>1. \A S, s : [job[r] EXCEPT !.nodes = S, !.status = s].op = "restart"
    BY <1>1 DEF JobType
  <2>2. Goto(r, "listed")
    BY <1>2, <1>5, <2>1 DEF Load, Ended
  <2> QED
    BY <1>1, <1>3, <2>2 DEF Goto
<1>6. CASE RestartCheck(r)
  BY <1>1, <1>2, <1>3, <1>6 DEF RestartCheck, Goto, Ended
<1>7. CASE RestartStop(r) \/ RestartStart(r)
  BY <1>3, <1>7 DEF RestartStop, RestartStart
<1>8. CASE CacheRead(r)
  BY <1>1, <1>3, <1>8 DEF CacheRead, Goto
<1>9. CASE CacheWrite(r)
  <2>1. CASE /\ \A n \in job[r].nodes : SeenRunning(r, n)
             /\ Goto(r, "wait")
             /\ job' = [job EXCEPT ![r].todo = job[r].nodes, ![r].read = {}]
    <3>1. pc'[r] = "wait" /\ job'[r].nodes = job[r].nodes /\ UNCHANGED ctr
      BY <1>1, <1>9, <2>1 DEF CacheWrite, Goto, JobType
    <3> QED
      BY <2>1, <3>1 DEF Back, SeenRunning, Running
  <2> QED
    BY <1>4, <1>9, <2>1 DEF CacheWrite
<1>10. CASE NodeAnswers(r)
  <2>1. PICK n \in job[r].todo : job' = [job EXCEPT ![r].todo = @ \ {n}]
    BY <1>10 DEF NodeAnswers
  <2>2. job'[r].nodes = job[r].nodes /\ pc'[r] = "wait" /\ pc[r] = "wait" /\ UNCHANGED ctr
    BY <1>1, <1>10, <2>1 DEF NodeAnswers, JobType
  <2> QED
    BY <2>2 DEF Back, Running
<1>11. CASE WaitTimeout(r)
  BY <1>4, <1>11 DEF WaitTimeout
<1>12. CASE RestartVerify(r)
  <2>1. UNCHANGED ctr /\ pc[r] = "verify"
    BY <1>12 DEF RestartVerify
  <2>2. CASE job[r].todo = {} /\ Goto(r, "emitFailed") /\ UNCHANGED job
    BY <1>1, <2>1, <2>2 DEF Back, Running, Goto
  <2>3. ASSUME NEW n \in job[r].todo, Running(n), UNCHANGED pc,
               job' = [job EXCEPT ![r].todo = @ \ {n}]
        PROVE  Back(r)'
    <3>1. job'[r].nodes = job[r].nodes /\ job'[r].todo = job[r].todo \ {n} /\ pc'[r] = "verify"
      BY <1>1, <2>1, <2>3 DEF JobType
    <3> QED
      BY <2>1, <2>3, <3>1 DEF Back, Running
  <2>4. CASE Goto(r, "saveStop")
    BY <1>1, <1>3, <2>4 DEF Goto
  <2> QED
    BY <1>12, <2>2, <2>3, <2>4 DEF RestartVerify
<1>13. CASE SaveStop(r)
  <2>1. pc'[r] = "emitFailed" /\ row'[HeadOf(r)] = "stop"
    BY <1>1, <1>13 DEF SaveStop, Goto
  <2> QED
    BY <1>1, <2>1 DEF Back
<1>14. ~Emit(r)
  BY <1>2 DEF Emit, Ended
<1> QED
  BY <1>5, <1>6, <1>7, <1>8, <1>9, <1>10, <1>11, <1>12, <1>13, <1>14, RestartSteps

\* Whose locals, containers and row stay as they are.
LEMMA BackStays ==
    ASSUME NEW q \in Reqs, Owned(q), pc'[q] = pc[q], job'[q] = job[q],
           \A m \in NodesOf[HeadOf(q)] : ctr'[m] = ctr[m],
           row[HeadOf(q)] = "stop" => row'[HeadOf(q)] = "stop", Back(q)
    PROVE  Back(q)'
BY DEF Back, Owned, Within, Running, HeadOf

LEMMA RestartsNext == IInv /\ CommandInv /\ Restarts /\ [Next]_vars => Restarts'
<1> SUFFICES ASSUME IInv, CommandInv, Restarts, [Next]_vars,
                    NEW q \in Reqs, InFlight(q)', job'[q].op = "restart"
             PROVE  Loaded(q)' /\ (q \notin disturbed' => Back(q)')
  BY DEF Restarts
<1> DEFINE G == Loaded(q)' /\ (q \notin disturbed' => Back(q)')
<1>1. ASSUME InFlight(q), pc'[q] = pc[q], job'[q] = job[q], nodeRows' \subseteq nodeRows,
             disturbed \subseteq disturbed',
             q \notin disturbed' =>
               /\ \A m \in NodesOf[HeadOf(q)] : ctr'[m] = ctr[m]
               /\ row[HeadOf(q)] = "stop" => row'[HeadOf(q)] = "stop"
      PROVE  G
  <2>1. Loaded(q) /\ (q \notin disturbed => Back(q)) /\ Owned(q)
    BY <1>1 DEF Restarts, CommandInv, OwnNodes
  <2>2. Loaded(q)'
    BY <1>1, <2>1 DEF Loaded, HeadOf
  <2> QED
    BY <1>1, <2>1, <2>2, BackStays
<1>2. ASSUME NEW r \in Reqs, ReqStep(r) \/ ReqFault(r) PROVE G
  <2>1. Owned(r) /\ PhaseKnown(r)
    BY <1>2, OthersStay DEF CommandInv, OwnNodes, PhasesKnown
  <2>2. nodeRows' \subseteq nodeRows /\ disturbed \subseteq disturbed'
    BY <1>2, <2>1, StepFrame
  <2>3. CASE q = r
    <3>1. job[r].op = "restart" /\ Loaded(r) /\ (r \notin disturbed => Back(r))
      BY <1>2, <2>3, OthersStay DEF Restarts
    <3>2. Loaded(r)'
      BY <1>2, <2>1, <2>3, <3>1, LoadedStep
    <3>3. r \notin disturbed' => ReqStep(r)
      BY <1>2 DEF ReqFault
    <3> QED
      BY <2>1, <2>2, <2>3, <3>1, <3>2, <3>3, BackStep
  <2>4. CASE q # r
    <3>1. InFlight(q) /\ pc'[q] = pc[q] /\ job'[q] = job[q]
      BY <1>2, <2>4, OthersStay
    <3>2. ASSUME q \notin disturbed'
          PROVE  /\ \A m \in NodesOf[HeadOf(q)] : ctr'[m] = ctr[m]
                 /\ row'[HeadOf(q)] = row[HeadOf(q)]
      <4>1. HeadOf(q) # HeadOf(r) /\ HeadOf(q) \in Heads /\ HeadOf(r) \in Heads
        BY <1>2, <2>4, <3>1, <3>2, OtherHead, OthersStay
      <4> QED
        BY <1>2, <2>1, <4>1, StepFrame, NodesAssumption
    <3> QED
      BY <1>1, <2>2, <3>1, <3>2
  <2> QED
    BY <2>3, <2>4
<1>3. ASSUME NEW r \in Reqs, Accept(r) PROVE G
  <2>1. PICK o \in Ops, h \in Heads :
          LET others == {p \in Reqs : InFlight(p) /\ HeadOf(p) = h}
          IN  /\ job' = [job EXCEPT ![r] = [NoJob EXCEPT !.op = o, !.head = h]]
              /\ disturbed' = IF others = {} THEN disturbed ELSE disturbed \cup others \cup {r}
    BY <1>3 DEF Accept
  <2>2. /\ pc' = [pc EXCEPT ![r] = "load"] /\ UNCHANGED <<row, nodeRows, ctr>>
        /\ disturbed \subseteq disturbed' /\ pc \in [Reqs -> Phases] /\ job \in [Reqs -> JobType]
    BY <1>3, <2>1 DEF Accept, Goto, db, IInv, TypeOK
  <2>3. CASE q = r
    BY <2>2, <2>3 DEF Loaded, Back
  <2>4. CASE q # r
    <3>1. pc'[q] = pc[q] /\ job'[q] = job[q]
      BY <2>1, <2>2, <2>4
    <3> QED
      BY <1>1, <2>2, <3>1 DEF InFlight
  <2> QED
    BY <2>3, <2>4
<1>4. CASE Crash
  <2>1. pc'[q] = IF InFlight(q) THEN "lost" ELSE pc[q]
    BY <1>4 DEF Crash
  <2> QED
    BY <2>1 DEF InFlight, Ended
<1>5. CASE EnvStep \/ UNCHANGED vars \/ \E p \in Passes : CronStep(p) \/ CronFault(p)
  <2>1. /\ UNCHANGED <<pc, job, nodeRows>> /\ disturbed \subseteq disturbed'
    BY <1>5 DEF EnvStep, CronRefresh, StoreListing, CacheEmptied, ContainerDies, vars, db, env,
       CronStep, CronFault, CronFind, CronCheck, CronAllUp, CronUpdate, CronEmit
  <2>2. \A h \in Heads : row[h] = "stop" => row'[h] = "stop"
    BY <1>5 DEF EnvStep, CronRefresh, StoreListing, CacheEmptied, ContainerDies, vars, db,
       CronStep, CronFault, CronFind, CronCheck, CronAllUp, CronUpdate, CronEmit, IInv, TypeOK
  <2>3. UNCHANGED ctr \/ \E n \in Nodes : ContainerDies(n)
    BY <1>5 DEF EnvStep, CronRefresh, StoreListing, CacheEmptied, vars, CronStep,
       CronFault, CronFind, CronCheck, CronAllUp, CronUpdate, CronEmit
  <2>4. InFlight(q) /\ HeadOf(q) \in Heads /\ ctr \in [Nodes -> ContainerType]
    BY <2>1 DEF InFlight, IInv, LocalsOK, TypeOK
  <2>5. ASSUME q \notin disturbed', NEW m \in NodesOf[HeadOf(q)] PROVE ctr'[m] = ctr[m]
    <3>1. ASSUME NEW n \in Nodes, ContainerDies(n) PROVE n # m
      BY <2>4, <2>5, <3>1 DEF ContainerDies
    <3>2. ASSUME NEW n \in Nodes, ContainerDies(n) PROVE ctr'[m] = ctr[m]
      BY <2>4, <3>1, <3>2, NodesAssumption DEF ContainerDies, SetState
    <3> QED
      BY <2>3, <3>2
  <2> QED
    BY <1>1, <2>1, <2>2, <2>4, <2>5
<1> QED
  BY <1>2, <1>3, <1>4, <1>5 DEF Next, EnvStep

\* A restart that nothing disturbed ends with every node of its head running, or, if it
\* reports a failure, with the head stored as stopped.
RestartedAlone ==
    [][\A r \in Reqs : InFlight(r) /\ job[r].op = "restart" /\ pc'[r] \in {"done", "failed"}
                       /\ r \notin disturbed' =>
         LET h == HeadOf(r)
         IN  \/ h \in nodeRows => \A n \in NodesOf[h] : Running(n)
             \/ pc'[r] = "failed" /\ row'[h] = "stop"]_vars

LEMMA RestartedStep ==
    ASSUME IInv, CommandInv, Restarts, Next, NEW r \in Reqs, InFlight(r),
           job[r].op = "restart", pc'[r] \in {"done", "failed"}, r \notin disturbed'
    PROVE  \/ HeadOf(r) \in nodeRows => \A n \in NodesOf[HeadOf(r)] : Running(n)
           \/ pc'[r] = "failed" /\ row'[HeadOf(r)] = "stop"
<1>1. /\ PhaseKnown(r) /\ r \notin disturbed
      /\ Emit(r) \/ Refresh(r) \/ DeleteRows(r)
  BY LastStep
<1>2. Emit(r) /\ pc[r] # "emit"
  BY <1>1, FitsTable DEF PhaseKnown, Refresh, DeleteRows
<1>3. Loaded(r) /\ Back(r)
  BY <1>1 DEF Restarts
<1>4. UNCHANGED row /\ pc \in [Reqs -> Phases]
  BY <1>2 DEF Emit, db, IInv, TypeOK
<1>5. \/ pc[r] = "wait"
      \/ pc[r] = "emitFailed" /\ pc'[r] = "failed"
  BY <1>2, <1>4 DEF Emit, Finish, Goto
<1>6. HeadOf(r) \in nodeRows => job[r].nodes = NodesOf[HeadOf(r)]
  BY <1>3, <1>5 DEF Loaded
<1>7. CASE pc[r] = "wait"
  BY <1>3, <1>6, <1>7 DEF Back
<1>8. CASE pc[r] = "emitFailed" /\ pc'[r] = "failed"
  <2>1. row[HeadOf(r)] = "stop" \/ \A n \in job[r].nodes : Running(n)
    BY <1>3, <1>8 DEF Back
  <2>2. row' = row
    BY <1>4
  <2> QED
    BY <1>6, <1>8, <2>1, <2>2
<1> QED
  BY <1>5, <1>7, <1>8

\* A restart that ran alone never reports success over a node that is down: every node of
\* the head, if it still has any, runs then; when it fails, the head is stored as stopped
\* unless all of them run, whatever ran before it and beside it on other heads.
THEOREM RestartedIsUp == Spec => RestartedAlone
<1>1. Init => Restarts
  BY DEF Init, Restarts, InFlight
<1>2. IInv /\ CommandInv /\ Restarts /\ [Next]_vars =>
        [\A r \in Reqs : InFlight(r) /\ job[r].op = "restart" /\ pc'[r] \in {"done", "failed"}
                         /\ r \notin disturbed' =>
           LET h == HeadOf(r)
           IN  \/ h \in nodeRows => \A n \in NodesOf[h] : Running(n)
               \/ pc'[r] = "failed" /\ row'[h] = "stop"]_vars
  BY RestartedStep
<1> QED
  BY <1>1, <1>2, RestartsNext, InitCommands, NextCommands, InductiveInvariant, PTL
     DEF Spec, RestartedAlone
=============================================================================
