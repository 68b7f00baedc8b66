------------------------- MODULE HeadLifecycleProofs -------------------------
(***************************************************************************)
(* Proofs about HeadLifecycle for every set of heads, nodes, requests and  *)
(* passes, every limit and every number of misfortunes.                    *)
(***************************************************************************)
EXTENDS HeadLifecycle, FiniteSetTheorems, WellFoundedInduction, TLAPS

------------------------------------------------------------------------------
(* Local facts every step of a request keeps. *)

\* Phases in which the handler works on one node.
NodePhases == Removing \cup {"create", "start", "inspect"}

\* What TypeOK needs to be inductive: a request in flight knows its head, one
\* at work on a node knows the node, and createContainer goes into its cleanup
\* only if an attempt is left.
LocalsOK ==
    \A r \in Reqs :
        /\ InFlight(r) => HeadOf(r) \in Heads
        /\ pc[r] \in NodePhases => job[r].cur \in Nodes
        /\ pc[r] = "retry" => job[r].tries < RetryCount

\* Request r moves its own program counter and locals, keeps its command and
\* its head and the facts above.
Local(r) ==
    /\ pc' \in [Reqs -> Phases] /\ job' \in [Reqs -> JobType]
    /\ \A q \in Reqs \ {r} : pc'[q] = pc[q] /\ job'[q] = job[q]
    /\ job'[r].op = job[r].op /\ job'[r].head = job[r].head
    /\ pc'[r] \in NodePhases => job'[r].cur \in Nodes
    /\ pc'[r] = "retry" => job'[r].tries < RetryCount

\* e is an edit of j that keeps the command, the head and the node.
Edit(e, j) == e \in JobType /\ e.op = j.op /\ e.head = j.head /\ e.cur = j.cur

LEMMA EditNone == \A j \in JobType : Edit(j, j)
BY DEF Edit

LEMMA EditSets ==
    ASSUME NEW j \in JobType, NEW S \in SUBSET Nodes, NEW T \in SUBSET Nodes
    PROVE  /\ Edit([j EXCEPT !.todo = S], j)
           /\ Edit([j EXCEPT !.todo = S, !.made = T], j)
           /\ Edit([j EXCEPT !.todo = S, !.read = {}], j)
           /\ Edit([j EXCEPT !.made = S], j)
           /\ Edit([j EXCEPT !.read = S], j)
<1>1. Edit([j EXCEPT !.todo = S], j)
  BY DEF Edit, JobType
<1>2. Edit([j EXCEPT !.todo = S, !.made = T], j)
  BY DEF Edit, JobType
<1>3. Edit([j EXCEPT !.todo = S, !.read = {}], j)
  BY DEF Edit, JobType
<1>4. Edit([j EXCEPT !.made = S], j)
  BY DEF Edit, JobType
<1>5. Edit([j EXCEPT !.read = S], j)
  BY DEF Edit, JobType
<1> QED
  BY <1>1, <1>2, <1>3, <1>4, <1>5

LEMMA EditStatus ==
    ASSUME NEW j \in JobType, NEW S \in SUBSET Nodes, NEW st \in Statuses
    PROVE  /\ Edit([j EXCEPT !.status = st], j)
           /\ Edit([j EXCEPT !.nodes = S, !.status = st], j)
BY DEF Edit, JobType

LEMMA EditTries ==
    ASSUME NEW j \in JobType, NEW k \in 0 .. RetryCount
    PROVE  Edit([j EXCEPT !.tries = k], j)
BY DEF Edit, JobType

LEMMA EditCall ==
    ASSUME NEW j \in JobType, NEW c \in {"inspect", "stop", "remove"}
    PROVE  Edit([j EXCEPT !.call = c], j) /\ [j EXCEPT !.call = c].tries = j.tries
BY DEF Edit, JobType

\* A step that sets the program counter to p and edits the locals.
LEMMA MoveLocal ==
    ASSUME TypeOK, NEW r \in Reqs, NEW p \in Phases, NEW e, Edit(e, job[r]),
           p = "retry" => e.tries < RetryCount,
           p \in NodePhases => job[r].cur \in Nodes,
           pc' = [pc EXCEPT ![r] = p], job' = [job EXCEPT ![r] = e]
    PROVE  Local(r)
BY DEF TypeOK, Local, Edit

\* UNCHANGED is a step to where one is.
LEMMA Stay ==
    ASSUME TypeOK, NEW r \in Reqs
    PROVE  /\ pc = [pc EXCEPT ![r] = pc[r]] /\ job = [job EXCEPT ![r] = job[r]]
           /\ pc[r] \in Phases /\ job[r] \in JobType
           /\ job[r].todo \in SUBSET Nodes /\ job[r].made \in SUBSET Nodes
           /\ job[r].nodes \in SUBSET Nodes
BY DEF TypeOK, JobType

LEMMA PhaseFacts ==
    /\ Ended \subseteq Phases /\ NodePhases \subseteq Phases
    /\ \A p \in {"done", "failed", "rejected"} : p \in Ended
    /\ \A p \in {"clear", "remove", "cleanup"} : p \in NodePhases \ {"retry"}
    /\ \A p \in {"load", "limit", "prepare", "cacheRead", "cacheWrite", "wait", "emit",
                  "saveStop", "emitFailed", "listed", "restart", "verify", "refresh",
                  "removeDir", "deleteRows"} : p \in Phases \ NodePhases /\ p # "retry"
    /\ \A p \in {"create", "start", "inspect", "retry"} : p \in NodePhases
    /\ \A p \in Ended : p \notin NodePhases
BY DEF Phases, Ended, NodePhases, Removing

LEMMA NoJobType == NoJob \in JobType
BY ConstantsAssumption DEF NoJob, JobType, Commanded, Statuses

LEMMA FinishLocal ==
    ASSUME TypeOK, NEW r \in Reqs, NEW o \in Ended, Finish(r, o)
    PROVE  Local(r)
<1>1. job[r] \in JobType
  BY DEF TypeOK
<1>2. [NoJob EXCEPT !.op = job[r].op, !.head = job[r].head] \in JobType
  BY <1>1, NoJobType DEF JobType
<1> QED
  BY <1>1, <1>2, PhaseFacts DEF TypeOK, Finish, Goto, Local, NoJob, NodePhases, Removing, Ended

LEMMA VisitLocal ==
    ASSUME TypeOK, NEW r \in Reqs, NEW j, Edit(j, job[r]), NEW S \in SUBSET Nodes,
           NEW phase \in NodePhases \ {"retry"}, NEW after \in Phases \ NodePhases,
           Visit(r, j, S, phase, after)
    PROVE  Local(r)
<1>1. CASE S = {} /\ Goto(r, after) /\ job' = [job EXCEPT ![r] = j]
  BY <1>1, MoveLocal, PhaseFacts DEF Goto
<1>2. CASE \E n \in S :
            /\ Goto(r, phase)
            /\ job' = [job EXCEPT ![r] = [j EXCEPT !.cur = n, !.todo = S \ {n},
                                                  !.call = "inspect"]]
  <2>1. PICK n \in S :
            /\ Goto(r, phase)
            /\ job' = [job EXCEPT ![r] = [j EXCEPT !.cur = n, !.todo = S \ {n},
                                                  !.call = "inspect"]]
    BY <1>2
  <2> DEFINE e == [j EXCEPT !.cur = n, !.todo = S \ {n}, !.call = "inspect"]
  <2>2. e \in JobType /\ e.op = job[r].op /\ e.head = job[r].head /\ e.cur = n
    BY DEF JobType, Edit
  <2> HIDE DEF e
  <2>3. job' = [job EXCEPT ![r] = e]
    BY <2>1 DEF e
  <2> QED
    BY <2>1, <2>2, <2>3, PhaseFacts DEF TypeOK, Goto, Local
<1> QED
  BY <1>1, <1>2 DEF Visit

LEMMA FailLocal ==
    ASSUME TypeOK, NEW r \in Reqs, Fail(r)
    PROVE  Local(r)
<1>1. CASE Visit(r, job[r], job[r].made, "cleanup", "saveStop")
  BY <1>1, VisitLocal, Stay, EditNone, PhaseFacts
<1>2. CASE Goto(r, "verify") /\ job' = [job EXCEPT ![r].todo = job[r].nodes]
  BY <1>2, MoveLocal, Stay, EditSets, PhaseFacts DEF Goto
<1> QED
  BY <1>1, <1>2 DEF Fail

LEMMA EndRemovalLocal ==
    ASSUME TypeOK, LocalsOK, NEW r \in Reqs, EndRemoval(r)
    PROVE  Local(r)
<1>1. CASE pc[r] = "clear" /\ Goto(r, "create") /\ job' = [job EXCEPT ![r].tries = 0]
  <2>1. Edit([job[r] EXCEPT !.tries = 0], job[r])
    BY Stay, EditTries, ConstantsAssumption
  <2> QED
    BY <1>1, <2>1, MoveLocal, PhaseFacts DEF Goto, LocalsOK
<1>2. CASE pc[r] = "retry" /\ Goto(r, "create") /\ job' = [job EXCEPT ![r].tries = @ + 1]
  <2>1. job[r].tries + 1 \in 0 .. RetryCount
    BY <1>2, Stay, ConstantsAssumption DEF LocalsOK, JobType
  <2>2. Edit([job[r] EXCEPT !.tries = job[r].tries + 1], job[r])
    BY <2>1, Stay, EditTries
  <2> QED
    BY <1>2, <2>2, MoveLocal, PhaseFacts DEF Goto, LocalsOK
<1>3. CASE Visit(r, job[r], job[r].todo, "cleanup", "saveStop")
  BY <1>3, VisitLocal, Stay, EditNone, PhaseFacts
<1>4. CASE Visit(r, job[r], job[r].todo, "remove",
                 IF job[r].op = "delete" THEN "removeDir" ELSE "saveStop")
  BY <1>4, VisitLocal, Stay, EditNone, PhaseFacts
<1> QED
  BY <1>1, <1>2, <1>3, <1>4 DEF EndRemoval

LEMMA AttemptFailsLocal ==
    ASSUME TypeOK, LocalsOK, NEW r \in Reqs, pc[r] \in {"create", "start"}, AttemptFails(r)
    PROVE  Local(r)
<1>1. CASE job[r].tries < RetryCount /\ Goto(r, "retry")
           /\ job' = [job EXCEPT ![r].call = "inspect"]
  <2>1. Edit([job[r] EXCEPT !.call = "inspect"], job[r])
        /\ [job[r] EXCEPT !.call = "inspect"].tries = job[r].tries
    BY Stay, EditCall
  <2> QED
    BY <1>1, <2>1, MoveLocal, PhaseFacts DEF Goto, LocalsOK
<1>2. CASE Fail(r)
  BY <1>2, FailLocal
<1> QED
  BY <1>1, <1>2 DEF AttemptFails

LEMMA LoadLocal ==
    ASSUME TypeOK, LocalsOK, NEW r \in Reqs, Load(r)
    PROVE  Local(r)
<1> DEFINE h == HeadOf(r)
           S == IF h \in nodeRows THEN NodesOf[h] ELSE {}
           j == [job[r] EXCEPT !.nodes = S, !.status = row[h]]
<1>1. h \in Heads
  BY DEF Load, LocalsOK, InFlight, Ended
<1>2. S \in SUBSET Nodes /\ row[h] \in Statuses
  BY <1>1, NodesAssumption DEF TypeOK, Statuses
<1> HIDE DEF S, h
<1>3. Edit(j, job[r]) /\ j.nodes \in SUBSET Nodes
  <2>1. Edit(j, job[r])
    BY <1>2, Stay, EditStatus
  <2> QED
    BY <2>1 DEF Edit, JobType
<1> HIDE DEF j
<1>4. CASE Finish(r, "rejected")
  BY <1>4, FinishLocal, PhaseFacts
<1>5. CASE Goto(r, "limit") /\ job' = [job EXCEPT ![r] = j]
  BY <1>3, <1>5, MoveLocal, PhaseFacts DEF Goto
<1>6. CASE Goto(r, "listed") /\ job' = [job EXCEPT ![r] = j]
  BY <1>3, <1>6, MoveLocal, PhaseFacts DEF Goto
<1>7. CASE Visit(r, j, j.nodes, "remove", "saveStop")
  BY <1>3, <1>7, VisitLocal, PhaseFacts
<1>8. CASE Visit(r, j, j.nodes, "remove", "removeDir")
  BY <1>3, <1>8, VisitLocal, PhaseFacts
<1> QED
  BY <1>4, <1>5, <1>6, <1>7, <1>8 DEF Load, j, h, S

LEMMA NextCallLocal ==
    ASSUME TypeOK, LocalsOK, NEW r \in Reqs, pc[r] \in Removing,
           NEW c \in {"stop", "remove"}, NextCall(r, c)
    PROVE  Local(r)
<1>1. /\ Edit([job[r] EXCEPT !.call = c], job[r])
      /\ [job[r] EXCEPT !.call = c].tries = job[r].tries
  BY Stay, EditCall
<1>2. job[r].cur \in Nodes /\ (pc[r] = "retry" => job[r].tries < RetryCount)
  BY DEF LocalsOK, NodePhases
<1>3. pc' = [pc EXCEPT ![r] = pc[r]] /\ job' = [job EXCEPT ![r] = [job[r] EXCEPT !.call = c]]
  BY Stay DEF NextCall
<1> QED
  BY <1>1, <1>2, <1>3, MoveLocal, Stay

LEMMA ReqStepLocal ==
    ASSUME TypeOK, LocalsOK, NEW r \in Reqs, ReqStep(r)
    PROVE  Local(r)
<1>1. CASE Load(r)
  BY <1>1, LoadLocal
<1>2. CASE CheckLimit(r)
  BY <1>2, FinishLocal, MoveLocal, Stay, EditNone, PhaseFacts DEF CheckLimit, Goto
<1>3. CASE Prepare(r)
  BY <1>3, FinishLocal, VisitLocal, Stay, EditNone, PhaseFacts DEF Prepare
<1>4. CASE RemovalInspect(r)
  BY <1>4, NextCallLocal, EndRemovalLocal DEF RemovalInspect
<1>5. CASE RemovalStop(r)
  BY <1>5, NextCallLocal, EndRemovalLocal DEF RemovalStop
<1>6. CASE RemovalRemove(r)
  BY <1>6, EndRemovalLocal DEF RemovalRemove
<1>7. CASE Create(r)
  <2>1. CASE Goto(r, "start") /\ UNCHANGED job
    BY <1>7, <2>1, MoveLocal, Stay, EditNone, PhaseFacts DEF Create, Goto, LocalsOK
  <2> QED
    BY <1>7, <2>1, AttemptFailsLocal DEF Create
<1>8. CASE Start(r)
  <2>1. CASE /\ Goto(r, "inspect")
             /\ job' = [job EXCEPT ![r].made = @ \cup {job[r].cur}]
    <3>1. job[r].cur \in Nodes /\ job[r].made \cup {job[r].cur} \in SUBSET Nodes
      BY <1>8, Stay, PhaseFacts DEF Start, LocalsOK
    <3>2. Edit([job[r] EXCEPT !.made = @ \cup {job[r].cur}], job[r])
      BY <3>1, Stay, EditSets
    <3> QED
      BY <2>1, <3>1, <3>2, MoveLocal, PhaseFacts DEF Goto
  <2> QED
    BY <1>8, <2>1, AttemptFailsLocal DEF Start
<1>9. CASE InspectNew(r)
  BY <1>9, VisitLocal, FailLocal, Stay, EditNone, PhaseFacts DEF InspectNew
<1>10. CASE CacheRead(r)
  <2>1. Edit([job[r] EXCEPT !.read = cache], job[r])
    BY Stay, EditSets DEF TypeOK
  <2> QED
    BY <1>10, <2>1, MoveLocal, PhaseFacts DEF CacheRead, Goto
<1>11. CASE CacheWrite(r)
  <2>1. CASE /\ Goto(r, "wait")
             /\ job' = [job EXCEPT ![r].todo = job[r].nodes, ![r].read = {}]
    <3>1. Edit([job[r] EXCEPT !.todo = job[r].nodes, !.read = {}], job[r])
      BY Stay, EditSets
    <3> QED
      BY <2>1, <3>1, MoveLocal, PhaseFacts DEF Goto
  <2> QED
    BY <1>11, <2>1, FailLocal DEF CacheWrite
<1>12. CASE NodeAnswers(r)
  <2>1. PICK n \in job[r].todo : job' = [job EXCEPT ![r].todo = @ \ {n}]
    BY <1>12 DEF NodeAnswers
  <2>2. Edit([job[r] EXCEPT !.todo = @ \ {n}], job[r])
    BY Stay, EditSets
  <2> QED
    BY <1>12, <2>1, <2>2, MoveLocal, Stay, PhaseFacts DEF NodeAnswers
<1>13. CASE WaitTimeout(r)
  BY <1>13, FailLocal DEF WaitTimeout
<1>14. CASE SaveRunning(r)
  <2>1. Edit([job[r] EXCEPT !.status = "running"], job[r])
    BY Stay, EditStatus DEF Statuses
  <2> QED
    BY <1>14, <2>1, MoveLocal, PhaseFacts DEF SaveRunning, Goto
<1>15. CASE SaveStop(r)
  <2>1. Edit([job[r] EXCEPT !.status = "stop"], job[r])
    BY Stay, EditStatus DEF Statuses
  <2> QED
    BY <1>15, <2>1, MoveLocal, Stay, EditNone, PhaseFacts DEF SaveStop, Goto
<1>16. CASE Emit(r)
  BY <1>16, FinishLocal, PhaseFacts DEF Emit
<1>17. CASE RestartCheck(r)
  <2>1. CASE Goto(r, "restart") /\ job' = [job EXCEPT ![r].todo = job[r].nodes]
    BY <2>1, MoveLocal, Stay, EditSets, PhaseFacts DEF Goto
  <2> QED
    BY <1>17, <2>1, FinishLocal, PhaseFacts DEF RestartCheck
<1>18. CASE RestartStop(r)
  <2>1. PICK n \in job[r].todo :
           \/ job' = [job EXCEPT ![r].todo = @ \ {n}, ![r].made = @ \cup {n}]
           \/ job' = [job EXCEPT ![r].todo = @ \ {n}]
    BY <1>18 DEF RestartStop
  <2>2. job[r].todo \ {n} \in SUBSET Nodes /\ job[r].made \cup {n} \in SUBSET Nodes
    BY Stay
  <2>3. CASE job' = [job EXCEPT ![r].todo = @ \ {n}, ![r].made = @ \cup {n}]
    <3>1. Edit([job[r] EXCEPT !.todo = @ \ {n}, !.made = @ \cup {n}], job[r])
      BY <2>2, Stay, EditSets
    <3>2. job' = [job EXCEPT ![r] = [job[r] EXCEPT !.todo = @ \ {n}, !.made = @ \cup {n}]]
      BY <2>3 DEF TypeOK, JobType
    <3> QED
      BY <1>18, <3>1, <3>2, MoveLocal, Stay, PhaseFacts DEF RestartStop
  <2>4. CASE job' = [job EXCEPT ![r].todo = @ \ {n}]
    <3>1. Edit([job[r] EXCEPT !.todo = @ \ {n}], job[r])
      BY <2>2, Stay, EditSets
    <3> QED
      BY <1>18, <2>4, <3>1, MoveLocal, Stay, PhaseFacts DEF RestartStop
  <2> QED
    BY <2>1, <2>3, <2>4
<1>19. CASE RestartStart(r)
  <2>1. PICK n \in job[r].made : job' = [job EXCEPT ![r].made = @ \ {n}]
    BY <1>19 DEF RestartStart
  <2>2. Edit([job[r] EXCEPT !.made = @ \ {n}], job[r])
    BY Stay, EditSets
  <2> QED
    BY <1>19, <2>1, <2>2, MoveLocal, Stay, PhaseFacts DEF RestartStart
<1>20. CASE RestartVerify(r)
  <2>1. CASE UNCHANGED job /\ \E p \in {"emitFailed", "saveStop"} : Goto(r, p)
    BY <2>1, MoveLocal, Stay, EditNone, PhaseFacts DEF Goto
  <2>2. CASE UNCHANGED pc /\ \E n \in job[r].todo : job' = [job EXCEPT ![r].todo = @ \ {n}]
    <3>1. PICK n \in job[r].todo : job' = [job EXCEPT ![r].todo = @ \ {n}]
      BY <2>2
    <3>2. Edit([job[r] EXCEPT !.todo = @ \ {n}], job[r])
      BY Stay, EditSets
    <3> QED
      BY <1>20, <2>2, <3>1, <3>2, MoveLocal, Stay, PhaseFacts DEF RestartVerify
  <2> QED
    BY <1>20, <2>1, <2>2 DEF RestartVerify
<1>21. CASE Refresh(r)
  BY <1>21, FinishLocal, PhaseFacts DEF Refresh
<1>22. CASE RemoveDir(r)
  BY <1>22, MoveLocal, Stay, EditNone, PhaseFacts DEF RemoveDir, Goto
<1>23. CASE DeleteRows(r)
  BY <1>23, FinishLocal, PhaseFacts DEF DeleteRows
<1> QED
  BY <1>1, <1>2, <1>3, <1>4, <1>5, <1>6, <1>7, <1>8, <1>9, <1>10, <1>11, <1>12, <1>13, <1>14,
     <1>15, <1>16, <1>17, <1>18, <1>19, <1>20, <1>21, <1>22, <1>23 DEF ReqStep

LEMMA ReqFaultLocal ==
    ASSUME TypeOK, LocalsOK, NEW r \in Reqs, ReqFault(r)
    PROVE  Local(r)
<1>1. CASE pc[r] \in {"create", "start"} /\ AttemptFails(r)
  BY <1>1, AttemptFailsLocal
<1>2. CASE \E o \in {"rejected", "failed"} : Finish(r, o)
  BY <1>2, FinishLocal, PhaseFacts
<1>3. CASE EndRemoval(r)
  BY <1>3, EndRemovalLocal
<1>4. CASE Fail(r)
  BY <1>4, FailLocal
<1>5. CASE UNCHANGED job /\ \E p \in {"deleteRows", "saveStop"} : Goto(r, p)
  BY <1>5, MoveLocal, Stay, EditNone, PhaseFacts DEF Goto
<1>6. CASE /\ pc[r] = "restart" /\ UNCHANGED pc
           /\ \E n \in job[r].todo \cup job[r].made :
              job' = [job EXCEPT ![r].todo = @ \ {n}, ![r].made = @ \ {n}]
  <2>1. PICK n \in job[r].todo \cup job[r].made :
              job' = [job EXCEPT ![r].todo = @ \ {n}, ![r].made = @ \ {n}]
    BY <1>6
  <2>2. Edit([job[r] EXCEPT !.todo = @ \ {n}, !.made = @ \ {n}], job[r])
    BY Stay, EditSets
  <2>3. job' = [job EXCEPT ![r] = [job[r] EXCEPT !.todo = @ \ {n}, !.made = @ \ {n}]]
    BY <2>1 DEF TypeOK, JobType
  <2> QED
    BY <1>6, <2>2, <2>3, MoveLocal, Stay, PhaseFacts
<1> QED
  BY <1>1, <1>2, <1>3, <1>4, <1>5, <1>6 DEF ReqFault

LEMMA ReqInFlight ==
    ASSUME NEW r \in Reqs, ReqStep(r) \/ ReqFault(r)
    PROVE  InFlight(r)
<1>1. CASE ReqFault(r)
  BY <1>1 DEF ReqFault, InFlight, Ended, Removing
<1>2. CASE ReqStep(r)
  BY <1>2 DEF ReqStep, InFlight, Ended, Removing, Load, CheckLimit, Prepare, RemovalInspect,
     RemovalStop, RemovalRemove, Create, Start, InspectNew, CacheRead, CacheWrite, NodeAnswers,
     WaitTimeout, SaveRunning, SaveStop, Emit, RestartCheck, RestartStop, RestartStart,
     RestartVerify, Refresh, RemoveDir, DeleteRows
<1> QED
  BY <1>1, <1>2

------------------------------------------------------------------------------
(* Type correctness. *)

IInv == TypeOK /\ LocalsOK

\* The part of TypeOK that is not local to a request.
SharedOK ==
    /\ row \in [Heads -> {"absent", "configured", "running", "stop"}]
    /\ nodeRows \subseteq Heads /\ dirs \subseteq Heads
    /\ ctr \in [Nodes -> ContainerType]
    /\ cache \subseteq Nodes /\ snaps \subseteq SUBSET Nodes
    /\ told \in [Heads -> Statuses]
    /\ cron \in [Passes -> CronType]
    /\ mishaps \in 0 .. MaxMishaps /\ disturbed \subseteq Reqs

LEMMA Shared ==
    /\ TypeOK <=> (pc \in [Reqs -> Phases] /\ job \in [Reqs -> JobType] /\ SharedOK)
    /\ TypeOK' <=> (pc' \in [Reqs -> Phases] /\ job' \in [Reqs -> JobType] /\ SharedOK')
BY DEF TypeOK, SharedOK

LEMMA LocalLocals ==
    ASSUME LocalsOK, NEW r \in Reqs, InFlight(r), Local(r)
    PROVE  LocalsOK'
BY DEF LocalsOK, Local, InFlight, HeadOf

LEMMA InitIInv == Init => IInv
<1> SUFFICES ASSUME Init PROVE IInv
  OBVIOUS
<1>1. pc \in [Reqs -> Phases]
  BY DEF Init, Phases
<1>2. job \in [Reqs -> JobType]
  BY NoJobType DEF Init
<1>3. row \in [Heads -> {"absent", "configured", "running", "stop"}]
      /\ told \in [Heads -> Statuses]
  BY DEF Init, Statuses
<1>4. ctr \in [Nodes -> ContainerType]
  BY DEF Init, ContainerType, NoContainer
<1>5. cache \subseteq Nodes
  BY NodesAssumption, ConstantsAssumption DEF Init
<1>6. cron \in [Passes -> CronType]
  BY DEF Init, CronType, Idle
<1>7. LocalsOK
  BY DEF Init, LocalsOK, InFlight, NodePhases, Removing
<1> QED
  BY <1>1, <1>2, <1>3, <1>4, <1>5, <1>6, <1>7, ConstantsAssumption DEF Init, IInv, TypeOK

LEMMA StateType ==
    ASSUME SharedOK, NEW n,
           NEW s \in {"absent", "created", "running", "restarting", "exited"}, SetState(n, s)
    PROVE  ctr' \in [Nodes -> ContainerType]
BY DEF SharedOK, SetState, ContainerType

LEMMA ReqStepShared ==
    ASSUME IInv, NEW r \in Reqs, ReqStep(r)
    PROVE  SharedOK'
<1> USE DEF db, mem, env
<1>1. SharedOK /\ job[r] \in JobType
  BY Shared DEF IInv, TypeOK
<1>2. CASE UNCHANGED <<db, ctr, mem, told, cron, env>>
  BY <1>1, <1>2 DEF SharedOK
<1>3. CASE UNCHANGED <<db, mem, told, cron, env>> /\ ctr' \in [Nodes -> ContainerType]
  BY <1>1, <1>3 DEF SharedOK
<1>4. CASE RemovalStop(r)
  BY <1>1, <1>2, <1>3, <1>4, StateType DEF RemovalStop
<1>5. CASE RemovalRemove(r)
  <2>1. [ctr EXCEPT ![job[r].cur] = NoContainer] \in [Nodes -> ContainerType]
    BY <1>1 DEF SharedOK, NoContainer, ContainerType
  <2> QED
    BY <1>2, <1>3, <1>5, <2>1 DEF RemovalRemove
<1>6. CASE Create(r)
  <2>1. [ctr EXCEPT ![job[r].cur] = [by |-> r, state |-> "created"]] \in [Nodes -> ContainerType]
    BY <1>1 DEF SharedOK, ContainerType
  <2> QED
    BY <1>2, <1>3, <1>6, <2>1 DEF Create
<1>7. CASE Start(r)
  BY <1>1, <1>2, <1>3, <1>7, StateType DEF Start
<1>8. CASE CacheWrite(r)
  <2>1. job[r].nodes \subseteq Nodes /\ job[r].read \subseteq Nodes
    BY <1>1 DEF JobType
  <2> QED
    BY <1>1, <1>8, <2>1 DEF CacheWrite, SharedOK
<1>9. CASE SaveRunning(r) \/ SaveStop(r)
  BY <1>1, <1>9 DEF SaveRunning, SaveStop, SharedOK
<1>10. CASE Emit(r)
  BY <1>1, <1>10 DEF Emit, SharedOK, JobType
<1>11. CASE RestartStop(r) \/ RestartStart(r)
  <2>1. ctr' \in [Nodes -> ContainerType]
    BY <1>1, <1>11, StateType DEF RestartStop, RestartStart, SharedOK
  <2> QED
    BY <1>3, <1>11, <2>1 DEF RestartStop, RestartStart
<1>12. CASE Refresh(r)
  BY <1>1, <1>12 DEF Refresh, Listing, RunningNodes, SharedOK
<1>13. CASE RemoveDir(r) \/ DeleteRows(r)
  BY <1>1, <1>13 DEF RemoveDir, DeleteRows, SharedOK
<1>14. CASE Load(r) \/ CheckLimit(r) \/ Prepare(r) \/ RemovalInspect(r) \/ InspectNew(r)
            \/ CacheRead(r) \/ NodeAnswers(r) \/ WaitTimeout(r) \/ RestartCheck(r)
            \/ RestartVerify(r)
  BY <1>2, <1>14 DEF Load, CheckLimit, Prepare, RemovalInspect, InspectNew, CacheRead,
     NodeAnswers, WaitTimeout, RestartCheck, RestartVerify
<1> QED
  BY <1>4, <1>5, <1>6, <1>7, <1>8, <1>9, <1>10, <1>11, <1>12, <1>13, <1>14 DEF ReqStep

LEMMA NextHeadType ==
    ASSUME SharedOK, NEW p \in Passes, NEW S \in SUBSET Heads, NextHead(p, S)
    PROVE  cron' \in [Passes -> CronType]
<1>1. CASE cron' = [cron EXCEPT ![p] = Idle]
  BY <1>1 DEF SharedOK, Idle, CronType
<1>2. CASE \E h \in S :
        cron' = [cron EXCEPT ![p] = [pc |-> "check", heads |-> S \ {h}, head |-> h,
                                     todo |-> NodesOf[h], down |-> {}]]
  BY <1>2, NodesAssumption DEF SharedOK, CronType
<1> QED
  BY <1>1, <1>2 DEF NextHead

LEMMA CronTyped ==
    ASSUME SharedOK, NEW p \in Passes, CronStep(p) \/ CronFault(p)
    PROVE  cron' \in [Passes -> CronType]
<1>1. cron[p] \in CronType /\ cron[p].heads \in SUBSET Heads
  BY DEF SharedOK, CronType
<1>2. CASE \E S \in SUBSET Heads : NextHead(p, S)
  BY <1>2, NextHeadType
<1>3. CASE CronFind(p)
  BY <1>2, <1>3 DEF CronFind
<1>4. ASSUME NEW T \in SUBSET Nodes, NEW D \in SUBSET Nodes,
             cron' = [cron EXCEPT ![p].todo = T, ![p].down = D]
      PROVE  cron' \in [Passes -> CronType]
  <2>1. [cron[p] EXCEPT !.todo = T, !.down = D] \in CronType
    BY <1>1 DEF CronType
  <2>2. cron' = [cron EXCEPT ![p] = [cron[p] EXCEPT !.todo = T, !.down = D]]
    BY <1>4 DEF SharedOK, CronType
  <2> QED
    BY <2>1, <2>2 DEF SharedOK
<1>8. cron[p].todo \in SUBSET Nodes /\ cron[p].down \in SUBSET Nodes
  BY <1>1 DEF CronType
<1>9. CASE CronCheck(p)
  <2>1. PICK n \in cron[p].todo :
          cron' = [cron EXCEPT ![p].todo = @ \ {n},
                               ![p].down = IF Running(n) THEN @ ELSE @ \cup {n}]
    BY <1>9 DEF CronCheck
  <2> DEFINE T == cron[p].todo \ {n}
             D == IF Running(n) THEN cron[p].down ELSE cron[p].down \cup {n}
  <2>2. T \in SUBSET Nodes /\ D \in SUBSET Nodes
    BY <1>8
  <2>3. cron' = [cron EXCEPT ![p].todo = T, ![p].down = D]
    BY <2>1 DEF SharedOK, CronType
  <2> HIDE DEF T, D
  <2> QED
    BY <1>4, <2>2, <2>3
<1>5. CASE CronUpdate(p)
  BY <1>1, <1>5 DEF CronUpdate, SharedOK, CronType
<1>6. CASE CronFault(p)
  <2>1. CASE \E n \in cron[p].todo :
          cron' = [cron EXCEPT ![p].todo = @ \ {n}, ![p].down = @ \cup {n}]
    <3>1. PICK n \in cron[p].todo :
            cron' = [cron EXCEPT ![p].todo = @ \ {n}, ![p].down = @ \cup {n}]
      BY <2>1
    <3>2. cron' = [cron EXCEPT ![p].todo = cron[p].todo \ {n}, ![p].down = cron[p].down \cup {n}]
      BY <3>1 DEF SharedOK, CronType
    <3>3. cron[p].todo \ {n} \in SUBSET Nodes /\ cron[p].down \cup {n} \in SUBSET Nodes
      BY <1>8
    <3> QED
      BY <1>4, <3>2, <3>3
  <2> QED
    BY <1>1, <1>2, <1>6, <2>1 DEF CronFault
<1>7. CASE CronAllUp(p) \/ CronEmit(p)
  BY <1>1, <1>2, <1>7 DEF CronAllUp, CronEmit
<1> QED
  BY <1>3, <1>5, <1>6, <1>7, <1>9 DEF CronStep

LEMMA CronShared ==
    ASSUME SharedOK, NEW p \in Passes, CronStep(p) \/ CronFault(p)
    PROVE  SharedOK'
<1> USE DEF db, mem, env
<1>1. cron' \in [Passes -> CronType]
  BY CronTyped
<1>2. CASE CronUpdate(p)
  BY <1>1, <1>2 DEF CronUpdate, SharedOK
<1>3. CASE CronEmit(p)
  BY <1>1, <1>3 DEF CronEmit, SharedOK, Statuses
<1>4. CASE CronFault(p)
  BY <1>1, <1>4, ConstantsAssumption DEF CronFault, Mishap, SharedOK
<1>5. CASE CronFind(p) \/ CronCheck(p) \/ CronAllUp(p)
  BY <1>1, <1>5 DEF CronFind, CronCheck, CronAllUp, SharedOK
<1> QED
  BY <1>2, <1>3, <1>4, <1>5 DEF CronStep

\* The steps that are nobody's: the refresh cron and the environment.
EnvStep ==
    \/ CronRefresh
    \/ \E s \in SUBSET Nodes : StoreListing(s)
    \/ CacheEmptied
    \/ \E n \in Nodes : ContainerDies(n)

LEMMA EnvShared ==
    ASSUME SharedOK, EnvStep
    PROVE  SharedOK'
<1> USE DEF db, mem, env
<1>1. CASE CronRefresh
  BY <1>1 DEF CronRefresh, Listing, RunningNodes, SharedOK
<1>2. CASE \E s \in SUBSET Nodes : StoreListing(s)
  BY <1>2 DEF StoreListing, SharedOK
<1>3. CASE CacheEmptied
  BY <1>3, ConstantsAssumption DEF CacheEmptied, Mishap, SharedOK
<1>4. ASSUME NEW n \in Nodes, ContainerDies(n)
      PROVE  SharedOK'
  <2>1. ctr' \in [Nodes -> ContainerType]
    BY <1>4, StateType DEF ContainerDies
  <2>2. mishaps' \in 0 .. MaxMishaps
    BY <1>4, ConstantsAssumption DEF ContainerDies, Mishap, SharedOK
  <2>3. disturbed' \subseteq Reqs
    BY <1>4 DEF ContainerDies, SharedOK
  <2> QED
    BY <1>4, <2>1, <2>2, <2>3 DEF ContainerDies, SharedOK
<1> QED
  BY <1>1, <1>2, <1>3, <1>4 DEF EnvStep

LEMMA CrashIInv ==
    ASSUME IInv, Crash
    PROVE  IInv'
<1>1. pc' \in [Reqs -> Phases]
  BY DEF IInv, TypeOK, Crash, Phases, Ended
<1>2. job' \in [Reqs -> JobType]
  <2>1. \A r \in Reqs : [NoJob EXCEPT !.op = job[r].op, !.head = job[r].head] \in JobType
    BY NoJobType DEF IInv, TypeOK, JobType
  <2> QED
    BY <2>1 DEF Crash
<1>3. ctr' \in [Nodes -> ContainerType]
  <2>1. \A n \in Nodes : ctr[n] \in ContainerType
                         /\ [ctr[n] EXCEPT !.state = "running"] \in ContainerType
    BY DEF IInv, TypeOK, ContainerType
  <2>2. PICK back \in SUBSET {n \in Nodes : ctr[n].state = "restarting"} :
          ctr' = [n \in Nodes |-> IF n \in back THEN [ctr[n] EXCEPT !.state = "running"]
                                  ELSE ctr[n]]
    BY DEF Crash
  <2> QED
    BY <2>1, <2>2
<1>4. cron' \in [Passes -> CronType]
  BY DEF Crash, CronType, Idle
<1>5. mishaps' \in 0 .. MaxMishaps
  <2>1. mishaps < MaxMishaps /\ mishaps' = mishaps + 1 /\ mishaps \in 0 .. MaxMishaps
    BY DEF IInv, TypeOK, Crash, Mishap
  <2> QED
    BY <2>1, ConstantsAssumption
<1>6. LocalsOK'
  <2>1. \A r \in Reqs : pc'[r] \in Ended \cup {"new"}
    BY DEF Crash, InFlight, Ended
  <2> QED
    BY <2>1, PhaseFacts DEF LocalsOK, InFlight, Ended, NodePhases, Removing
<1> QED
  BY <1>1, <1>2, <1>3, <1>4, <1>5, <1>6 DEF IInv, TypeOK, Crash, db

LEMMA AcceptIInv ==
    ASSUME IInv, NEW r \in Reqs, Accept(r)
    PROVE  IInv'
<1>1. PICK o \in Ops, h \in Heads :
         job' = [job EXCEPT ![r] = [NoJob EXCEPT !.op = o, !.head = h]]
  BY DEF Accept
<1> DEFINE j == [NoJob EXCEPT !.op = o, !.head = h]
<1>2. j \in JobType /\ j.head = h
  BY NoJobType, ConstantsAssumption DEF JobType, Commanded, NoJob
<1> HIDE DEF j
<1>3. pc' = [pc EXCEPT ![r] = "load"] /\ job' = [job EXCEPT ![r] = j]
  BY <1>1 DEF Accept, Goto, j
<1>4. pc' \in [Reqs -> Phases] /\ job' \in [Reqs -> JobType]
  BY <1>2, <1>3, PhaseFacts DEF IInv, TypeOK
<1>5. SharedOK'
  BY Shared DEF IInv, Accept, SharedOK, db, mem
<1>6. LocalsOK'
  BY <1>2, <1>3, PhaseFacts DEF IInv, TypeOK, LocalsOK, InFlight, HeadOf
<1> QED
  BY <1>4, <1>5, <1>6, Shared DEF IInv

LEMMA NextIInv == IInv /\ [Next]_vars => IInv'
<1> SUFFICES ASSUME IInv, [Next]_vars PROVE IInv'
  OBVIOUS
<1>1. TypeOK /\ LocalsOK /\ SharedOK
  BY Shared DEF IInv
<1>2. ASSUME NEW r \in Reqs, Accept(r) PROVE IInv'
  BY <1>2, AcceptIInv
<1>3. ASSUME NEW r \in Reqs, ReqStep(r) PROVE IInv'
  BY <1>1, <1>3, ReqStepLocal, ReqInFlight, LocalLocals, ReqStepShared, Shared DEF IInv, Local
<1>4. ASSUME NEW r \in Reqs, ReqFault(r) PROVE IInv'
  <2>1. SharedOK'
    BY <1>1, <1>4, ConstantsAssumption DEF ReqFault, Mishap, SharedOK, db, mem
  <2> QED
    BY <1>1, <1>4, <2>1, ReqFaultLocal, ReqInFlight, LocalLocals, Shared DEF IInv, Local
<1>5. CASE UNCHANGED <<pc, job>> /\ SharedOK'
  BY <1>1, <1>5, Shared DEF IInv, LocalsOK, InFlight, HeadOf, TypeOK
<1>6. ASSUME NEW p \in Passes, CronStep(p) \/ CronFault(p) PROVE IInv'
  <2>1. UNCHANGED <<pc, job>>
    BY <1>6 DEF CronStep, CronFault, CronFind, CronCheck, CronAllUp, CronUpdate, CronEmit
  <2> QED
    BY <1>1, <1>5, <1>6, <2>1, CronShared
<1>7. CASE EnvStep
  <2>1. UNCHANGED <<pc, job>>
    BY <1>7 DEF EnvStep, CronRefresh, StoreListing, CacheEmptied, ContainerDies
  <2> QED
    BY <1>1, <1>5, <1>7, <2>1, EnvShared
<1>8. CASE Crash
  BY <1>8, CrashIInv
<1>9. CASE UNCHANGED vars
  <2>1. UNCHANGED <<pc, job>> /\ SharedOK'
    BY <1>1, <1>9 DEF vars, SharedOK
  <2> QED
    BY <1>5, <2>1
<1> QED
  BY <1>2, <1>3, <1>4, <1>6, <1>7, <1>8, <1>9 DEF Next, EnvStep

THEOREM InductiveInvariant == Spec => []IInv
BY InitIInv, NextIInv, PTL DEF Spec

\* Every variable keeps its type; in particular createContainer makes at most
\* retryCount + 1 attempts.
THEOREM TypeCorrect == Spec => []TypeOK
<1>1. IInv => TypeOK
  BY DEF IInv
<1> QED
  BY <1>1, InductiveInvariant, PTL

------------------------------------------------------------------------------
(* The health cron blames a head only for its own nodes. *)

CronInv ==
    \A p \in Passes : cron[p].pc # "idle" =>
        /\ cron[p].head \in Heads
        /\ cron[p].todo \subseteq NodesOf[cron[p].head]
        /\ cron[p].down \subseteq NodesOf[cron[p].head]

LEMMA CronInvStep == IInv /\ CronInv /\ [Next]_vars => CronInv'
<1> SUFFICES ASSUME IInv, CronInv, [Next]_vars PROVE CronInv'
  OBVIOUS
<1>1. cron \in [Passes -> CronType]
  BY DEF IInv, TypeOK
<1>2. CASE UNCHANGED cron
  BY <1>2 DEF CronInv
<1>3. ASSUME NEW p \in Passes, CronStep(p) \/ CronFault(p) PROVE CronInv'
  <2>1. cron[p] \in CronType /\ cron[p].heads \in SUBSET Heads
    BY <1>1 DEF CronType
  <2>2. ASSUME NEW S \in SUBSET Heads, NextHead(p, S) PROVE CronInv'
    BY <1>1, <2>2, NodesAssumption DEF NextHead, CronInv, Idle
  <2>3. ASSUME cron[p].pc = "check", NEW n \in cron[p].todo, NEW D \in SUBSET (cron[p].down \cup {n}),
               cron' = [cron EXCEPT ![p] = [cron[p] EXCEPT !.todo = @ \ {n}, !.down = D]]
        PROVE  CronInv'
    BY <1>1, <2>1, <2>3 DEF CronInv, CronType
  <2>4. CASE CronCheck(p)
    <3>1. cron[p].pc = "check"
      BY <2>4 DEF CronCheck
    <3>2. PICK n \in cron[p].todo :
            cron' = [cron EXCEPT ![p].todo = @ \ {n},
                                 ![p].down = IF Running(n) THEN @ ELSE @ \cup {n}]
      BY <2>4 DEF CronCheck
    <3> DEFINE D == IF Running(n) THEN cron[p].down ELSE cron[p].down \cup {n}
    <3>3. cron' = [cron EXCEPT ![p] = [cron[p] EXCEPT !.todo = @ \ {n}, !.down = D]]
      BY <1>1, <2>1, <3>2 DEF CronType
    <3>4. D \in SUBSET (cron[p].down \cup {n})
      OBVIOUS
    <3> HIDE DEF D
    <3> QED
      BY <2>3, <3>1, <3>3, <3>4
  <2>5. CASE CronUpdate(p)
    BY <1>1, <2>1, <2>5 DEF CronUpdate, CronInv, CronType
  <2>6. CASE CronFault(p)
    <3>1. cron[p].pc = "check"
      BY <2>6 DEF CronFault
    <3>2. CASE \E n \in cron[p].todo :
            cron' = [cron EXCEPT ![p].todo = @ \ {n}, ![p].down = @ \cup {n}]
      <4>1. PICK n \in cron[p].todo :
              cron' = [cron EXCEPT ![p].todo = @ \ {n}, ![p].down = @ \cup {n}]
        BY <3>2
      <4>2. cron' = [cron EXCEPT ![p] =
                       [cron[p] EXCEPT !.todo = @ \ {n}, !.down = cron[p].down \cup {n}]]
        BY <1>1, <2>1, <4>1 DEF CronType
      <4>3. cron[p].down \cup {n} \in SUBSET (cron[p].down \cup {n})
        OBVIOUS
      <4> QED
        BY <2>3, <3>1, <4>2, <4>3
    <3> QED
      BY <2>1, <2>2, <2>6, <3>2 DEF CronFault
  <2>7. CASE CronFind(p) \/ CronAllUp(p) \/ CronEmit(p)
    BY <2>1, <2>2, <2>7 DEF CronFind, CronAllUp, CronEmit
  <2> QED
    BY <1>3, <2>4, <2>5, <2>6, <2>7 DEF CronStep
<1>4. CASE Crash
  BY <1>4 DEF Crash, CronInv, Idle
<1>5. ASSUME NEW r \in Reqs, Accept(r) \/ ReqStep(r) \/ ReqFault(r) PROVE UNCHANGED cron
  BY <1>5 DEF Accept, ReqStep, ReqFault, Load, CheckLimit, Prepare, RemovalInspect,
     RemovalStop, RemovalRemove, Create, Start, InspectNew, CacheRead, CacheWrite, NodeAnswers,
     WaitTimeout, SaveRunning, SaveStop, Emit, RestartCheck, RestartStop, RestartStart,
     RestartVerify, Refresh, RemoveDir, DeleteRows
<1>6. EnvStep \/ UNCHANGED vars => UNCHANGED cron
  BY DEF EnvStep, CronRefresh, StoreListing, CacheEmptied, ContainerDies, vars
<1> QED
  BY <1>2, <1>3, <1>4, <1>5, <1>6 DEF Next, EnvStep

\* The list of stopped nodes a pass of checkNodeHealth acts on and reports holds
\* nodes of the head at hand only.
THEOREM CronBlameIsOwn == Spec => []CronBlamesOwnNodes
<1>1. Init => CronInv
  BY DEF Init, CronInv, Idle
<1>2. CronInv => CronBlamesOwnNodes
  BY DEF CronInv, CronBlamesOwnNodes
<1> QED
  BY <1>1, <1>2, CronInvStep, InductiveInvariant, PTL DEF Spec

------------------------------------------------------------------------------
(* What one request may do to the containers. *)

\* A step of r touches at most the container of the node it works on; the
\* cleanup of a failed activation only one that r made.
LEMMA CleanupTouchesOwn ==
    ASSUME IInv, NEW r \in Reqs, ReqStep(r) \/ ReqFault(r), pc[r] = "cleanup",
           NEW n \in Nodes, ctr[n].by # r
    PROVE  ctr'[n] = ctr[n]
<1>1. ctr \in [Nodes -> ContainerType] /\ job[r].cur \in Nodes
  BY DEF IInv, TypeOK, LocalsOK, NodePhases, Removing
<1>2. CASE RemovalInspect(r)
  BY <1>2 DEF RemovalInspect
<1>3. CASE RemovalStop(r)
  BY <1>1, <1>3 DEF RemovalStop, SetState, Found, ByName
<1>4. CASE RemovalRemove(r)
  BY <1>1, <1>4 DEF RemovalRemove, Found, ByName
<1>5. CASE ReqFault(r)
  BY <1>5 DEF ReqFault
<1> QED
  BY <1>2, <1>3, <1>4, <1>5 DEF ReqStep, Load, CheckLimit, Prepare, Create, Start, InspectNew,
     CacheRead, CacheWrite, NodeAnswers, WaitTimeout, SaveRunning, SaveStop, Emit, RestartCheck,
     RestartStop, RestartStart, RestartVerify, Refresh, RemoveDir, DeleteRows

\* Only the process crashing, or a step of r itself, moves request r.
LEMMA OnlyOwnSteps ==
    ASSUME IInv, [Next]_vars, NEW r \in Reqs,
           <<pc'[r], job'[r]>> # <<pc[r], job[r]>>
    PROVE  Accept(r) \/ ReqStep(r) \/ ReqFault(r) \/ Crash
<1>1. ASSUME NEW q \in Reqs, ReqStep(q) \/ ReqFault(q), q # r PROVE FALSE
  BY <1>1, ReqStepLocal, ReqFaultLocal DEF IInv, Local
<1>2. ASSUME NEW q \in Reqs, Accept(q), q # r PROVE FALSE
  BY <1>2 DEF IInv, TypeOK, Accept, Goto
<1>3. ASSUME NEW p \in Passes, CronStep(p) \/ CronFault(p) PROVE FALSE
  BY <1>3 DEF CronStep, CronFault, CronFind, CronCheck, CronAllUp, CronUpdate, CronEmit
<1>4. CASE EnvStep
  BY <1>4 DEF EnvStep, CronRefresh, StoreListing, CacheEmptied, ContainerDies
<1>5. CASE UNCHANGED vars
  BY <1>5 DEF vars
<1> QED
  BY <1>1, <1>2, <1>3, <1>4, <1>5 DEF Next, EnvStep

\* cleanupContainer works by id: whatever races with it, the cleanup of a failed
\* activation leaves every container it did not make as it is.
THEOREM CleanupIsOwn == Spec => CleanupSparesOthers
<1> DEFINE A == \A r \in Reqs, n \in Nodes :
                  (/\ pc[r] = "cleanup" /\ pc'[r] # "lost"
                   /\ <<pc'[r], job'[r]>> # <<pc[r], job[r]>>
                   /\ ctr[n].by # r)
                  => ctr'[n] = ctr[n]
<1>1. IInv /\ [Next]_vars => [A]_vars
  <2> SUFFICES ASSUME IInv, [Next]_vars, NEW r \in Reqs, NEW n \in Nodes,
                      pc[r] = "cleanup", pc'[r] # "lost",
                      <<pc'[r], job'[r]>> # <<pc[r], job[r]>>, ctr[n].by # r
               PROVE  ctr'[n] = ctr[n]
    OBVIOUS
  <2>1. CASE Accept(r)
    BY <2>1 DEF Accept
  <2>2. CASE Crash
    BY <2>2 DEF Crash, InFlight, Ended
  <2>3. CASE ReqStep(r) \/ ReqFault(r)
    BY <2>3, CleanupTouchesOwn
  <2> QED
    BY <2>1, <2>2, <2>3, OnlyOwnSteps
<1> QED
  BY <1>1, InductiveInvariant, PTL DEF Spec, CleanupSparesOthers

------------------------------------------------------------------------------
(* A failed activation leaves nothing of its own running.                   *)
(*                                                                          *)
(* The invariant says where the handler of r stands when a container it     *)
(* made runs: it has finished well, or it is at work and remembers the      *)
(* container, or it is cleaning up and the container is still to come. It   *)
(* needs that no restart can start a stopped container again, and that no   *)
(* call of the cleanup fails.                                               *)

Working == {"clear", "create", "start", "retry", "inspect", "cacheRead", "cacheWrite",
            "wait", "emit"}

OwnRunning(r, n) == ctr[n].by = r /\ Running(n)

Tracked(r, n) ==
    \/ pc[r] \in {"done", "lost"}
    \/ pc[r] \in Working /\ n \in job[r].made
    \/ /\ pc[r] = "cleanup"
       /\ n \in job[r].todo \/ (n = job[r].cur /\ job[r].call \in {"inspect", "stop"})

NoRestarts ==
    /\ \A r \in Reqs : /\ job[r].op # "restart"
                       /\ pc[r] \notin {"listed", "restart", "verify"}
    /\ \A n \in Nodes : ctr[n].state # "restarting"

StrayInv == NoRestarts /\ \A r \in Reqs, n \in Nodes : OwnRunning(r, n) => Tracked(r, n)

\* Fault-free steps of a request in a run without restarts.
CalmStep(r) ==
    \/ ReqStep(r)
    \/ ReqFault(r) /\ pc[r] \in {"create", "start"} /\ AttemptFails(r)

LEMMA FailTracked ==
    ASSUME IInv, NoRestarts, NEW r \in Reqs, Fail(r)
    PROVE  /\ pc'[r] \in {"cleanup", "saveStop"}
           /\ \A n \in job[r].made : Tracked(r, n)'
<1>1. Visit(r, job[r], job[r].made, "cleanup", "saveStop")
  BY DEF Fail, NoRestarts
<1>2. CASE job[r].made = {} /\ Goto(r, "saveStop")
  BY <1>2 DEF IInv, TypeOK, Goto
<1>3. CASE \E n \in job[r].made :
       /\ Goto(r, "cleanup")
       /\ job' = [job EXCEPT ![r] = [job[r] EXCEPT !.cur = n, !.todo = job[r].made \ {n},
                                                  !.call = "inspect"]]
  BY <1>3 DEF IInv, TypeOK, JobType, Goto, Tracked
<1> QED
  BY <1>1, <1>2, <1>3 DEF Visit

LEMMA AttemptTracked ==
    ASSUME IInv, NoRestarts, NEW r \in Reqs, AttemptFails(r)
    PROVE  /\ pc'[r] \in {"cleanup", "saveStop", "retry"}
           /\ \A n \in job[r].made : Tracked(r, n)'
<1>1. CASE Goto(r, "retry") /\ job' = [job EXCEPT ![r].call = "inspect"]
  BY <1>1 DEF IInv, TypeOK, JobType, Goto, Tracked, Working
<1> QED
  BY <1>1, FailTracked DEF AttemptFails

\* Phases a request enters without having, or any longer having, containers
\* of its own.
LEMMA WorkTracked ==
    ASSUME IInv, NoRestarts, NEW r \in Reqs, CalmStep(r), pc[r] \in Working,
           NEW n \in job[r].made
    PROVE  Tracked(r, n)'
<1> DEFINE j == job[r]
<1>1. /\ pc \in [Reqs -> Phases] /\ job \in [Reqs -> JobType] /\ j \in JobType
      /\ j.op # "restart"
  BY DEF IInv, TypeOK, NoRestarts
<1>2. ASSUME NEW S, NEW p \in Working, NEW q \in Working, Visit(r, j, S, p, q)
      PROVE  Tracked(r, n)'
  <2>1. CASE Goto(r, q) /\ job' = [job EXCEPT ![r] = j]
    BY <1>1, <2>1 DEF Goto, Tracked
  <2>2. ASSUME NEW m \in S, Goto(r, p),
               job' = [job EXCEPT ![r] = [j EXCEPT !.cur = m, !.todo = S \ {m},
                                                  !.call = "inspect"]]
        PROVE  Tracked(r, n)'
    <3>1. job'[r].made = j.made /\ pc'[r] = p
      BY <1>1, <2>2 DEF Goto, JobType
    <3> QED
      BY <3>1 DEF Tracked
  <2> QED
    BY <1>2, <2>1, <2>2 DEF Visit
<1>3. ASSUME EndRemoval(r) PROVE Tracked(r, n)'
  BY <1>1, <1>3 DEF EndRemoval, Goto, Tracked, JobType, Working
<1>4. ASSUME NEW c, NextCall(r, c) PROVE Tracked(r, n)'
  BY <1>1, <1>4 DEF NextCall, Tracked, JobType
<1>5. CASE RemovalInspect(r) \/ RemovalStop(r) \/ RemovalRemove(r)
  BY <1>3, <1>4, <1>5 DEF RemovalInspect, RemovalStop, RemovalRemove
<1>6. CASE Create(r)
  BY <1>1, <1>6, AttemptTracked DEF Create, Goto, Tracked, Working
<1>7. CASE Start(r)
  BY <1>1, <1>7, AttemptTracked DEF Start, Goto, Tracked, Working, JobType
<1>8. CASE AttemptFails(r)
  BY <1>8, AttemptTracked
<1>9. CASE InspectNew(r)
  BY <1>2, <1>9, FailTracked DEF InspectNew, Working
<1>10. CASE CacheRead(r)
  BY <1>1, <1>10 DEF CacheRead, Goto, Tracked, Working, JobType
<1>11. CASE CacheWrite(r)
  BY <1>1, <1>11, FailTracked DEF CacheWrite, Goto, Tracked, Working, JobType
<1>12. CASE NodeAnswers(r)
  BY <1>1, <1>12 DEF NodeAnswers, Tracked, JobType
<1>13. CASE WaitTimeout(r)
  BY <1>13, FailTracked DEF WaitTimeout
<1>14. CASE SaveRunning(r)
  BY <1>1, <1>14 DEF SaveRunning, Goto, Tracked, Working, JobType
<1>15. CASE Emit(r)
  BY <1>1, <1>15 DEF Emit, Finish, Goto, Tracked, Working
<1> QED
  BY <1>5, <1>6, <1>7, <1>8, <1>9, <1>10, <1>11, <1>12, <1>13, <1>14, <1>15
     DEF CalmStep, ReqStep, Working, Load, CheckLimit, Prepare, SaveStop, RestartCheck,
         RestartStop, RestartStart, RestartVerify, Refresh, RemoveDir, DeleteRows, NoRestarts

\* In the cleanup a container is dropped from the list only when it is seen
\* stopped, or gone, or somebody else's.
LEMMA CleanupTracked ==
    ASSUME IInv, NoRestarts, NEW r \in Reqs, CalmStep(r), pc[r] = "cleanup",
           NEW n \in Nodes, OwnRunning(r, n)', Tracked(r, n)
    PROVE  Tracked(r, n)'
<1> DEFINE j == job[r]
<1>1. /\ pc \in [Reqs -> Phases] /\ job \in [Reqs -> JobType] /\ j \in JobType
      /\ ctr \in [Nodes -> ContainerType] /\ j.cur \in Nodes
  BY DEF IInv, TypeOK, LocalsOK, NodePhases, Removing
<1>2. n \in j.todo \/ (n = j.cur /\ j.call \in {"inspect", "stop"})
  BY DEF Tracked, Working
<1>3. ASSUME EndRemoval(r), n \in j.todo PROVE Tracked(r, n)'
  <2>1. Visit(r, j, j.todo, "cleanup", "saveStop")
    BY <1>3 DEF EndRemoval
  <2>2. PICK m \in j.todo :
          /\ Goto(r, "cleanup")
          /\ job' = [job EXCEPT ![r] = [j EXCEPT !.cur = m, !.todo = j.todo \ {m},
                                                !.call = "inspect"]]
    BY <1>3, <2>1 DEF Visit
  <2>3. /\ pc'[r] = "cleanup" /\ job'[r].cur = m /\ job'[r].todo = j.todo \ {m}
        /\ job'[r].call = "inspect"
    BY <1>1, <2>2 DEF Goto, JobType
  <2> QED
    BY <1>3, <2>3 DEF Tracked
<1>4. CASE RemovalInspect(r)
  <2>1. UNCHANGED ctr /\ Running(n) /\ ctr[n].by = r
    BY <1>4 DEF RemovalInspect, OwnRunning, Running
  <2>2. CASE n = j.cur
    <3>1. NextCall(r, "stop")
      BY <1>4, <2>1, <2>2 DEF RemovalInspect, Found, Exists, Running
    <3> QED
      BY <1>1, <2>2, <3>1 DEF NextCall, Tracked, JobType
  <2>3. CASE n \in j.todo
    <3>1. ASSUME NEW c, NextCall(r, c) PROVE Tracked(r, n)'
      BY <1>1, <2>3, <3>1 DEF NextCall, Tracked, JobType
    <3> QED
      BY <1>3, <1>4, <2>3, <3>1 DEF RemovalInspect
  <2> QED
    BY <1>2, <2>2, <2>3
<1>5. CASE RemovalStop(r)
  <2>1. n # j.cur
    <3>1. ASSUME n = j.cur, UNCHANGED ctr, ~(Found(r) /\ Running(n)) PROVE FALSE
      BY <3>1 DEF OwnRunning, Running, Found, Exists
    <3>2. ASSUME n = j.cur, SetState(n, "exited") PROVE FALSE
      BY <1>1, <3>2 DEF SetState, OwnRunning, Running, ContainerType
    <3> QED
      BY <1>5, <3>1, <3>2 DEF RemovalStop
  <2>2. ASSUME NextCall(r, "remove") PROVE Tracked(r, n)'
    BY <1>1, <1>2, <2>1, <2>2 DEF NextCall, Tracked, JobType
  <2> QED
    BY <1>2, <1>3, <1>5, <2>1, <2>2 DEF RemovalStop
<1>6. CASE RemovalRemove(r)
  BY <1>2, <1>3, <1>6 DEF RemovalRemove
<1> QED
  BY <1>4, <1>5, <1>6 DEF CalmStep, ReqStep, Load, CheckLimit, Prepare, Create, Start, InspectNew,
     CacheRead, CacheWrite, NodeAnswers, WaitTimeout, SaveRunning, SaveStop, Emit, RestartCheck,
     RestartStop, RestartStart, RestartVerify, Refresh, RemoveDir, DeleteRows

\* What runs after a step of r ran before, or is the container r has just
\* started and recorded.
LEMMA StepStarts ==
    ASSUME IInv, NoRestarts, NEW r \in Reqs, CalmStep(r),
           NEW q \in Reqs, NEW n \in Nodes, OwnRunning(q, n)'
    PROVE  \/ OwnRunning(q, n)
           \/ q = r /\ pc'[r] = "inspect" /\ n \in job'[r].made
<1>1. ctr \in [Nodes -> ContainerType] /\ pc \in [Reqs -> Phases]
      /\ job \in [Reqs -> JobType]
  BY DEF IInv, TypeOK
<1>2. CASE UNCHANGED ctr
  BY <1>2 DEF OwnRunning, Running
<1>3. CASE RemovalStop(r)
  <2>1. ASSUME NEW m, SetState(m, "exited") PROVE OwnRunning(q, n)
    BY <1>1, <2>1 DEF SetState, OwnRunning, Running, ContainerType
  <2> QED
    BY <1>2, <1>3, <2>1 DEF RemovalStop
<1>4. CASE RemovalRemove(r)
  BY <1>1, <1>2, <1>4 DEF RemovalRemove, NoContainer, OwnRunning, Running
<1>5. CASE Create(r)
  BY <1>1, <1>2, <1>5 DEF Create, OwnRunning, Running
<1>6. CASE Start(r)
  <2> DEFINE m == job[r].cur
  <2>1. CASE UNCHANGED ctr
    BY <1>2, <2>1
  <2>2. CASE /\ Owns(r, m) /\ SetState(m, "running") /\ Goto(r, "inspect")
             /\ job' = [job EXCEPT ![r].made = @ \cup {m}]
    <3>1. pc'[r] = "inspect" /\ job'[r].made = job[r].made \cup {m}
      BY <1>1, <2>2 DEF Goto, JobType
    <3>2. CASE n = m
      <4>1. ctr'[n].by = r /\ ctr'[n].by = q
        BY <1>1, <2>2, <3>2 DEF Owns, SetState, OwnRunning, ContainerType
      <4> QED
        BY <3>1, <3>2, <4>1
    <3>3. CASE n # m
      BY <1>1, <2>2, <3>3 DEF SetState, OwnRunning, Running
    <3> QED
      BY <3>2, <3>3
  <2> QED
    BY <1>6, <2>1, <2>2 DEF Start
<1>7. CASE RestartStop(r) \/ RestartStart(r)
  BY <1>7 DEF NoRestarts, RestartStop, RestartStart
<1>8. CASE ReqFault(r)
  BY <1>2, <1>8 DEF ReqFault
<1> QED
  BY <1>2, <1>3, <1>4, <1>5, <1>6, <1>7, <1>8 DEF CalmStep, ReqStep, Load, CheckLimit, Prepare,
     RemovalInspect, InspectNew, CacheRead, CacheWrite, NodeAnswers, WaitTimeout, SaveRunning,
     SaveStop, Emit, RestartCheck, RestartVerify, Refresh, RemoveDir, DeleteRows

LEMMA StepStray ==
    ASSUME IInv, StrayInv, NEW r \in Reqs, CalmStep(r),
           NEW q \in Reqs, NEW n \in Nodes, OwnRunning(q, n)'
    PROVE  Tracked(q, n)'
<1>1. Local(r) /\ InFlight(r)
  BY ReqStepLocal, ReqFaultLocal, ReqInFlight DEF CalmStep, IInv
<1>2. CASE q # r
  <2>1. OwnRunning(q, n) /\ pc'[q] = pc[q] /\ job'[q] = job[q]
    BY <1>1, <1>2, StepStarts DEF StrayInv, Local
  <2> QED
    BY <2>1 DEF StrayInv, Tracked
<1>3. CASE q = r /\ pc'[r] = "inspect" /\ n \in job'[r].made
  BY <1>3 DEF Tracked, Working
<1>4. CASE q = r /\ OwnRunning(r, n)
  <2>1. Tracked(r, n)
    BY <1>4 DEF StrayInv
  <2>2. CASE pc[r] = "cleanup"
    BY <1>4, <2>1, <2>2, CleanupTracked DEF StrayInv
  <2>3. CASE pc[r] \in Working /\ n \in job[r].made
    BY <1>4, <2>3, WorkTracked DEF StrayInv
  <2> QED
    BY <1>1, <2>1, <2>2, <2>3 DEF Tracked, InFlight, Ended
<1> QED
  BY <1>2, <1>3, <1>4, StepStarts DEF StrayInv

\* A restart is asked for or it does not happen: no step of a request brings one
\* into a run without it.
LEMMA RestartPhases ==
    ASSUME IInv, NoRestarts, NEW r \in Reqs, ReqStep(r) \/ ReqFault(r)
    PROVE  pc'[r] \notin {"listed", "restart", "verify"}
<1> DEFINE R == {"listed", "restart", "verify"}
<1>1. pc \in [Reqs -> Phases] /\ job[r].op # "restart" /\ pc[r] \notin R
  BY DEF IInv, TypeOK, NoRestarts
<1>2. ASSUME NEW p, p \notin R, Goto(r, p) PROVE pc'[r] \notin R
  BY <1>1, <1>2 DEF Goto
<1>3. ASSUME NEW j, NEW S, NEW p, NEW q, p \notin R, q \notin R, Visit(r, j, S, p, q)
      PROVE  pc'[r] \notin R
  BY <1>2, <1>3 DEF Visit
<1>4. Fail(r) => pc'[r] \notin R
  BY <1>1, <1>3 DEF Fail
<1>5. AttemptFails(r) => pc'[r] \notin R
  BY <1>2, <1>4 DEF AttemptFails
<1>6. EndRemoval(r) => pc'[r] \notin R
  BY <1>2, <1>3 DEF EndRemoval
<1>7. ASSUME NEW o, o \notin R, Finish(r, o) PROVE pc'[r] \notin R
  BY <1>2, <1>7 DEF Finish
<1>8. CASE Load(r)
  BY <1>1, <1>2, <1>3, <1>7, <1>8 DEF Load
<1>9. CASE Prepare(r) \/ InspectNew(r)
  BY <1>3, <1>4, <1>7, <1>9 DEF Prepare, InspectNew
<1>10. CASE RemovalInspect(r) \/ RemovalStop(r) \/ RemovalRemove(r)
  BY <1>1, <1>6, <1>10 DEF RemovalInspect, RemovalStop, RemovalRemove, NextCall
<1>11. CASE Create(r) \/ Start(r)
  BY <1>2, <1>5, <1>11 DEF Create, Start
<1>12. CASE CheckLimit(r) \/ CacheRead(r) \/ CacheWrite(r) \/ NodeAnswers(r) \/ WaitTimeout(r)
  BY <1>1, <1>2, <1>4, <1>7, <1>12
     DEF CheckLimit, CacheRead, CacheWrite, NodeAnswers, WaitTimeout
<1>13. CASE SaveRunning(r) \/ SaveStop(r) \/ Emit(r) \/ Refresh(r) \/ RemoveDir(r) \/ DeleteRows(r)
  BY <1>2, <1>7, <1>13 DEF SaveRunning, SaveStop, Emit, Refresh, RemoveDir, DeleteRows
<1>14. CASE ReqFault(r)
  BY <1>1, <1>2, <1>4, <1>5, <1>6, <1>7, <1>14 DEF ReqFault
<1> QED
  BY <1>1, <1>8, <1>9, <1>10, <1>11, <1>12, <1>13, <1>14
     DEF ReqStep, RestartCheck, RestartStop, RestartStart, RestartVerify

\* Nor does one leave a container in the middle of a restart.
LEMMA RestartStates ==
    ASSUME IInv, NoRestarts, NEW r \in Reqs, ReqStep(r) \/ ReqFault(r), NEW n \in Nodes
    PROVE  ctr'[n].state # "restarting"
<1>1. ctr \in [Nodes -> ContainerType] /\ ctr[n].state # "restarting"
      /\ pc[r] # "restart"
  BY DEF IInv, TypeOK, NoRestarts
<1>2. CASE UNCHANGED ctr
  BY <1>1, <1>2
<1>3. ASSUME NEW m, NEW s \in {"running", "exited"}, SetState(m, s)
      PROVE  ctr'[n].state # "restarting"
  BY <1>1, <1>3 DEF SetState, ContainerType
<1>4. CASE RemovalStop(r) \/ Start(r)
  BY <1>2, <1>3, <1>4 DEF RemovalStop, Start
<1>5. CASE RemovalRemove(r) \/ Create(r)
  BY <1>1, <1>2, <1>5 DEF RemovalRemove, Create, NoContainer
<1>6. CASE RestartStop(r) \/ RestartStart(r)
  BY <1>1, <1>6 DEF RestartStop, RestartStart
<1> QED
  BY <1>2, <1>4, <1>5, <1>6 DEF ReqFault, ReqStep, Load, CheckLimit, Prepare, RemovalInspect,
     InspectNew, CacheRead, CacheWrite, NodeAnswers, WaitTimeout, SaveRunning, SaveStop, Emit,
     RestartCheck, RestartVerify, Refresh, RemoveDir, DeleteRows

\* A container that runs after a step that is no request's ran before it, and
\* was made by the same request.
LEMMA EnvStarts ==
    ASSUME IInv, NoRestarts,
           \/ EnvStep \/ Crash \/ UNCHANGED vars
           \/ \E r \in Reqs : Accept(r)
           \/ \E p \in Passes : CronStep(p) \/ CronFault(p)
    PROVE  /\ \A q \in Reqs, n \in Nodes : OwnRunning(q, n)' => OwnRunning(q, n)
           /\ \A n \in Nodes : ctr'[n].state # "restarting"
<1>1. ctr \in [Nodes -> ContainerType] /\ \A n \in Nodes : ctr[n].state # "restarting"
  BY DEF IInv, TypeOK, NoRestarts
<1>2. CASE UNCHANGED ctr
  BY <1>1, <1>2 DEF OwnRunning, Running
<1>3. CASE \E m \in Nodes : ContainerDies(m)
  BY <1>1, <1>3 DEF ContainerDies, SetState, OwnRunning, Running, ContainerType
<1>4. CASE Crash
  <2>1. \A n \in Nodes : ctr'[n] = ctr[n]
    BY <1>1, <1>4 DEF Crash
  <2> QED
    BY <1>1, <2>1 DEF OwnRunning, Running
<1>5. CASE \E r \in Reqs : Accept(r)
  BY <1>2, <1>5 DEF Accept
<1>6. CASE \E p \in Passes : CronStep(p) \/ CronFault(p)
  BY <1>2, <1>6 DEF CronStep, CronFault, CronFind, CronCheck, CronAllUp, CronUpdate, CronEmit
<1> QED
  BY <1>2, <1>3, <1>4, <1>5, <1>6 DEF EnvStep, CronRefresh, StoreListing, CacheEmptied, vars

LEMMA InitStray == Init => StrayInv
BY ConstantsAssumption DEF Init, StrayInv, NoRestarts, NoJob, NoContainer, OwnRunning, Running

LEMMA StrayStep ==
    ASSUME "restart" \notin Ops, "fault" \notin Mishaps, IInv, StrayInv, [Next]_vars
    PROVE  StrayInv'
<1> USE DEF StrayInv
<1>1. ASSUME NEW r \in Reqs, ReqStep(r) \/ ReqFault(r) PROVE StrayInv'
  <2>1. CalmStep(r)
    BY <1>1 DEF CalmStep, ReqFault, Mishap
  <2>2. \A q \in Reqs, n \in Nodes : OwnRunning(q, n)' => Tracked(q, n)'
    BY <2>1, StepStray
  <2>3. Local(r)
    BY <1>1, ReqStepLocal, ReqFaultLocal DEF IInv
  <2>4. NoRestarts'
    BY <1>1, <2>3, RestartPhases, RestartStates DEF Local, NoRestarts
  <2> QED
    BY <2>2, <2>4
<1>2. ASSUME NEW r \in Reqs, Accept(r) PROVE StrayInv'
  <2>1. PICK o \in Ops, h \in Heads :
          job' = [job EXCEPT ![r] = [NoJob EXCEPT !.op = o, !.head = h]]
    BY <1>2 DEF Accept
  <2>2. pc[r] = "new" /\ pc' = [pc EXCEPT ![r] = "load"]
    BY <1>2 DEF Accept, Goto
  <2>3. pc \in [Reqs -> Phases] /\ job \in [Reqs -> JobType] /\ job'[r].op = o
    BY <2>1 DEF IInv, TypeOK, NoJob
  <2>4. NoRestarts'
    BY <1>2, <2>1, <2>2, <2>3, EnvStarts DEF NoRestarts
  <2>5. ASSUME NEW q \in Reqs, NEW n \in Nodes, OwnRunning(q, n)' PROVE Tracked(q, n)'
    <3>1. Tracked(q, n)
      BY <1>2, <2>5, EnvStarts
    <3>2. q # r
      BY <2>2, <3>1 DEF Tracked, Working
    <3> QED
      BY <2>1, <2>2, <2>3, <3>1, <3>2 DEF Tracked
  <2> QED
    BY <2>4, <2>5
<1>3. CASE Crash
  <2>1. /\ \A q \in Reqs : pc'[q] = IF InFlight(q) THEN "lost" ELSE pc[q]
        /\ \A q \in Reqs : job'[q].op = job[q].op
    BY <1>3 DEF Crash, NoJob
  <2>2. NoRestarts'
    BY <1>3, <2>1, EnvStarts DEF NoRestarts
  <2>3. ASSUME NEW q \in Reqs, NEW n \in Nodes, OwnRunning(q, n)' PROVE Tracked(q, n)'
    <3>1. Tracked(q, n)
      BY <1>3, <2>3, EnvStarts
    <3>2. pc'[q] \in {"done", "lost"}
      BY <2>1, <3>1 DEF Tracked, InFlight, Ended, Working
    <3> QED
      BY <3>2 DEF Tracked
  <2> QED
    BY <2>2, <2>3
<1>4. CASE EnvStep \/ UNCHANGED vars \/ \E p \in Passes : CronStep(p) \/ CronFault(p)
  <2>1. UNCHANGED <<pc, job>>
    BY <1>4 DEF EnvStep, CronRefresh, StoreListing, CacheEmptied, ContainerDies, vars,
       CronStep, CronFault, CronFind, CronCheck, CronAllUp, CronUpdate, CronEmit
  <2>2. /\ \A q \in Reqs, n \in Nodes : OwnRunning(q, n)' => OwnRunning(q, n)
        /\ \A n \in Nodes : ctr'[n].state # "restarting"
    BY <1>4, EnvStarts
  <2>3. NoRestarts'
    BY <2>1, <2>2 DEF NoRestarts
  <2> QED
    BY <2>1, <2>2, <2>3 DEF Tracked
<1> QED
  BY <1>1, <1>2, <1>3, <1>4 DEF Next, EnvStep

\* An activation that failed has left no container of its own running, whatever
\* activations, deactivations and deletions ran beside it, whatever Docker
\* refused, died or crashed: proved where no restart can be asked for (a restart
\* of the same head starts again what the cleanup has stopped) and no call of
\* the cleanup fails (its error is only logged).
THEOREM NoStray ==
    ASSUME "restart" \notin Ops, "fault" \notin Mishaps
    PROVE  Spec => []NoStrayAfterFailure
<1>1. StrayInv => NoStrayAfterFailure
  BY DEF StrayInv, NoStrayAfterFailure, OwnRunning, Tracked, Working
<1> QED
  BY <1>1, InitStray, StrayStep, InductiveInvariant, PTL DEF Spec

------------------------------------------------------------------------------
(* Requests do not run for ever. A handler goes through its phases; in a loop over nodes  *)
(* it has fewer of them left; on one node it has fewer attempts of createContainer left;  *)
(* in an attempt fewer calls. These make a rank that every step of the request lowers,    *)
(* and ranks cannot be lowered for ever.                                                  *)

StagesLeft(p) ==
    CASE p = "new" -> 11
      [] p = "load" -> 10
      [] p \in {"limit", "listed"} -> 9
      [] p = "prepare" -> 8
      [] p \in {"clear", "create", "start", "retry", "inspect", "remove", "restart"} -> 7
      [] p = "cacheRead" -> 6
      [] p = "cacheWrite" -> 5
      [] p = "wait" -> 4
      [] p \in {"cleanup", "verify"} -> 3
      [] p \in {"saveStop", "removeDir", "emit"} -> 2
      [] p \in {"emitFailed", "refresh", "deleteRows"} -> 1
      [] OTHER -> 0

AttemptsLeft(p, j) == IF p = "clear" THEN RetryCount + 1 ELSE RetryCount - j.tries

PartsLeft(p) == CASE p = "clear" -> 3 [] p = "create" -> 2 [] p = "start" -> 1 [] OTHER -> 0

CallsLeft(c) == CASE c = "inspect" -> 2 [] c = "stop" -> 1 [] OTHER -> 0

Fewer(S, T) == S \subseteq T /\ S # T

\* From phase p with locals j to phase q with locals k is a step forward.
Onward(p, j, q, k) ==
    \/ StagesLeft(q) < StagesLeft(p)
    \/ /\ StagesLeft(q) = StagesLeft(p)
       /\ \/ Fewer(k.todo, j.todo)
          \/ /\ k.todo = j.todo
             /\ \/ AttemptsLeft(q, k) < AttemptsLeft(p, j)
                \/ /\ AttemptsLeft(q, k) = AttemptsLeft(p, j)
                   /\ \/ PartsLeft(q) < PartsLeft(p)
                      \/ /\ PartsLeft(q) = PartsLeft(p)
                         /\ \/ CallsLeft(k.call) < CallsLeft(j.call)
                            \/ k.call = j.call /\ Fewer(k.made, j.made)

Forward(r) == Onward(pc[r], job[r], pc'[r], job'[r])

LEMMA StageTable ==
    /\ StagesLeft("load") = 10 /\ StagesLeft("limit") = 9 /\ StagesLeft("listed") = 9
    /\ StagesLeft("prepare") = 8
    /\ \A p \in {"clear", "create", "start", "retry", "inspect", "remove", "restart"} :
         StagesLeft(p) = 7
    /\ StagesLeft("cacheRead") = 6 /\ StagesLeft("cacheWrite") = 5 /\ StagesLeft("wait") = 4
    /\ StagesLeft("cleanup") = 3 /\ StagesLeft("verify") = 3
    /\ StagesLeft("saveStop") = 2 /\ StagesLeft("removeDir") = 2 /\ StagesLeft("emit") = 2
    /\ StagesLeft("emitFailed") = 1 /\ StagesLeft("refresh") = 1
    /\ StagesLeft("deleteRows") = 1
    /\ \A p \in Ended : StagesLeft(p) = 0
    /\ \A p : StagesLeft(p) \in 0 .. 11
<1>1. \A p \in Ended : StagesLeft(p) = 0
  BY DEF StagesLeft, Ended
<1>2. \A p : StagesLeft(p) \in 0 .. 11
  BY DEF StagesLeft
<1> QED
  BY <1>1, <1>2 DEF StagesLeft

\* A step into a later stage, whatever it does to the locals.
LEMMA StageForward ==
    ASSUME TypeOK, NEW r \in Reqs, NEW p, Goto(r, p), StagesLeft(p) < StagesLeft(pc[r])
    PROVE  Forward(r)
BY DEF Forward, Onward, Goto, TypeOK

\* A loop over nodes is entered, goes on with one node less, or is left.
LEMMA VisitForward ==
    ASSUME TypeOK, NEW r \in Reqs, NEW j \in JobType, NEW S, NEW phase, NEW after,
           Visit(r, j, S, phase, after),
           StagesLeft(after) < StagesLeft(pc[r]),
           \/ StagesLeft(phase) < StagesLeft(pc[r])
           \/ StagesLeft(phase) = StagesLeft(pc[r]) /\ S = job[r].todo
    PROVE  Forward(r)
<1>1. CASE Goto(r, after)
  BY <1>1, StageForward
<1>2. CASE \E n \in S :
            /\ Goto(r, phase)
            /\ job' = [job EXCEPT ![r] = [j EXCEPT !.cur = n, !.todo = S \ {n},
                                                  !.call = "inspect"]]
  <2>1. PICK n \in S :
            /\ Goto(r, phase)
            /\ job' = [job EXCEPT ![r] = [j EXCEPT !.cur = n, !.todo = S \ {n},
                                                  !.call = "inspect"]]
    BY <1>2
  <2>2. CASE StagesLeft(phase) < StagesLeft(pc[r])
    BY <2>1, <2>2, StageForward
  <2>3. CASE StagesLeft(phase) = StagesLeft(pc[r]) /\ S = job[r].todo
    <3>1. pc'[r] = phase /\ job'[r].todo = S \ {n}
      BY <2>1 DEF Goto, TypeOK, JobType
    <3> QED
      BY <2>3, <3>1 DEF Forward, Onward, Fewer
  <2> QED
    BY <2>2, <2>3
<1> QED
  BY <1>1, <1>2 DEF Visit

LEMMA FailForward ==
    ASSUME TypeOK, NEW r \in Reqs, Fail(r), StagesLeft(pc[r]) > 3
    PROVE  Forward(r)
<1>1. StagesLeft(pc[r]) \in Nat
  BY StageTable
<1>2. CASE Visit(r, job[r], job[r].made, "cleanup", "saveStop")
  <2>1. StagesLeft("saveStop") < StagesLeft(pc[r]) /\ StagesLeft("cleanup") < StagesLeft(pc[r])
    BY <1>1, StageTable
  <2> QED
    BY <1>2, <2>1, VisitForward, Stay
<1>3. CASE Goto(r, "verify")
  BY <1>1, <1>3, StageForward, StageTable
<1> QED
  BY <1>2, <1>3 DEF Fail

LEMMA FinishForward ==
    ASSUME TypeOK, NEW r \in Reqs, NEW o \in Ended, Finish(r, o), InFlight(r)
    PROVE  Forward(r)
<1>1. StagesLeft(pc[r]) > 0
  BY DEF InFlight, TypeOK, Phases, Ended, StagesLeft
<1> QED
  BY <1>1, StageForward, StageTable DEF Finish

\* The next attempt has one less after it.
LEMMA EndRemovalForward ==
    ASSUME TypeOK, LocalsOK, NEW r \in Reqs, EndRemoval(r)
    PROVE  Forward(r)
<1>0. /\ job[r].tries \in 0 .. RetryCount /\ RetryCount \in Nat
      /\ job[r] \in JobType
  BY ConstantsAssumption DEF TypeOK, JobType
<1>1. CASE pc[r] = "clear" /\ Goto(r, "create") /\ job' = [job EXCEPT ![r].tries = 0]
  <2>1. pc'[r] = "create" /\ job'[r] = [job[r] EXCEPT !.tries = 0]
    BY <1>1 DEF Goto, TypeOK
  <2>2. job'[r].todo = job[r].todo /\ job'[r].tries = 0
    BY <1>0, <2>1 DEF JobType
  <2>3. AttemptsLeft("create", job'[r]) < AttemptsLeft("clear", job[r])
    BY <1>0, <2>2 DEF AttemptsLeft
  <2> QED
    BY <1>1, <2>1, <2>2, <2>3, StageTable DEF Forward, Onward
<1>2. CASE pc[r] = "retry" /\ Goto(r, "create") /\ job' = [job EXCEPT ![r].tries = @ + 1]
  <2>1. pc'[r] = "create" /\ job'[r] = [job[r] EXCEPT !.tries = @ + 1]
    BY <1>2 DEF Goto, TypeOK
  <2>2. job'[r].todo = job[r].todo /\ job'[r].tries = job[r].tries + 1
    BY <1>0, <2>1 DEF JobType
  <2>3. AttemptsLeft("create", job'[r]) < AttemptsLeft("retry", job[r])
    BY <1>0, <2>2 DEF AttemptsLeft
  <2> QED
    BY <1>2, <2>1, <2>2, <2>3, StageTable DEF Forward, Onward
<1>3. CASE pc[r] = "cleanup" /\ Visit(r, job[r], job[r].todo, "cleanup", "saveStop")
  <2>1. StagesLeft("saveStop") < StagesLeft(pc[r])
    BY <1>3, StageTable
  <2> QED
    BY <1>0, <1>3, <2>1, VisitForward
<1>4. CASE /\ pc[r] = "remove"
           /\ Visit(r, job[r], job[r].todo, "remove",
                    IF job[r].op = "delete" THEN "removeDir" ELSE "saveStop")
  <2>1. StagesLeft(IF job[r].op = "delete" THEN "removeDir" ELSE "saveStop") < StagesLeft(pc[r])
    BY <1>4, StageTable
  <2> QED
    BY <1>0, <1>4, <2>1, VisitForward
<1> QED
  BY <1>1, <1>2, <1>3, <1>4 DEF EndRemoval

LEMMA AttemptForward ==
    ASSUME TypeOK, NEW r \in Reqs, pc[r] \in {"create", "start"}, AttemptFails(r)
    PROVE  Forward(r)
<1>1. CASE Goto(r, "retry") /\ job' = [job EXCEPT ![r].call = "inspect"]
  <2>1. pc'[r] = "retry" /\ job'[r].todo = job[r].todo /\ job'[r].tries = job[r].tries
    BY <1>1 DEF Goto, TypeOK, JobType
  <2>2. AttemptsLeft("retry", job'[r]) = AttemptsLeft(pc[r], job[r])
    BY <2>1 DEF AttemptsLeft
  <2>3. PartsLeft("retry") < PartsLeft(pc[r])
    BY DEF PartsLeft
  <2>4. StagesLeft("retry") = StagesLeft(pc[r])
    BY StageTable
  <2> QED
    BY <2>1, <2>2, <2>3, <2>4 DEF Forward, Onward
<1>2. CASE Fail(r)
  BY <1>2, FailForward, StageTable
<1> QED
  BY <1>1, <1>2 DEF AttemptFails

LEMMA CallForward ==
    ASSUME TypeOK, NEW r \in Reqs, NEW c \in {"stop", "remove"}, NextCall(r, c),
           CallsLeft(c) < CallsLeft(job[r].call)
    PROVE  Forward(r)
<1>1. /\ pc'[r] = pc[r] /\ job'[r].todo = job[r].todo /\ job'[r].tries = job[r].tries
      /\ job'[r].call = c
  BY DEF NextCall, TypeOK, JobType
<1>2. AttemptsLeft(pc'[r], job'[r]) = AttemptsLeft(pc[r], job[r])
  BY <1>1 DEF AttemptsLeft
<1> QED
  BY <1>1, <1>2 DEF Forward, Onward

\* A step within a phase that takes a node off the list.
LEMMA TodoForward ==
    ASSUME TypeOK, NEW r \in Reqs, UNCHANGED pc, Fewer(job'[r].todo, job[r].todo)
    PROVE  Forward(r)
BY DEF Forward, Onward

\* A step that keeps the phase and the list, and takes a node off the other one.
LEMMA MadeForward ==
    ASSUME TypeOK, NEW r \in Reqs, UNCHANGED pc, NEW e \in JobType,
           job' = [job EXCEPT ![r] = e],
           e.todo = job[r].todo, e.tries = job[r].tries, e.call = job[r].call,
           Fewer(e.made, job[r].made)
    PROVE  Forward(r)
<1>1. pc'[r] = pc[r] /\ job'[r] = e
  BY DEF TypeOK
<1>2. AttemptsLeft(pc'[r], e) = AttemptsLeft(pc[r], job[r])
  BY <1>1 DEF AttemptsLeft
<1> QED
  BY <1>1, <1>2 DEF Forward, Onward

LEMMA ReqStepForward ==
    ASSUME TypeOK, LocalsOK, NEW r \in Reqs, ReqStep(r)
    PROVE  Forward(r)
<1> USE StageTable
<1>0. InFlight(r) /\ job[r] \in JobType
  BY ReqInFlight DEF TypeOK
<1>e. \A o \in {"done", "failed", "rejected"} : Finish(r, o) => Forward(r)
  BY <1>0, FinishForward, PhaseFacts
<1>1. CASE Load(r)
  <2> DEFINE h == HeadOf(r)
             j == [job[r] EXCEPT !.nodes = IF h \in nodeRows THEN NodesOf[h] ELSE {},
                                 !.status = row[h]]
  <2>1. h \in Heads /\ pc[r] = "load"
    BY <1>1 DEF Load, LocalsOK, InFlight, Ended
  <2>2. (IF h \in nodeRows THEN NodesOf[h] ELSE {}) \in SUBSET Nodes /\ row[h] \in Statuses
    BY <2>1, NodesAssumption DEF TypeOK, Statuses
  <2> HIDE DEF h
  <2>3. j \in JobType
    BY <1>0, <2>2 DEF JobType
  <2> HIDE DEF j
  <2>4. CASE \E p \in {"limit", "listed"} : Goto(r, p)
    BY <2>1, <2>4, StageForward
  <2>5. CASE Visit(r, j, j.nodes, "remove", "saveStop")
    BY <2>1, <2>3, <2>5, VisitForward
  <2>6. CASE Visit(r, j, j.nodes, "remove", "removeDir")
    BY <2>1, <2>3, <2>6, VisitForward
  <2> QED
    BY <1>1, <1>e, <2>4, <2>5, <2>6 DEF Load, h, j
<1>2. CASE CheckLimit(r)
  BY <1>2, <1>e, StageForward DEF CheckLimit
<1>3. CASE Prepare(r)
  BY <1>0, <1>3, <1>e, VisitForward DEF Prepare
<1>4. CASE RemovalInspect(r)
  BY <1>4, CallForward, EndRemovalForward DEF RemovalInspect, CallsLeft
<1>5. CASE RemovalStop(r)
  BY <1>5, CallForward, EndRemovalForward DEF RemovalStop, CallsLeft
<1>6. CASE RemovalRemove(r)
  BY <1>6, EndRemovalForward DEF RemovalRemove
<1>7. CASE Create(r)
  <2>1. CASE Goto(r, "start") /\ UNCHANGED job
    <3>1. pc[r] = "create" /\ pc'[r] = "start" /\ job'[r] = job[r]
      BY <1>7, <2>1 DEF Create, Goto, TypeOK
    <3>2. AttemptsLeft("start", job[r]) = AttemptsLeft("create", job[r])
      BY DEF AttemptsLeft
    <3>3. PartsLeft("start") < PartsLeft("create")
      BY DEF PartsLeft
    <3> QED
      BY <3>1, <3>2, <3>3 DEF Forward, Onward
  <2> QED
    BY <1>7, <2>1, AttemptForward DEF Create
<1>8. CASE Start(r)
  <2>1. CASE /\ Goto(r, "inspect")
             /\ job' = [job EXCEPT ![r].made = @ \cup {job[r].cur}]
    <3>1. /\ pc[r] = "start" /\ pc'[r] = "inspect" /\ job'[r].todo = job[r].todo
          /\ job'[r].tries = job[r].tries
      BY <1>0, <1>8, <2>1 DEF Start, Goto, TypeOK, JobType
    <3>2. AttemptsLeft("inspect", job'[r]) = AttemptsLeft("start", job[r])
      BY <3>1 DEF AttemptsLeft
    <3>3. PartsLeft("inspect") < PartsLeft("start")
      BY DEF PartsLeft
    <3> QED
      BY <3>1, <3>2, <3>3 DEF Forward, Onward
  <2> QED
    BY <1>8, <2>1, AttemptForward DEF Start
<1>9. CASE InspectNew(r)
  BY <1>0, <1>9, VisitForward, FailForward DEF InspectNew
<1>10. CASE CacheRead(r)
  BY <1>10, StageForward DEF CacheRead
<1>11. CASE CacheWrite(r)
  BY <1>11, StageForward, FailForward DEF CacheWrite
<1>12. CASE NodeAnswers(r)
  <2>1. PICK n \in job[r].todo : job' = [job EXCEPT ![r].todo = @ \ {n}]
    BY <1>12 DEF NodeAnswers
  <2>2. Fewer(job'[r].todo, job[r].todo)
    BY <1>0, <2>1 DEF Fewer, TypeOK, JobType
  <2> QED
    BY <1>12, <2>2, TodoForward DEF NodeAnswers
<1>13. CASE WaitTimeout(r)
  BY <1>13, FailForward DEF WaitTimeout
<1>14. CASE SaveRunning(r)
  BY <1>14, StageForward DEF SaveRunning
<1>15. CASE SaveStop(r)
  BY <1>15, StageForward DEF SaveStop
<1>16. CASE Emit(r)
  BY <1>16, <1>e DEF Emit
<1>17. CASE RestartCheck(r)
  BY <1>17, <1>e, StageForward DEF RestartCheck
<1>18. CASE RestartStop(r)
  <2>1. PICK n \in job[r].todo :
           \/ job' = [job EXCEPT ![r].todo = @ \ {n}, ![r].made = @ \cup {n}]
           \/ job' = [job EXCEPT ![r].todo = @ \ {n}]
    BY <1>18 DEF RestartStop
  <2>2. job'[r].todo = job[r].todo \ {n}
    BY <1>0, <2>1 DEF TypeOK, JobType
  <2> QED
    BY <1>18, <2>2, TodoForward DEF RestartStop, Fewer
<1>19. CASE RestartStart(r)
  <2>1. PICK n \in job[r].made : job' = [job EXCEPT ![r].made = @ \ {n}]
    BY <1>19 DEF RestartStart
  <2> DEFINE e == [job[r] EXCEPT !.made = @ \ {n}]
  <2>2. /\ e \in JobType /\ e.todo = job[r].todo /\ e.tries = job[r].tries
        /\ e.call = job[r].call /\ Fewer(e.made, job[r].made)
    BY <1>0 DEF JobType, Fewer
  <2>3. job' = [job EXCEPT ![r] = e]
    BY <2>1
  <2> QED
    BY <1>19, <2>2, <2>3, MadeForward DEF RestartStart
<1>20. CASE RestartVerify(r)
  <2>1. CASE \E p \in {"emitFailed", "saveStop"} : Goto(r, p)
    BY <1>20, <2>1, StageForward DEF RestartVerify
  <2>2. CASE UNCHANGED pc /\ \E n \in job[r].todo : job' = [job EXCEPT ![r].todo = @ \ {n}]
    <3>1. PICK n \in job[r].todo : job' = [job EXCEPT ![r].todo = @ \ {n}]
      BY <2>2
    <3>2. Fewer(job'[r].todo, job[r].todo)
      BY <1>0, <3>1 DEF Fewer, TypeOK, JobType
    <3> QED
      BY <2>2, <3>2, TodoForward
  <2> QED
    BY <1>20, <2>1, <2>2 DEF RestartVerify
<1>21. CASE Refresh(r)
  BY <1>21, <1>e DEF Refresh
<1>22. CASE RemoveDir(r)
  BY <1>22, StageForward DEF RemoveDir
<1>23. CASE DeleteRows(r)
  BY <1>23, <1>e DEF DeleteRows
<1> QED
  BY <1>1, <1>2, <1>3, <1>4, <1>5, <1>6, <1>7, <1>8, <1>9, <1>10, <1>11, <1>12, <1>13, <1>14,
     <1>15, <1>16, <1>17, <1>18, <1>19, <1>20, <1>21, <1>22, <1>23 DEF ReqStep

\* Nor does a call that fails set a request back.
LEMMA ReqFaultForward ==
    ASSUME TypeOK, LocalsOK, NEW r \in Reqs, ReqFault(r)
    PROVE  Forward(r)
<1> USE StageTable
<1>0. InFlight(r) /\ job[r] \in JobType
  BY ReqInFlight DEF TypeOK
<1>1. CASE pc[r] \in {"create", "start"} /\ AttemptFails(r)
  BY <1>1, AttemptForward
<1>2. CASE \E o \in {"rejected", "failed"} : Finish(r, o)
  BY <1>0, <1>2, FinishForward, PhaseFacts
<1>3. CASE EndRemoval(r)
  BY <1>3, EndRemovalForward
<1>4. CASE pc[r] \in {"inspect", "cacheWrite", "wait"} /\ Fail(r)
  BY <1>4, FailForward
<1>5. CASE \/ pc[r] = "removeDir" /\ Goto(r, "deleteRows")
           \/ pc[r] = "verify" /\ Goto(r, "saveStop")
  BY <1>5, StageForward
<1>6. CASE /\ pc[r] = "restart" /\ UNCHANGED pc
           /\ \E n \in job[r].todo \cup job[r].made :
              job' = [job EXCEPT ![r].todo = @ \ {n}, ![r].made = @ \ {n}]
  <2>1. PICK n \in job[r].todo \cup job[r].made :
              job' = [job EXCEPT ![r].todo = @ \ {n}, ![r].made = @ \ {n}]
    BY <1>6
  <2> DEFINE e == [job[r] EXCEPT !.todo = @ \ {n}, !.made = @ \ {n}]
  <2>2. /\ e \in JobType /\ e.todo = job[r].todo \ {n} /\ e.made = job[r].made \ {n}
        /\ e.tries = job[r].tries /\ e.call = job[r].call
    BY <1>0 DEF JobType
  <2>3. job' = [job EXCEPT ![r] = e] /\ job'[r] = e
    BY <2>1 DEF TypeOK, JobType
  <2> HIDE DEF e
  <2>4. CASE n \in job[r].todo
    BY <1>6, <2>2, <2>3, <2>4, TodoForward DEF Fewer
  <2>5. CASE n \notin job[r].todo
    <3>1. job[r].todo \ {n} = job[r].todo /\ n \in job[r].made
      BY <2>1, <2>5
    <3>2. Fewer(e.made, job[r].made) /\ e.todo = job[r].todo
      BY <2>2, <3>1 DEF Fewer
    <3> QED
      BY <1>6, <2>2, <2>3, <3>2, MadeForward
  <2> QED
    BY <2>4, <2>5
<1> QED
  BY <1>1, <1>2, <1>3, <1>4, <1>5, <1>6 DEF ReqFault

\* What is left of a request, as six numbers, the first of which counts most.
Left(p, j) ==
    [i \in 1 .. 6 |->
        CASE i = 1 -> StagesLeft(p)
          [] i = 2 -> Cardinality(j.todo)
          [] i = 3 -> AttemptsLeft(p, j)
          [] i = 4 -> PartsLeft(p)
          [] i = 5 -> CallsLeft(j.call)
          [] i = 6 -> Cardinality(j.made)]

Less == {ss \in Nat \X Nat : ss[1] < ss[2]}

\* The smaller and the larger of two such ranks.
Lower == LexProductOrdering(Less, Nat, 6)

\* There is no infinite sequence of ranks, each one lower than the one before.
LEMMA LowerEnds == IsWellFoundedOn(Lower, [1 .. 6 -> Nat])
<1>1. Less = OpToRel(<, Nat)
  BY DEF Less, OpToRel
<1>2. IsWellFoundedOn(Less, Nat)
  BY <1>1, NatLessThanWellFounded
<1> QED
  BY <1>2, WFLexProductOrdering DEF Lower

LEMMA FewerCount ==
    ASSUME NEW S \in SUBSET Nodes, NEW T \in SUBSET Nodes
    PROVE  /\ Cardinality(S) \in Nat
           /\ Fewer(S, T) => Cardinality(S) < Cardinality(T)
<1>1. IsFiniteSet(S) /\ IsFiniteSet(T)
  BY NodesAssumption, FS_Subset
<1>2. Cardinality(S) \in Nat /\ Cardinality(T) \in Nat
  BY <1>1, FS_CardinalityType
<1>3. Fewer(S, T) => Cardinality(S) <= Cardinality(T) /\ Cardinality(S) # Cardinality(T)
  BY <1>1, FS_Subset DEF Fewer
<1> QED
  BY <1>2, <1>3

LEMMA LeftType ==
    ASSUME NEW p \in Phases, NEW j \in JobType
    PROVE  Left(p, j) \in [1 .. 6 -> Nat]
<1>1. StagesLeft(p) \in Nat
  BY StageTable
<1>2. Cardinality(j.todo) \in Nat /\ Cardinality(j.made) \in Nat
  BY FewerCount DEF JobType
<1>3. AttemptsLeft(p, j) \in Nat
  BY ConstantsAssumption DEF AttemptsLeft, JobType
<1>4. PartsLeft(p) \in Nat /\ CallsLeft(j.call) \in Nat
  BY DEF PartsLeft, CallsLeft
<1> QED
  BY <1>1, <1>2, <1>3, <1>4 DEF Left

LEMMA OnwardLower ==
    ASSUME NEW p \in Phases, NEW j \in JobType, NEW q \in Phases, NEW k \in JobType,
           Onward(p, j, q, k)
    PROVE  <<Left(q, k), Left(p, j)>> \in Lower
<1> DEFINE x == Left(p, j)  y == Left(q, k)
<1>1. x \in [1 .. 6 -> Nat] /\ y \in [1 .. 6 -> Nat]
  BY LeftType
<1>2. SUFFICES \E n \in 1 .. 6 : y[n] < x[n] /\ \A i \in 1 .. (n - 1) : y[i] = x[i]
  <2>1. PICK n \in 1 .. 6 : y[n] < x[n] /\ \A i \in 1 .. (n - 1) : y[i] = x[i]
    BY <1>2
  <2>2. <<y[n], x[n]>> \in Less
    BY <1>1, <2>1 DEF Less
  <2> HIDE DEF x, y
  <2>3. <<y, x>> \in Lower
    BY <1>1, <2>1, <2>2 DEF Lower, LexProductOrdering
  <2> QED
    BY <2>3 DEF x, y
<1>3. /\ x[1] = StagesLeft(p) /\ y[1] = StagesLeft(q)
      /\ x[2] = Cardinality(j.todo) /\ y[2] = Cardinality(k.todo)
      /\ x[3] = AttemptsLeft(p, j) /\ y[3] = AttemptsLeft(q, k)
      /\ x[4] = PartsLeft(p) /\ y[4] = PartsLeft(q)
      /\ x[5] = CallsLeft(j.call) /\ y[5] = CallsLeft(k.call)
      /\ x[6] = Cardinality(j.made) /\ y[6] = Cardinality(k.made)
  BY DEF Left
<1>4. /\ j.todo \in SUBSET Nodes /\ k.todo \in SUBSET Nodes
      /\ j.made \in SUBSET Nodes /\ k.made \in SUBSET Nodes
  BY DEF JobType
<1>5. /\ Fewer(k.todo, j.todo) => y[2] < x[2]
      /\ k.todo = j.todo => y[2] = x[2]
      /\ Fewer(k.made, j.made) => y[6] < x[6]
      /\ k.call = j.call => y[5] = x[5]
  BY <1>3, <1>4, FewerCount
<1> HIDE DEF x, y
<1>6. \/ y[1] < x[1]
      \/ y[1] = x[1] /\ y[2] < x[2]
      \/ y[1] = x[1] /\ y[2] = x[2] /\ y[3] < x[3]
      \/ y[1] = x[1] /\ y[2] = x[2] /\ y[3] = x[3] /\ y[4] < x[4]
      \/ y[1] = x[1] /\ y[2] = x[2] /\ y[3] = x[3] /\ y[4] = x[4] /\ y[5] < x[5]
      \/ /\ y[1] = x[1] /\ y[2] = x[2] /\ y[3] = x[3] /\ y[4] = x[4] /\ y[5] = x[5]
         /\ y[6] < x[6]
  BY <1>3, <1>5 DEF Onward
<1> QED
  BY <1>6

Moved(r) == <<pc'[r], job'[r]>> # <<pc[r], job[r]>>

\* Every step that a request in flight takes lowers what is left of it, whatever the
\* others do and whatever fails: it can wait, but not go round in circles. Only a crash
\* takes it elsewhere, to its end.
RequestsGetOn ==
    [][\A r \in Reqs : InFlight(r) /\ Moved(r) =>
         \/ <<Left(pc'[r], job'[r]), Left(pc[r], job[r])>> \in Lower
         \/ pc'[r] = "lost"]_vars

\* Requests get on, in ranks that cannot be lowered for ever: with the answers of its
\* calls, each request comes to its end after finitely many steps.
THEOREM RequestsTerminate ==
    /\ IsWellFoundedOn(Lower, [1 .. 6 -> Nat])
    /\ \A p \in Phases, j \in JobType : Left(p, j) \in [1 .. 6 -> Nat]
    /\ Spec => RequestsGetOn
<1> DEFINE A == \A r \in Reqs : InFlight(r) /\ Moved(r) =>
                  \/ <<Left(pc'[r], job'[r]), Left(pc[r], job[r])>> \in Lower
                  \/ pc'[r] = "lost"
<1>1. IInv /\ [Next]_vars => [A]_vars
  <2> SUFFICES ASSUME IInv, [Next]_vars, NEW r \in Reqs, InFlight(r), Moved(r)
               PROVE  \/ <<Left(pc'[r], job'[r]), Left(pc[r], job[r])>> \in Lower
                      \/ pc'[r] = "lost"
    OBVIOUS
  <2>1. /\ pc[r] \in Phases /\ job[r] \in JobType
        /\ pc'[r] \in Phases /\ job'[r] \in JobType
    BY NextIInv DEF IInv, TypeOK
  <2>2. CASE Accept(r)
    BY <2>2 DEF Accept, InFlight, Ended
  <2>3. CASE Crash
    BY <2>3 DEF Crash
  <2>4. CASE ReqStep(r) \/ ReqFault(r)
    <3>1. Forward(r)
      BY <2>4, ReqStepForward, ReqFaultForward DEF IInv
    <3> QED
      BY <2>1, <3>1, OnwardLower DEF Forward
  <2> QED
    BY <2>2, <2>3, <2>4, OnlyOwnSteps DEF Moved
<1>2. Spec => RequestsGetOn
  BY <1>1, InductiveInvariant, PTL DEF Spec, RequestsGetOn
<1> QED
  BY <1>2, LowerEnds, LeftType

------------------------------------------------------------------------------
(* Nor do passes of the health check: a pass has fewer heads left, or on one head fewer   *)
(* nodes, or on one head that is down only its announcement.                              *)

PassLeft(c) ==
    [i \in 1 .. 4 |->
        CASE i = 1 -> (IF c.pc = "idle" THEN 0 ELSE 1)
          [] i = 2 -> Cardinality(c.heads)
          [] i = 3 -> Cardinality(c.todo)
          [] i = 4 -> (IF c.pc = "check" THEN 1 ELSE 0)]

PassLower == LexProductOrdering(Less, Nat, 4)

LEMMA PassLowerEnds == IsWellFoundedOn(PassLower, [1 .. 4 -> Nat])
<1>1. Less = OpToRel(<, Nat)
  BY DEF Less, OpToRel
<1>2. IsWellFoundedOn(Less, Nat)
  BY <1>1, NatLessThanWellFounded
<1> QED
  BY <1>2, WFLexProductOrdering DEF PassLower

\* Heads have nodes of their own, so that there are no more heads than sets of nodes.
LEMMA HeadsFinite == IsFiniteSet(Heads)
<1>1. IsFiniteSet(SUBSET Nodes)
  BY NodesAssumption, FS_SUBSET
<1>2. NodesOf \in [Heads -> SUBSET Nodes]
  BY NodesAssumption
<1>3. \A g, h \in Heads : NodesOf[g] = NodesOf[h] => g = h
  BY NodesAssumption
<1>4. NodesOf \in Injection(Heads, SUBSET Nodes)
  BY <1>2, <1>3 DEF Injection, IsInjective
<1> QED
  BY <1>1, <1>4, FS_Injection

LEMMA FewerHeads ==
    ASSUME NEW S \in SUBSET Heads, NEW T \in SUBSET Heads
    PROVE  /\ Cardinality(S) \in Nat
           /\ Fewer(S, T) => Cardinality(S) < Cardinality(T)
<1>1. IsFiniteSet(S) /\ IsFiniteSet(T)
  BY HeadsFinite, FS_Subset
<1>2. Cardinality(S) \in Nat /\ Cardinality(T) \in Nat
  BY <1>1, FS_CardinalityType
<1>3. Fewer(S, T) => Cardinality(S) <= Cardinality(T) /\ Cardinality(S) # Cardinality(T)
  BY <1>1, FS_Subset DEF Fewer
<1> QED
  BY <1>2, <1>3

LEMMA PassLeftType == \A c \in CronType : PassLeft(c) \in [1 .. 4 -> Nat]
<1> SUFFICES ASSUME NEW c \in CronType PROVE PassLeft(c) \in [1 .. 4 -> Nat]
  OBVIOUS
<1>1. Cardinality(c.heads) \in Nat /\ Cardinality(c.todo) \in Nat
  BY FewerHeads, FewerCount DEF CronType
<1> QED
  BY <1>1 DEF PassLeft

\* From c to d is a step forward.
PassOnward(c, d) ==
    /\ c.pc # "idle"
    /\ \/ d.pc = "idle"
       \/ Fewer(d.heads, c.heads)
       \/ d.heads = c.heads /\ Fewer(d.todo, c.todo)
       \/ d.heads = c.heads /\ d.todo = c.todo /\ c.pc = "check" /\ d.pc = "emit"

LEMMA PassOnwardLower ==
    ASSUME NEW c \in CronType, NEW d \in CronType, PassOnward(c, d)
    PROVE  <<PassLeft(d), PassLeft(c)>> \in PassLower
<1> DEFINE x == PassLeft(c)  y == PassLeft(d)
<1>1. x \in [1 .. 4 -> Nat] /\ y \in [1 .. 4 -> Nat]
  BY PassLeftType
<1>2. /\ x[1] = 1 /\ y[1] = IF d.pc = "idle" THEN 0 ELSE 1
      /\ x[2] = Cardinality(c.heads) /\ y[2] = Cardinality(d.heads)
      /\ x[3] = Cardinality(c.todo) /\ y[3] = Cardinality(d.todo)
      /\ x[4] = (IF c.pc = "check" THEN 1 ELSE 0) /\ y[4] = (IF d.pc = "check" THEN 1 ELSE 0)
  BY DEF PassLeft, PassOnward
<1>3. /\ Fewer(d.heads, c.heads) => y[2] < x[2]
      /\ d.heads = c.heads => y[2] = x[2]
      /\ Fewer(d.todo, c.todo) => y[3] < x[3]
      /\ d.todo = c.todo => y[3] = x[3]
  <2>1. /\ c.heads \in SUBSET Heads /\ d.heads \in SUBSET Heads
        /\ c.todo \in SUBSET Nodes /\ d.todo \in SUBSET Nodes
    BY DEF CronType
  <2> QED
    BY <1>2, <2>1, FewerHeads, FewerCount
<1> HIDE DEF x, y
<1>4. \/ y[1] < x[1]
      \/ y[1] = x[1] /\ y[2] < x[2]
      \/ y[1] = x[1] /\ y[2] = x[2] /\ y[3] < x[3]
      \/ y[1] = x[1] /\ y[2] = x[2] /\ y[3] = x[3] /\ y[4] < x[4]
  BY <1>2, <1>3 DEF PassOnward
<1>5. PICK n \in 1 .. 4 : y[n] < x[n] /\ \A i \in 1 .. (n - 1) : y[i] = x[i]
  BY <1>4
<1>6. <<y[n], x[n]>> \in Less
  BY <1>1, <1>5 DEF Less
<1>7. <<y, x>> \in PassLower
  BY <1>1, <1>5, <1>6 DEF PassLower, LexProductOrdering
<1> QED
  BY <1>7 DEF x, y

LEMMA CronOnward ==
    ASSUME TypeOK, NEW p \in Passes, cron[p].pc # "idle", CronStep(p) \/ CronFault(p)
    PROVE  PassOnward(cron[p], cron'[p])
<1>1. cron[p] \in CronType
  BY DEF TypeOK
<1>2. CASE NextHead(p, cron[p].heads)
  <2>1. CASE cron' = [cron EXCEPT ![p] = Idle]
    BY <2>1 DEF TypeOK, PassOnward, Idle
  <2>2. CASE \E h \in cron[p].heads :
               cron' = [cron EXCEPT ![p] = [pc |-> "check", heads |-> cron[p].heads \ {h},
                                            head |-> h, todo |-> NodesOf[h], down |-> {}]]
    <3>1. PICK h \in cron[p].heads : cron'[p].heads = cron[p].heads \ {h}
      BY <2>2 DEF TypeOK
    <3> QED
      BY <3>1 DEF PassOnward, Fewer
  <2> QED
    BY <1>2, <2>1, <2>2 DEF NextHead
<1>3. ASSUME NEW n \in cron[p].todo, NEW D,
             cron' = [cron EXCEPT ![p] = [cron[p] EXCEPT !.todo = @ \ {n}, !.down = D]]
      PROVE  PassOnward(cron[p], cron'[p])
  <2>1. cron'[p].heads = cron[p].heads /\ cron'[p].todo = cron[p].todo \ {n}
    BY <1>1, <1>3 DEF TypeOK, CronType
  <2> QED
    BY <2>1 DEF PassOnward, Fewer
<1>4. CASE CronCheck(p)
  <2>1. PICK n \in cron[p].todo :
          cron' = [cron EXCEPT ![p].todo = @ \ {n},
                               ![p].down = IF Running(n) THEN @ ELSE @ \cup {n}]
    BY <1>4 DEF CronCheck
  <2> DEFINE D == IF Running(n) THEN cron[p].down ELSE cron[p].down \cup {n}
  <2>2. cron' = [cron EXCEPT ![p] = [cron[p] EXCEPT !.todo = @ \ {n}, !.down = D]]
    BY <1>1, <2>1 DEF TypeOK, CronType
  <2> HIDE DEF D
  <2> QED
    BY <1>3, <2>2
<1>5. CASE CronUpdate(p)
  <2>1. /\ cron[p].pc = "check" /\ cron'[p].pc = "emit"
        /\ cron'[p].heads = cron[p].heads /\ cron'[p].todo = cron[p].todo
    BY <1>1, <1>5 DEF CronUpdate, TypeOK, CronType
  <2> QED
    BY <2>1 DEF PassOnward
<1>6. CASE CronFault(p)
  <2>1. CASE \E n \in cron[p].todo :
               cron' = [cron EXCEPT ![p].todo = @ \ {n}, ![p].down = @ \cup {n}]
    <3>1. PICK n \in cron[p].todo :
            cron' = [cron EXCEPT ![p].todo = @ \ {n}, ![p].down = @ \cup {n}]
      BY <2>1
    <3>2. cron' = [cron EXCEPT ![p] =
                     [cron[p] EXCEPT !.todo = @ \ {n}, !.down = cron[p].down \cup {n}]]
      BY <1>1, <3>1 DEF TypeOK, CronType
    <3> QED
      BY <1>3, <3>2
  <2> QED
    BY <1>2, <1>6, <2>1 DEF CronFault
<1>7. CASE CronFind(p)
  BY <1>7 DEF CronFind
<1> QED
  BY <1>2, <1>4, <1>5, <1>6, <1>7 DEF CronStep, CronAllUp, CronEmit

\* Every step of a pass that has found heads to check lowers what is left of it, whatever
\* the commands do to those heads meanwhile; only a crash ends it early.
PassesGetOn ==
    [][\A p \in Passes : cron[p].pc # "idle" /\ cron'[p] # cron[p] =>
         \/ <<PassLeft(cron'[p]), PassLeft(cron[p])>> \in PassLower
         \/ cron'[p] = Idle]_vars

\* Passes get on, in ranks that cannot be lowered for ever: with the answers of its calls,
\* each pass of the health check comes to its end, however many heads it walks.
THEOREM PassesTerminate ==
    /\ IsWellFoundedOn(PassLower, [1 .. 4 -> Nat])
    /\ \A c \in CronType : PassLeft(c) \in [1 .. 4 -> Nat]
    /\ Spec => PassesGetOn
<1> DEFINE A == \A p \in Passes : cron[p].pc # "idle" /\ cron'[p] # cron[p] =>
                  \/ <<PassLeft(cron'[p]), PassLeft(cron[p])>> \in PassLower
                  \/ cron'[p] = Idle
<1>1. IInv /\ [Next]_vars => [A]_vars
  <2> SUFFICES ASSUME IInv, [Next]_vars, NEW p \in Passes,
                      cron[p].pc # "idle", cron'[p] # cron[p]
               PROVE  \/ <<PassLeft(cron'[p]), PassLeft(cron[p])>> \in PassLower
                      \/ cron'[p] = Idle
    OBVIOUS
  <2>1. cron[p] \in CronType /\ cron'[p] \in CronType
    BY NextIInv DEF IInv, TypeOK
  <2>2. ASSUME NEW q \in Passes, CronStep(q) \/ CronFault(q), q # p PROVE cron'[p] = cron[p]
    BY <2>2 DEF IInv, TypeOK, CronStep, CronFault, CronFind, CronCheck, CronAllUp, CronUpdate,
       CronEmit, NextHead
  <2>3. CASE CronStep(p) \/ CronFault(p)
    BY <2>1, <2>3, CronOnward, PassOnwardLower DEF IInv
  <2>4. CASE Crash
    BY <2>4 DEF Crash
  <2>5. ASSUME NEW r \in Reqs, Accept(r) \/ ReqStep(r) \/ ReqFault(r) PROVE UNCHANGED cron
    BY <2>5 DEF Accept, ReqStep, ReqFault, Load, CheckLimit, Prepare, RemovalInspect,
       RemovalStop, RemovalRemove, Create, Start, InspectNew, CacheRead, CacheWrite,
       NodeAnswers, WaitTimeout, SaveRunning, SaveStop, Emit, RestartCheck, RestartStop,
       RestartStart, RestartVerify, Refresh, RemoveDir, DeleteRows
  <2>6. EnvStep \/ UNCHANGED vars => UNCHANGED cron
    BY DEF EnvStep, CronRefresh, StoreListing, CacheEmptied, ContainerDies, vars
  <2> QED
    BY <2>2, <2>3, <2>4, <2>5, <2>6 DEF Next, EnvStep
<1>2. Spec => PassesGetOn
  BY <1>1, InductiveInvariant, PTL DEF Spec, PassesGetOn
<1> QED
  BY <1>2, PassLowerEnds, PassLeftType
=============================================================================
