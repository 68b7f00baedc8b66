---------------------------- MODULE MetricsProofs ----------------------------
(***************************************************************************)
(* Proofs about the way of the metrics: RabbitMqClient for every set of    *)
(* connections, any number of mishaps, and with or without a call of       *)
(* app.close(); and MonitoringAgent beside it, for any number of           *)
(* overlapping ticks.                                                      *)
(***************************************************************************)
EXTENDS MonitoringAgent, TLAPS

Live(c) == wire[c] \in {"open", "closed"}

\* Before the start nothing is under way.
NewOK == module = "new" => phase = "idle" /\ ~timer /\ handled = {}

\* connect() and its timer exclude each other.
AttemptOK == phase # "idle" => ~timer

\* The setup works on the connection that connect() has dialled.
SetupOK == phase = "topology" => channel = connection

\* A connection with handlers was made once; while it is live it is the one in
\* the field, and nobody is about to replace it.
WatchedOK ==
    \A c \in handled :
        /\ wire[c] # "unused"
        /\ Live(c) => connection = c /\ phase = "idle" /\ ~timer

IInv ==
    /\ ClientTypeOK
    /\ NewOK /\ AttemptOK /\ SetupOK /\ WatchedOK
    /\ SomebodyReconnects

USE ConnsAssumption DEF Live

LEMMA InitIInv == Init => IInv
<1> SUFFICES ASSUME Init PROVE IInv
  OBVIOUS
<1>1. ClientTypeOK
  <2>1. wire \in [Conns -> {"unused", "open", "closed", "gone"}]
    BY DEF Init
  <2>2. mishaps \in 0 .. MaxMishaps
    BY DEF Init
  <2>3. /\ timer \in BOOLEAN /\ handled \subseteq Conns /\ shut \subseteq Conns
        /\ connection \in Conns \cup {None} /\ channel \in Conns \cup {None}
    BY DEF Init
  <2>4. module = "new" /\ phase = "idle"
    BY DEF Init
  <2> QED
    BY <2>1, <2>2, <2>3, <2>4 DEF ClientTypeOK
<1>2. NewOK /\ AttemptOK /\ SetupOK /\ WatchedOK /\ SomebodyReconnects
  BY DEF Init, NewOK, AttemptOK, SetupOK, WatchedOK, SomebodyReconnects
<1> QED
  BY <1>1, <1>2 DEF IInv

LEMMA NextIInv == IInv /\ [ClientNext]_clientVars => IInv'
<1> SUFFICES ASSUME IInv, [ClientNext]_clientVars PROVE IInv'
  OBVIOUS
<1> USE DEF IInv, ClientTypeOK, NewOK, AttemptOK, SetupOK, WatchedOK, SomebodyReconnects, Live,
            local, remote
<1>1. CASE ModuleInit
  BY <1>1 DEF ModuleInit
<1>2. CASE TimerFires
  BY <1>2 DEF TimerFires
<1>3. CASE ConnectStep
  <2>1. ASSUME NEW c \in Conns, DialSucceeds(c) PROVE IInv'
    <3>1. wire' \in [Conns -> {"unused", "open", "closed", "gone"}]
      BY <2>1 DEF DialSucceeds
    <3>2. ClientTypeOK'
      BY <2>1, <3>1 DEF DialSucceeds
    <3>3. \A d \in handled : ~Live(d)
      BY <2>1 DEF DialSucceeds
    <3>4. WatchedOK'
      BY <2>1, <3>3 DEF DialSucceeds
    <3> QED
      BY <2>1, <3>2, <3>4 DEF DialSucceeds
  <2>2. CASE ChannelOpens
    BY <2>2 DEF ChannelOpens, Open
  <2>3. CASE SetupSucceeds
    BY <2>3 DEF SetupSucceeds, Usable, Open, Started
  <2>4. CASE ConnectFails
    BY <2>4 DEF ConnectFails, ScheduleReconnect, Started, Mishap, Usable
  <2> QED
    BY <1>3, <2>1, <2>2, <2>3, <2>4 DEF ConnectStep
<1>4. ASSUME NEW c \in Conns, Drop(c) PROVE IInv'
  BY <1>4 DEF Drop, Mishap
<1>5. ASSUME NEW c \in Conns, CloseEvent(c) PROVE IInv'
  <2>1. wire' \in [Conns -> {"unused", "open", "closed", "gone"}]
    BY <1>5 DEF CloseEvent
  <2>2. ClientTypeOK'
    BY <1>5, <2>1 DEF CloseEvent, ScheduleReconnect
  <2> QED
    BY <1>5, <2>1, <2>2 DEF CloseEvent, ScheduleReconnect
<1>6. ASSUME NEW c \in Conns, ErrorEvent(c) PROVE IInv'
  <2>1. wire' \in [Conns -> {"unused", "open", "closed", "gone"}]
    BY <1>6 DEF ErrorEvent
  <2>2. mishaps' \in 0 .. MaxMishaps
    BY <1>6 DEF ErrorEvent, Mishap
  <2> QED
    BY <1>6, <2>1, <2>2 DEF ErrorEvent
<1>11. CASE Refuse
  BY <1>11 DEF Refuse, Mishap, Usable
<1>7. CASE Destroy
  BY <1>7 DEF Destroy
<1>8. CASE CloseChannel
  BY <1>8 DEF CloseChannel, Usable
<1>9. CASE CloseConnection
  BY <1>9 DEF CloseConnection, Open
<1>10. CASE UNCHANGED clientVars
  BY <1>10 DEF clientVars
<1> QED
  BY <1>1, <1>2, <1>3, <1>4, <1>5, <1>6, <1>7, <1>8, <1>9, <1>10, <1>11 DEF ClientNext, ClientStep

THEOREM ClientInvariant == Spec => []IInv
BY InitIInv, NextIInv, PTL DEF Spec

------------------------------------------------------------------------------

\* A connection that has the handlers is never left alive beside another one, so
\* that its 'close' cannot take the fields of its successor away.
THEOREM NoOrphan == Spec => []NoOrphanIsWatched
<1>1. IInv => NoOrphanIsWatched
  BY DEF IInv, WatchedOK, Live, NoOrphanIsWatched
<1> QED
  BY <1>1, ClientInvariant, PTL

\* At every moment somebody sees to the connection: connect(), its timer, or the
\* handlers of a live connection.
THEOREM SomebodySees == Spec => []SomebodyReconnects
<1>1. IInv => SomebodyReconnects
  BY DEF IInv
<1> QED
  BY <1>1, ClientInvariant, PTL

------------------------------------------------------------------------------

Running == module \in {"new", "starting", "up"}

\* Unless app.close() is called, the client is one loop of waiting, attempting
\* and being connected: every step of it is a step of ReconnectLoop or none.
THEOREM ImplementsLoop ==
    ASSUME MayStop = FALSE
    PROVE  Spec => Loop!Spec
<1>1. Init => Running /\ Loop!Init
  BY DEF Init, Running, Loop!Init, loop
<1>2. Running /\ [ClientNext]_clientVars => Running'
  BY DEF Running, ClientNext, ClientStep, ConnectStep, clientVars, ModuleInit, TimerFires,
     DialSucceeds, ChannelOpens, SetupSucceeds, ConnectFails, Drop, CloseEvent, ErrorEvent,
     Destroy, CloseChannel, CloseConnection, Started, Refuse
<1>3. IInv /\ Running /\ [ClientNext]_clientVars => [Loop!Next]_loop
  <2> SUFFICES ASSUME IInv, Running, [ClientNext]_clientVars PROVE [Loop!Next]_loop
    OBVIOUS
  <2> DEFINE seen == IF phase # "idle" THEN "connecting"
                     ELSE IF module = "new" \/ timer THEN "waiting" ELSE "connected"
  <2>a. loop = seen /\ loop' = seen'
    <3>1. IInv' /\ Running'
      BY NextIInv, <1>2
    <3> QED
      BY <3>1 DEF IInv, SomebodyReconnects, Running, loop
  <2> USE DEF IInv, ClientTypeOK, NewOK, AttemptOK, SetupOK, WatchedOK, Live, local, remote,
              Loop!Next, Loop!Try, Loop!Succeed, Loop!Fail, Loop!Lose
  <2>1. CASE ModuleInit
    BY <2>a, <2>1 DEF ModuleInit
  <2>2. CASE TimerFires
    BY <2>a, <2>2 DEF TimerFires
  <2>3. CASE ConnectStep
    <3>1. ASSUME NEW c \in Conns, DialSucceeds(c) PROVE loop' = loop
      BY <2>a, <3>1 DEF DialSucceeds
    <3>2. CASE ChannelOpens
      BY <2>a, <3>2 DEF ChannelOpens
    <3>3. CASE SetupSucceeds
      BY <2>a, <3>3 DEF SetupSucceeds, Started
    <3>4. CASE ConnectFails
      BY <2>a, <3>4 DEF ConnectFails, ScheduleReconnect
    <3> QED
      BY <2>3, <3>1, <3>2, <3>3, <3>4 DEF ConnectStep
  <2>4. ASSUME NEW c \in Conns, Drop(c) PROVE loop' = loop
    BY <2>a, <2>4 DEF Drop
  <2>5. ASSUME NEW c \in Conns, CloseEvent(c) PROVE [Loop!Next]_loop
    BY <2>a, <2>5 DEF CloseEvent, ScheduleReconnect
  <2>6. ASSUME NEW c \in Conns, ErrorEvent(c) PROVE [Loop!Next]_loop
    BY <2>a, <2>6 DEF ErrorEvent
  <2>7. CASE Destroy \/ CloseChannel \/ CloseConnection
    BY <2>a, <2>7 DEF Destroy, CloseChannel, CloseConnection, Running
  <2>9. CASE Refuse
    BY <2>a, <2>9 DEF Refuse
  <2>8. CASE UNCHANGED clientVars
    BY <2>a, <2>8 DEF clientVars
  <2> QED
    BY <2>1, <2>2, <2>3, <2>4, <2>5, <2>6, <2>7, <2>8, <2>9 DEF ClientNext, ClientStep
<1> QED
  BY <1>1, <1>2, <1>3, ClientInvariant, PTL DEF Spec, Loop!Spec

------------------------------------------------------------------------------
(* The agent beside the client. *)

USE TicksAssumption

\* What the agent keeps of its own.
AgentInv ==
    /\ agent \in {"new", "up", "stopped"}
    /\ interval \in BOOLEAN /\ retries \in 0 .. 1
    /\ sampling \in 0 .. MaxTicks
    /\ reply \in Replies
    /\ agent = "new" => ~interval /\ retries = 0 /\ sampling = 0
    /\ FailureIsRetried

LEMMA AgentStart == AgentInit => Init /\ AgentInv
<1>1. [returned |-> TRUE, arrived |-> TRUE] \in Replies
  BY DEF Replies
<1>2. 0 \in 0 .. 1 /\ 0 \in 0 .. MaxTicks
  OBVIOUS
<1> QED
  BY <1>1, <1>2 DEF AgentInit, AgentInv, FailureIsRetried

\* A publication leaves the client alone, or makes the broker close its channel;
\* and it always has a reply.
LEMMA PublishStep == Publish => [ClientNext]_clientVars /\ reply' \in Replies
<1> SUFFICES ASSUME Publish PROVE [ClientNext]_clientVars /\ reply' \in Replies
  OBVIOUS
<1>1. UNCHANGED clientVars \/ Refuse
  BY DEF Publish
<1>2. \E r \in BOOLEAN, a \in BOOLEAN : reply' = [returned |-> r, arrived |-> a]
  BY DEF Publish
<1> QED
  BY <1>1, <1>2 DEF ClientNext, Replies

\* The agent runs beside the client and never inside of it: its steps change the
\* client only as the client's own environment may, by a refused message.
THEOREM KeepsClient == AgentSpec => Spec
<1>1. [Next]_vars => [ClientNext]_clientVars
  <2> SUFFICES ASSUME [Next]_vars PROVE [ClientNext]_clientVars
    OBVIOUS
  <2>1. CASE ClientStep
    BY <2>1 DEF ClientNext
  <2>2. CASE AgentStep
    BY <2>2, PublishStep DEF AgentStep, Start, IntervalTick, RetryTick, Sampled, TickFails, Stop
  <2>3. ASSUME NEW c \in Conns, Exit(c) PROVE [ClientNext]_clientVars
    BY <2>3 DEF Exit, ClientNext
  <2>4. CASE UNCHANGED vars
    BY <2>4 DEF vars
  <2> QED
    BY <2>1, <2>2, <2>3, <2>4 DEF Next
<1> QED
  BY <1>1, AgentStart, PTL DEF AgentSpec, Spec

LEMMA AgentStepInv == AgentInv /\ [Next]_vars => AgentInv'
<1> SUFFICES ASSUME AgentInv, [Next]_vars PROVE AgentInv'
  OBVIOUS
<1> USE DEF AgentInv, FailureIsRetried
<1>1. CASE UNCHANGED agentVars
  BY <1>1 DEF agentVars
<1>2. CASE Start
  <2>1. sampling' \in 0 .. MaxTicks /\ sampling' > 0
    BY <1>2 DEF Start
  <2> QED
    BY <1>2, <2>1 DEF Start
<1>3. CASE IntervalTick
  <2>1. sampling' \in 0 .. MaxTicks /\ sampling' > 0 /\ agent # "new"
    BY <1>3 DEF IntervalTick
  <2> QED
    BY <1>3, <2>1 DEF IntervalTick
<1>4. CASE RetryTick
  <2>1. sampling' \in 0 .. MaxTicks /\ sampling' > 0 /\ retries' \in 0 .. 1 /\ agent # "new"
    BY <1>4 DEF RetryTick
  <2> QED
    BY <1>4, <2>1 DEF RetryTick
<1>5. CASE Sampled
  <2>1. reply' \in Replies
    BY <1>5, PublishStep DEF Sampled
  <2>2. sampling' \in 0 .. MaxTicks
    BY <1>5 DEF Sampled
  <2>3. retries' \in 0 .. 1 /\ (~reply'.returned => retries' > 0)
    BY <1>5 DEF Sampled, ScheduleRetry
  <2> QED
    BY <1>5, <2>1, <2>2, <2>3 DEF Sampled
<1>6. CASE TickFails
  <2>1. /\ sampling' \in 0 .. MaxTicks /\ retries' \in 0 .. 1 /\ retries' > 0
        /\ agent # "new"
    BY <1>6 DEF TickFails, ScheduleRetry
  <2> QED
    BY <1>6, <2>1 DEF TickFails
<1>7. CASE Stop
  <2>1. 0 \in 0 .. 1
    OBVIOUS
  <2> QED
    BY <1>7, <2>1 DEF Stop
<1>8. ASSUME NEW c \in Conns, Exit(c) PROVE AgentInv'
  <2>1. 0 \in 0 .. 1 /\ 0 \in 0 .. MaxTicks
    OBVIOUS
  <2> QED
    BY <1>8, <2>1 DEF Exit
<1> QED
  BY <1>1, <1>2, <1>3, <1>4, <1>5, <1>6, <1>7, <1>8 DEF Next, AgentStep, vars

\* Types, and never a second retry timer, however many ticks overlap.
THEOREM AgentTypeCorrect == AgentSpec => []AgentTypeOK
<1>1. IInv /\ AgentInv => AgentTypeOK
  BY DEF IInv, AgentInv, AgentTypeOK
<1> QED
  BY <1>1, AgentStart, AgentStepInv, KeepsClient, ClientInvariant, PTL DEF AgentSpec

\* A failed publication is never forgotten while the agent is up.
THEOREM RetryKept == AgentSpec => []FailureIsRetried
<1>1. AgentInv => FailureIsRetried
  BY DEF AgentInv
<1> QED
  BY <1>1, AgentStart, AgentStepInv, PTL DEF AgentSpec

\* The client keeps its connections in order beside the agent, too.
THEOREM NoOrphanBesideAgent == AgentSpec => []NoOrphanIsWatched
BY KeepsClient, NoOrphan, PTL

\* Nor is the duty to reconnect ever lost beside the agent, whose messages may make
\* the broker close a channel in the middle of a setup.
THEOREM SomebodySeesBesideAgent == AgentSpec => []SomebodyReconnects
BY KeepsClient, SomebodySees, PTL

\* Nor does the agent break the loop of waiting, attempting and being connected.
THEOREM LoopBesideAgent ==
    ASSUME MayStop = FALSE
    PROVE  AgentSpec => Loop!Spec
BY KeepsClient, ImplementsLoop, PTL
=============================================================================
