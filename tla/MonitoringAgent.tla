--------------------------- MODULE MonitoringAgent ---------------------------
(***************************************************************************)
(* MonitoringAgentService on top of the RabbitMQ client: an interval and a *)
(* retry timer start ticks; a tick samples the CPU for a while and then    *)
(* publishes through whatever channel the client has by then. Ticks of the *)
(* two timers overlap each other and every step of the client.             *)
(*                                                                         *)
(* The payload and the exponential delay of the retry are left out.        *)
(***************************************************************************)
EXTENDS RabbitMqClient

CONSTANT MaxTicks     \* bound: ticks that are sampling at once

ASSUME TicksAssumption == MaxTicks \in Nat \ {0}

VARIABLES
    agent,        \* "new", "up" or "stopped"
    interval,     \* whether intervalHandle is set
    retries,      \* how many retry timeouts are pending
    sampling,     \* how many ticks await collectMetrics()
    reply         \* the last publish(): what it returned, whether the message
                  \* reached the exchange

agentVars == <<agent, interval, retries, sampling, reply>>
vars == <<clientVars, agentVars>>

Replies == [returned : BOOLEAN, arrived : BOOLEAN]

AgentInit ==
    /\ Init
    /\ agent = "new"
    /\ interval = FALSE /\ retries = 0
    /\ sampling = 0
    /\ reply = [returned |-> TRUE, arrived |-> TRUE]

------------------------------------------------------------------------------
(* Ticks. *)

\* Mutated form of ScheduleRetry: the guard is missing.
ScheduleAnyway == retries' = retries + 1

\* Sets the timer unless it is set.
ScheduleRetry == retries' = IF retries = 0 THEN 1 ELSE retries

\* The modules are initialised one after the other: the client has connected,
\* or failed to, when the agent starts its interval with a tick.
Start ==
    /\ agent = "new" /\ module = "up"
    /\ agent' = "up" /\ interval' = TRUE /\ sampling' = sampling + 1
    /\ UNCHANGED <<clientVars, retries, reply>>

IntervalTick ==
    /\ interval /\ sampling < MaxTicks
    /\ sampling' = sampling + 1
    /\ UNCHANGED <<clientVars, agent, interval, retries, reply>>

RetryTick ==
    /\ retries > 0 /\ sampling < MaxTicks
    /\ retries' = retries - 1 /\ sampling' = sampling + 1
    /\ UNCHANGED <<clientVars, agent, interval, reply>>

\* isChannelReady() and publishToExchange(). amqplib returns false also for a
\* message it takes while its buffer is full, takes messages for a socket that
\* is closed until the 'close' event, and throws on a channel that is closed.
Publish ==
    \/ /\ channel = None \/ ~Usable
       /\ reply' = [returned |-> FALSE, arrived |-> FALSE]
       /\ UNCHANGED clientVars
    \/ /\ Usable
       /\ \E r \in BOOLEAN : reply' = [returned |-> r, arrived |-> TRUE]
       /\ UNCHANGED clientVars
    \/ /\ channel # None /\ channel \notin shut /\ wire[channel] = "closed"
       /\ reply' = [returned |-> TRUE, arrived |-> FALSE]
       /\ UNCHANGED clientVars
    \/ /\ Refuse
       /\ reply' = [returned |-> TRUE, arrived |-> FALSE]

\* The rest of a tick: publish, and schedule a retry unless it went well.
Sampled ==
    /\ sampling > 0
    /\ sampling' = sampling - 1
    /\ Publish
    /\ \/ reply'.returned /\ UNCHANGED retries
       \/ ~reply'.returned /\ ScheduleRetry
    /\ UNCHANGED <<agent, interval>>

\* Mutated form of TickFails: the error is only logged.
TickFailsQuietly ==
    /\ sampling > 0
    /\ sampling' = sampling - 1
    /\ UNCHANGED <<clientVars, agent, interval, retries, reply>>

\* Collecting the metrics throws.
TickFails ==
    /\ sampling > 0
    /\ sampling' = sampling - 1
    /\ ScheduleRetry
    /\ UNCHANGED <<clientVars, agent, interval, reply>>

\* onModuleDestroy().
Stop ==
    /\ MayStop /\ agent = "up"
    /\ agent' = "stopped" /\ interval' = FALSE /\ retries' = 0
    /\ UNCHANGED <<clientVars, sampling, reply>>

\* The process ends, as in ErrorEvent.
Exit(c) ==
    /\ ErrorEvent(c)
    /\ agent' = "new" /\ interval' = FALSE /\ retries' = 0 /\ sampling' = 0
    /\ UNCHANGED reply

------------------------------------------------------------------------------
AgentStep == Start \/ IntervalTick \/ RetryTick \/ Sampled \/ TickFails \/ Stop

Next == (ClientStep /\ UNCHANGED agentVars) \/ AgentStep \/ \E c \in Conns : Exit(c)

AgentSpec == AgentInit /\ [][Next]_vars

\* The process is started, timers fire, an attempt to connect ends one way or the
\* other, close events are delivered, and collecting does not fail for ever.
AgentFairness ==
    /\ WF_vars(ModuleInit /\ UNCHANGED agentVars) /\ WF_vars(TimerFires /\ UNCHANGED agentVars)
    /\ WF_vars(ConnectStep /\ UNCHANGED agentVars)
    /\ \A c \in Conns : WF_vars(CloseEvent(c) /\ UNCHANGED agentVars)
    /\ WF_vars(Start) /\ WF_vars(IntervalTick) /\ WF_vars(RetryTick) /\ SF_vars(Sampled)

AgentFairSpec == AgentSpec /\ AgentFairness

------------------------------------------------------------------------------
(* Properties. *)

AgentTypeOK ==
    /\ ClientTypeOK
    /\ agent \in {"new", "up", "stopped"}
    /\ interval \in BOOLEAN /\ retries \in 0 .. 1
    /\ sampling \in 0 .. MaxTicks
    /\ reply \in Replies

\* While the agent is up, a publication that failed has its retry: the timer is
\* set or a tick is under way, whichever of the overlapping ticks failed.
FailureIsRetried ==
    (agent = "up" /\ ~reply.returned) => retries > 0 \/ sampling > 0

Arrival == Sampled /\ reply'.arrived

\* Whatever the broker went through, messages go on arriving at the exchange.
MetricsKeepComing == []<><<Arrival>>_vars
=============================================================================
