--------------------------- MODULE RabbitMqClient ---------------------------
(***************************************************************************)
(* RabbitMQService: one amqp connection with one channel, established by   *)
(* connect(), watched by handlers that connect() registers at its end, and *)
(* established again by a timer after a failure or a close.                *)
(*                                                                         *)
(* A connection is an id; the channel is known by its connection, since no *)
(* connection is ever asked for a second one. The exponential delay of the *)
(* timer is left out: nothing but time depends on it.                      *)
(***************************************************************************)
EXTENDS Naturals

CONSTANTS
    Conns,        \* connections that amqp.connect may return
    None,         \* null
    MayStop,      \* whether somebody calls app.close()
    MaxMishaps    \* bound: failed attempts and lost connections

ASSUME ConnsAssumption ==
    None \notin Conns /\ MayStop \in BOOLEAN /\ MaxMishaps \in Nat

VARIABLES
    module,       \* the NestJS module: "new", "starting", "up", or how far its
                  \* destruction is
    phase,        \* what connect() awaits; "idle" when it is not running,
                  \* which is when isConnecting is false
    connection,   \* this.connection
    channel,      \* the connection of this.channel
    timer,        \* whether reconnectTimer is set
    wire,         \* wire[c]: "closed" until its 'close' event, then "gone"
    handled,      \* connections that have the handlers
    shut,         \* connections whose channel was closed
    mishaps       \* failed attempts and lost connections so far

local  == <<connection, channel>>
remote == <<wire, shut>>
clientVars == <<module, phase, connection, channel, timer, wire, handled, shut, mishaps>>

Init ==
    /\ module = "new" /\ phase = "idle"
    /\ connection = None /\ channel = None
    /\ timer = FALSE
    /\ wire = [c \in Conns |-> "unused"]
    /\ handled = {} /\ shut = {}
    /\ mishaps = 0

Mishap == mishaps < MaxMishaps /\ mishaps' = mishaps + 1

Open(c) == c # None /\ wire[c] = "open"

\* The channel takes messages that arrive.
Usable == channel # None /\ Open(channel) /\ channel \notin shut

\* Sets the timer unless it is set.
ScheduleReconnect == timer' = TRUE

\* The first connect() has ended, and with it onModuleInit().
Started == IF module = "starting" THEN "up" ELSE module

------------------------------------------------------------------------------
(* connect(). *)

ModuleInit ==
    /\ module = "new"
    /\ module' = "starting" /\ phase' = "dial"
    /\ UNCHANGED <<local, timer, remote, handled, mishaps>>

\* The timer fires; connect() returns at once if it is running.
TimerFires ==
    /\ timer
    /\ timer' = FALSE
    /\ phase' = IF phase = "idle" THEN "dial" ELSE phase
    /\ UNCHANGED <<module, local, remote, handled, mishaps>>

\* Mutated form of DialSucceeds: the handlers are registered at once.
DialHandlesEarly(c) ==
    /\ phase = "dial" /\ wire[c] = "unused"
    /\ wire' = [wire EXCEPT ![c] = "open"]
    /\ connection' = c /\ phase' = "channel"
    /\ handled' = handled \cup {c}
    /\ UNCHANGED <<module, channel, timer, shut, mishaps>>

DialSucceeds(c) ==
    /\ phase = "dial" /\ wire[c] = "unused"
    /\ wire' = [wire EXCEPT ![c] = "open"]
    /\ connection' = c /\ phase' = "channel"
    /\ UNCHANGED <<module, channel, timer, handled, shut, mishaps>>

ChannelOpens ==
    /\ phase = "channel" /\ Open(connection)
    /\ channel' = connection /\ phase' = "topology"
    /\ UNCHANGED <<module, connection, timer, remote, handled, mishaps>>

\* Mutated form of SetupSucceeds: the handlers are forgotten.
SetupUnwatched ==
    /\ phase = "topology" /\ Usable
    /\ phase' = "idle" /\ module' = Started
    /\ UNCHANGED <<local, timer, remote, handled, mishaps>>

\* Queue, exchange and binding are declared; only now come the handlers.
SetupSucceeds ==
    /\ phase = "topology" /\ Usable
    /\ phase' = "idle" /\ module' = Started
    /\ handled' = handled \cup {connection}
    /\ UNCHANGED <<local, timer, remote, mishaps>>

\* Mutated form of ConnectFails: nothing is scheduled.
ConnectGivesUp ==
    /\ \/ phase \in {"dial", "channel", "topology"} /\ Mishap /\ UNCHANGED shut
       \/ phase = "topology" /\ Usable /\ Mishap /\ shut' = shut \cup {channel}
       \/ phase = "channel"  /\ ~Open(connection) /\ UNCHANGED <<mishaps, shut>>
       \/ phase = "topology" /\ ~Usable /\ UNCHANGED <<mishaps, shut>>
    /\ phase' = "idle" /\ module' = Started
    /\ UNCHANGED <<local, timer, wire, handled>>

\* The catch block. The broker does not answer, or refuses a declaration and with
\* it closes the channel, or the connection or the channel is gone: fields stay as
\* they are, and so does the connection, if it is open.
ConnectFails ==
    /\ \/ phase \in {"dial", "channel", "topology"} /\ Mishap /\ UNCHANGED shut
       \/ phase = "topology" /\ Usable /\ Mishap /\ shut' = shut \cup {channel}
       \/ phase = "channel"  /\ ~Open(connection) /\ UNCHANGED <<mishaps, shut>>
       \/ phase = "topology" /\ ~Usable /\ UNCHANGED <<mishaps, shut>>
    /\ phase' = "idle" /\ module' = Started
    /\ ScheduleReconnect
    /\ UNCHANGED <<local, wire, handled>>

------------------------------------------------------------------------------
(* Losing a connection. *)

Drop(c) ==
    /\ wire[c] = "open" /\ Mishap
    /\ wire' = [wire EXCEPT ![c] = "closed"]
    /\ UNCHANGED <<module, phase, local, timer, handled, shut>>

\* 'close' reaches the handlers, if the connection has them.
CloseEvent(c) ==
    /\ wire[c] = "closed"
    /\ wire' = [wire EXCEPT ![c] = "gone"]
    /\ \/ /\ c \in handled
          /\ connection' = None /\ channel' = None
          /\ ScheduleReconnect
       \/ /\ c \notin handled
          /\ UNCHANGED <<local, timer>>
    /\ UNCHANGED <<module, phase, handled, shut, mishaps>>

\* An 'error' that no handler takes ends the process: without its handlers, a
\* connection that breaks does that, unless the broker has closed it in good
\* order. The container restarts (docker-compose.yml), and all begins anew.
ErrorEvent(c) ==
    /\ wire[c] = "open" /\ c \notin handled /\ Mishap
    /\ module' = "new" /\ phase' = "idle"
    /\ connection' = None /\ channel' = None
    /\ timer' = FALSE
    /\ wire' = [d \in Conns |-> IF wire[d] = "unused" THEN "unused" ELSE "gone"]
    /\ handled' = {} /\ shut' = {}

\* The exchange is not durable: a message published before connect() has declared
\* it may find none, and the broker closes the channel.
Refuse ==
    /\ phase = "topology" /\ Usable /\ Mishap
    /\ shut' = shut \cup {channel}
    /\ UNCHANGED <<module, phase, local, timer, wire, handled>>

------------------------------------------------------------------------------
(* onModuleDestroy(). *)

Destroy ==
    /\ MayStop /\ module = "up"
    /\ module' = "closeChannel"
    /\ timer' = FALSE
    /\ UNCHANGED <<phase, local, remote, handled, mishaps>>

\* Closing a channel that is closed is an error, and ends the destruction.
CloseChannel ==
    /\ module = "closeChannel"
    /\ \/ channel = None /\ module' = "closeConnection" /\ UNCHANGED shut
       \/ Usable /\ module' = "closeConnection" /\ shut' = shut \cup {channel}
       \/ channel # None /\ ~Usable /\ module' = "destroyed" /\ UNCHANGED shut
    /\ UNCHANGED <<phase, local, timer, wire, handled, mishaps>>

CloseConnection ==
    /\ module = "closeConnection"
    /\ module' = "destroyed"
    /\ wire' = IF Open(connection) THEN [wire EXCEPT ![connection] = "closed"] ELSE wire
    /\ UNCHANGED <<phase, local, timer, handled, shut, mishaps>>

------------------------------------------------------------------------------
ConnectStep == \/ \E c \in Conns : DialSucceeds(c)
               \/ ChannelOpens \/ SetupSucceeds \/ ConnectFails

ClientStep ==
    \/ ModuleInit \/ TimerFires \/ ConnectStep
    \/ \E c \in Conns : Drop(c) \/ CloseEvent(c)
    \/ Destroy \/ CloseChannel \/ CloseConnection

ClientNext == ClientStep \/ Refuse \/ \E c \in Conns : ErrorEvent(c)

Spec == Init /\ [][ClientNext]_clientVars

------------------------------------------------------------------------------
(* Properties. *)

ClientTypeOK ==
    /\ module \in {"new", "starting", "up", "closeChannel", "closeConnection", "destroyed"}
    /\ phase \in {"idle", "dial", "channel", "topology"}
    /\ connection \in Conns \cup {None} /\ channel \in Conns \cup {None}
    /\ timer \in BOOLEAN
    /\ wire \in [Conns -> {"unused", "open", "closed", "gone"}]
    /\ handled \subseteq Conns /\ shut \subseteq Conns
    /\ mishaps \in 0 .. MaxMishaps

\* A close handler clears and reconnects whatever connection there is: so no
\* connection that has the handlers may live on beside a newer one.
NoOrphanIsWatched ==
    \A c \in handled : wire[c] \in {"open", "closed"} => connection = c

\* While the client is up somebody sees to the connection: connect() runs, or
\* its timer is set, never both, or the connection is watched and live, or its
\* 'close' event is on the way.
SomebodyReconnects ==
    module \in {"starting", "up"} =>
        /\ ~(timer /\ phase # "idle")
        /\ (~timer /\ phase = "idle") =>
              connection \in handled /\ wire[connection] \in {"open", "closed"}

\* Once the mishaps are over, the channel takes messages for good.
ReconnectsInTheEnd == <>[]Usable

\* The three fields and the wire, seen as one loop.
loop == IF phase # "idle" THEN "connecting"
        ELSE IF module = "new" \/ timer THEN "waiting"
        ELSE IF connection \in handled /\ wire[connection] \in {"open", "closed"}
             THEN "connected" ELSE "given up"

Loop == INSTANCE ReconnectLoop WITH loop <- loop

\* While it is not asked to stop, the client is such a loop: attempts, waits and
\* connections alternate and do not end.
IsOneLoop == Loop!FairSpec
=============================================================================
