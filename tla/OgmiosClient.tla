---------------------------- MODULE OgmiosClient ----------------------------
(***************************************************************************)
(* OgmiosClientService: one websocket to Ogmios, opened by whichever call  *)
(* finds the client disconnected, and shared by all calls. Nothing keeps   *)
(* two calls from opening one each.                                        *)
(*                                                                         *)
(* An interaction context is known by its socket. Everything between two   *)
(* awaits of a call is one step. What a query asks and answers is left     *)
(* out; queryTip is five queries, each through the context of its moment.  *)
(***************************************************************************)
EXTENDS Naturals, FiniteSets

CONSTANTS
    Callers,      \* calls of the service
    Own,          \* the call of connect() in onModuleInit
    Sockets,      \* sockets that the library may open
    None,         \* null
    TipQueries,   \* queries that queryTip makes (five in the code)
    Asks,         \* Asks[i]: what call i may be for
    MayStop,      \* whether somebody calls app.close()
    MaxMishaps    \* bound: failures of the server, of sockets and of calls

ASSUME OgmiosAssumption ==
    /\ Own \in Callers /\ None \notin Sockets
    /\ Asks \in [Callers -> SUBSET {"tip", "query", "test", "health"}]
    /\ TipQueries \in Nat \ {0} /\ MayStop \in BOOLEAN /\ MaxMishaps \in Nat

VARIABLES
    isConnected, interactionContext,   \* the fields
    socket,       \* socket[s]: "open"; "lost" until an event says so;
                  \* "failing" between its 'error' and its 'close'; "gone"
    pc,           \* pc[i]: the await call i is at, or how it ended
    kind,         \* kind[i]: what it is for
    left,         \* left[i]: queries it still has to make
    at,           \* at[i]: the socket its query is under way on
    server,       \* whether Ogmios runs
    stopped,      \* whether onModuleDestroy has run
    mishaps,
    missed,       \* history: contexts that closed while a call prepared one
    crossed       \* history: calls or events met in a way that leaves a
                  \* socket open

fields  == <<isConnected, interactionContext>>
calls   == <<pc, kind, left, at>>
history == <<missed, crossed>>
ogmiosVars == <<fields, socket, calls, server, stopped, mishaps, history>>

Resting    == {"idle", "answered", "null", "failed"}
Connecting == {"dialing", "preparing"}

\* Mutated form of QueriesOf: one query too many.
QueriesOf_OneMore(k) == IF k = "tip" THEN TipQueries + 1 ELSE 1

QueriesOf(k) == IF k = "tip" THEN TipQueries ELSE 1

\* What a call makes of a query that fails: queryTip answers null.
Rejected(k) == IF k = "tip" THEN "null" ELSE "failed"

\* Sockets whose 'close' event is still to come.
Alive(s) == s # None /\ socket[s] \in {"open", "lost", "failing"}

Mishap == mishaps < MaxMishaps /\ mishaps' = mishaps + 1

FreshCall == [i \in Callers |-> IF i = Own THEN "dialing" ELSE "idle"]
FreshKind == [i \in Callers |-> IF i = Own THEN "connect" ELSE "query"]
NoSocket  == [s \in Sockets |-> "unused"]

\* The process starts: onModuleInit() calls connect().
Init ==
    /\ isConnected = FALSE /\ interactionContext = None
    /\ socket = NoSocket
    /\ pc = FreshCall /\ kind = FreshKind
    /\ left = [i \in Callers |-> 0] /\ at = [i \in Callers |-> None]
    /\ server \in BOOLEAN
    /\ stopped = FALSE /\ mishaps = 0
    /\ missed = {} /\ crossed = FALSE

------------------------------------------------------------------------------
(* A call. *)

\* Call i is for k, has n queries to make, and awaits something else than an
\* answer on a socket.
Goto(i, where, k, n) ==
    /\ pc'   = [pc EXCEPT ![i] = where]
    /\ kind' = [kind EXCEPT ![i] = k]
    /\ left' = [left EXCEPT ![i] = n]
    /\ at'   = [at EXCEPT ![i] = None]

End(i, result) == Goto(i, result, "query", 0)

\* The next of n queries goes out through the context there is now; a socket that
\* is closed already refuses it.
Send(i, k, n) ==
    \/ /\ Alive(interactionContext)
       /\ pc'   = [pc EXCEPT ![i] = "waiting"]
       /\ kind' = [kind EXCEPT ![i] = k]
       /\ left' = [left EXCEPT ![i] = n]
       /\ at'   = [at EXCEPT ![i] = interactionContext]
    \/ /\ interactionContext # None /\ ~Alive(interactionContext)
       /\ End(i, Rejected(k))
    \* 'No interaction context available'; within queryTip, a TypeError.
    \/ /\ interactionContext = None
       /\ End(i, IF n = QueriesOf(k) THEN "failed" ELSE Rejected(k))

\* What follows ensureConnected(); test() asks for the server's health first.
Proceed(i, k) ==
    \/ k = "connect" /\ End(i, "answered")
    \/ k = "test" /\ interactionContext # None /\ Goto(i, "probing", k, 1)
    \/ k = "test" /\ interactionContext = None /\ End(i, "failed")
    \/ k \in {"tip", "query"} /\ Send(i, k, QueriesOf(k))

\* Names for a new socket: that of one that is gone and in no field may be used
\* again.
Unnamed == {s \in Sockets : socket[s] \in {"unused", "gone"} /\ s # interactionContext}

\* Bound: a call comes only when a socket is left for it.
SocketLeft == Cardinality(Unnamed) > Cardinality({j \in Callers : pc[j] = "dialing"})

\* Mutated form of Call: whether the client is connected is not asked.
Call_AlwaysConnects(i, k) ==
    /\ i # Own /\ pc[i] \in Resting
    /\ SocketLeft /\ Goto(i, "dialing", k, 0)
    /\ crossed' = (crossed \/ \E j \in Callers : pc[j] \in Connecting)
    /\ UNCHANGED <<fields, socket, server, stopped, mishaps, missed>>

\* Mutated form of Call: any context there is will do.
Call_AnyContext(i, k) ==
    /\ i # Own /\ pc[i] \in Resting
    /\ IF interactionContext # None THEN Proceed(i, k) /\ UNCHANGED crossed
       ELSE /\ SocketLeft /\ Goto(i, "dialing", k, 0)
            /\ crossed' = (crossed \/ \E j \in Callers : pc[j] \in Connecting)
    /\ UNCHANGED <<fields, socket, server, stopped, mishaps, missed>>

\* Mutated form of Call: the client counts as connected from the beginning of
\* connect(), so that no other call connects beside it.
Call_ClaimsConnection(i, k) ==
    /\ i # Own /\ pc[i] \in Resting
    /\ IF isConnected THEN Proceed(i, k) /\ UNCHANGED <<crossed, isConnected>>
       ELSE /\ SocketLeft /\ Goto(i, "dialing", k, 0)
            /\ isConnected' = TRUE
            /\ crossed' = (crossed \/ \E j \in Callers : pc[j] \in Connecting)
    /\ UNCHANGED <<interactionContext, socket, server, stopped, mishaps, missed>>

\* A controller, or HydraMainService, calls the client: ensureConnected() and
\* connect() up to their first await.
Call(i, k) ==
    /\ i # Own /\ pc[i] \in Resting
    /\ IF isConnected THEN Proceed(i, k) /\ UNCHANGED crossed
       ELSE /\ SocketLeft /\ Goto(i, "dialing", k, 0)
            /\ crossed' = (crossed \/ \E j \in Callers : pc[j] \in Connecting)
    /\ UNCHANGED <<fields, socket, server, stopped, mishaps, missed>>

\* isHealthy() goes past the socket.
IsHealthy(i) ==
    /\ i # Own /\ pc[i] \in Resting
    /\ Goto(i, "probing", "health", 0)
    /\ UNCHANGED <<fields, socket, server, stopped, mishaps, history>>

\* createInteractionContext() opens a socket, with its two handlers.
DialSucceeds(i) ==
    /\ pc[i] = "dialing" /\ server /\ Unnamed # {}
    /\ LET s == CHOOSE t \in Unnamed : TRUE IN
           /\ socket' = [socket EXCEPT ![s] = "open"]
           /\ interactionContext' = s
           /\ missed' = missed \ {s}
    /\ Goto(i, "preparing", kind[i], 0)
    /\ UNCHANGED <<isConnected, server, stopped, mishaps, crossed>>

\* Nothing is assigned; onModuleInit() logs the error, the others throw it.
DialFails(i) ==
    /\ pc[i] = "dialing"
    /\ (~server /\ UNCHANGED mishaps) \/ (server /\ Mishap)
    /\ End(i, "failed")
    /\ UNCHANGED <<fields, socket, server, stopped, history>>

\* createLedgerStateQueryClient() has ended; whatever happened to the socket in
\* the meantime, the client is connected now.
LedgerReady(i) ==
    /\ pc[i] = "preparing"
    /\ isConnected' = TRUE
    /\ Proceed(i, kind[i])
    /\ UNCHANGED <<interactionContext, socket, server, stopped, mishaps, history>>

\* It rejects: the socket stays open and in the field, and is not used.
LedgerFails(i) ==
    /\ pc[i] = "preparing" /\ Mishap
    /\ End(i, "failed") /\ crossed' = TRUE
    /\ UNCHANGED <<fields, socket, server, stopped, missed>>

\* getServerHealth(), a request of its own: the answer of isHealthy() either way,
\* and a condition of test().
HealthAnswers(i) ==
    /\ pc[i] = "probing"
    /\ \/ kind[i] = "health" /\ End(i, "answered")
       \/ kind[i] = "test" /\ server /\ Send(i, "test", 1)
       \/ kind[i] = "test" /\ ~server /\ End(i, "failed")
    /\ UNCHANGED <<fields, socket, server, stopped, mishaps, history>>

\* Mutated form of Answer: the queries of queryTip are not counted.
Answer_Uncounted(i) ==
    /\ pc[i] = "waiting" /\ socket[at[i]] = "open"
    /\ \/ left[i] > 1 /\ Send(i, kind[i], left[i])
       \/ left[i] = 1 /\ End(i, "answered")
    /\ UNCHANGED <<fields, socket, server, stopped, mishaps, history>>

Answer(i) ==
    /\ pc[i] = "waiting" /\ socket[at[i]] = "open"
    /\ \/ left[i] > 1 /\ Send(i, kind[i], left[i] - 1)
       \/ left[i] = 1 /\ End(i, "answered")
    /\ UNCHANGED <<fields, socket, server, stopped, mishaps, history>>

\* The server refuses a query.
Refuse(i) ==
    /\ pc[i] = "waiting" /\ socket[at[i]] = "open" /\ Mishap
    /\ End(i, Rejected(kind[i]))
    /\ UNCHANGED <<fields, socket, server, stopped, history>>

------------------------------------------------------------------------------
(* Sockets, the server, the process. *)

\* The library rejects the queries under way on a socket that is reported broken.
RejectOn(s) ==
    LET hit == {i \in Callers : at[i] = s} IN
    /\ pc'   = [i \in Callers |-> IF i \in hit THEN Rejected(kind[i]) ELSE pc[i]]
    /\ kind' = [i \in Callers |-> IF i \in hit THEN "query" ELSE kind[i]]
    /\ left' = [i \in Callers |-> IF i \in hit THEN 0 ELSE left[i]]
    /\ at'   = [i \in Callers |-> IF i \in hit THEN None ELSE at[i]]

ErrorEvent(s) ==
    /\ socket[s] = "lost"
    /\ socket' = [socket EXCEPT ![s] = "failing"]
    /\ isConnected' = FALSE
    /\ RejectOn(s)
    /\ crossed' = (crossed \/ s # interactionContext)
    /\ UNCHANGED <<interactionContext, server, stopped, mishaps, missed>>

\* Mutated form of CloseEvent: no handler resets the flag.
CloseEvent_Unheard(s) ==
    /\ socket[s] \in {"lost", "failing"}
    /\ socket' = [socket EXCEPT ![s] = "gone"]
    /\ RejectOn(s)
    /\ missed' = IF \E i \in Callers : pc[i] = "preparing" THEN missed \cup {s} ELSE missed
    /\ crossed' = (crossed \/ s # interactionContext)
    /\ UNCHANGED <<fields, server, stopped, mishaps>>

\* The handler does not ask which socket was closed.
CloseEvent(s) ==
    /\ socket[s] \in {"lost", "failing"}
    /\ socket' = [socket EXCEPT ![s] = "gone"]
    /\ isConnected' = FALSE
    /\ RejectOn(s)
    /\ missed' = IF \E i \in Callers : pc[i] = "preparing" THEN missed \cup {s} ELSE missed
    /\ crossed' = (crossed \/ s # interactionContext)
    /\ UNCHANGED <<interactionContext, server, stopped, mishaps>>

Lose(s) ==
    /\ socket[s] = "open" /\ Mishap
    /\ socket' = [socket EXCEPT ![s] = "lost"]
    /\ UNCHANGED <<fields, calls, server, stopped, history>>

ServerStops ==
    /\ server /\ Mishap
    /\ server' = FALSE
    /\ socket' = [s \in Sockets |-> IF socket[s] = "open" THEN "lost" ELSE socket[s]]
    /\ UNCHANGED <<fields, calls, stopped, history>>

ServerStarts ==
    /\ ~server /\ server' = TRUE
    /\ UNCHANGED <<fields, socket, calls, stopped, mishaps, history>>

\* onModuleDestroy(), disconnect().
Disconnect ==
    /\ MayStop /\ ~stopped /\ Mishap
    /\ stopped' = TRUE
    /\ IF interactionContext = None THEN UNCHANGED <<fields, socket>>
       ELSE /\ interactionContext' = None /\ isConnected' = FALSE
            /\ socket' = IF socket[interactionContext] # "open" THEN socket
                         ELSE [socket EXCEPT ![interactionContext] = "lost"]
    /\ UNCHANGED <<calls, server, history>>

\* The process exits and is started again; its sockets are closed with it.
Exit ==
    /\ isConnected' = FALSE /\ interactionContext' = None
    /\ socket' = NoSocket
    /\ pc' = FreshCall /\ kind' = FreshKind
    /\ left' = [i \in Callers |-> 0] /\ at' = [i \in Callers |-> None]
    /\ stopped' = FALSE
    /\ missed' = {} /\ crossed' = FALSE
    /\ UNCHANGED server

------------------------------------------------------------------------------
CallStep(i) ==
    \/ DialSucceeds(i) \/ DialFails(i) \/ LedgerReady(i) \/ LedgerFails(i)
    \/ HealthAnswers(i) \/ Answer(i) \/ Refuse(i)

Arrive(i) ==
    \/ \E k \in Asks[i] \ {"health"} : Call(i, k)
    \/ "health" \in Asks[i] /\ IsHealthy(i)

Environment ==
    \/ \E s \in Sockets : Lose(s)
    \/ ServerStops \/ ServerStarts
    \/ Disconnect
    \/ Mishap /\ Exit

Next ==
    \/ \E i \in Callers : CallStep(i) \/ Arrive(i)
    \/ \E s \in Sockets : ErrorEvent(s) \/ CloseEvent(s)
    \/ Environment

Spec == Init /\ [][Next]_ogmiosVars

\* Every await of a call ends, a broken socket is reported, and docker starts Ogmios
\* again (restart: on-failure).
Fairness ==
    /\ \A i \in Callers : /\ WF_ogmiosVars(DialSucceeds(i) \/ DialFails(i))
                         /\ WF_ogmiosVars(LedgerReady(i) \/ LedgerFails(i))
                         /\ WF_ogmiosVars(HealthAnswers(i))
                         /\ WF_ogmiosVars(Answer(i) \/ Refuse(i))
    /\ \A s \in Sockets : WF_ogmiosVars(ErrorEvent(s) \/ CloseEvent(s))
    /\ WF_ogmiosVars(ServerStarts)

FairSpec == Spec /\ Fairness

------------------------------------------------------------------------------
(* Properties. *)

\* Types.
OgmiosTypeOK ==
    /\ isConnected \in BOOLEAN /\ interactionContext \in Sockets \cup {None}
    /\ socket \in [Sockets -> {"unused", "open", "lost", "failing", "gone"}]
    /\ pc \in [Callers -> Resting \cup Connecting \cup {"probing", "waiting"}]
    /\ kind \in [Callers -> {"connect", "tip", "query", "test", "health"}]
    /\ left \in [Callers -> 0..TipQueries]
    /\ at \in [Callers -> Sockets \cup {None}]
    /\ server \in BOOLEAN /\ stopped \in BOOLEAN /\ mishaps \in 0..MaxMishaps
    /\ missed \subseteq Sockets /\ crossed \in BOOLEAN

\* The client counts itself connected for a reason: the socket it uses is open
\* or will report that it is not, so that the flag is corrected. There is one way
\* for the flag to be wrong for good: the event comes while a call is between its
\* two awaits, and connect() overwrites what the handler has written.
FlagIsCorrected ==
    isConnected => Alive(interactionContext) \/ interactionContext \in missed \/ stopped

\* No socket is left open and forgotten, unless calls connect at the same time,
\* the ledger client cannot be made, or the event of an older socket marks the
\* newer one as closed.
NoSocketForgotten ==
    ~crossed => \A s \in Sockets : socket[s] = "open" => s = interactionContext

\* Calls that overlap do each other no harm. Each may open a socket of its own and
\* put it in the field while others prepare theirs, or have queries under way; yet
\* as long as nothing outside fails and nobody stops the client, no call fails.
OverlapIsHarmless ==
    [][mishaps' = 0 /\ server =>
           \A i \in Callers : pc'[i] \in {"failed", "null"} => pc[i] = pc'[i]]_ogmiosVars

\* Every call ends: with an answer, with null or with an error.
CallsEnd == \A i \in Callers : pc[i] \notin Resting ~> pc[i] \in Resting

\* Connected, as far as the client knows, to a socket that is no more: every call
\* fails and none connects.
Blind == isConnected /\ ~Alive(interactionContext)

\* When failures stop, calls stop failing: each that finds the client
\* disconnected connects it. Only a client that has become blind stays so.
WorksInTheEnd ==
    \/ <>[][\A i \in Callers : pc'[i] \in {"failed", "null"} => pc[i] = pc'[i]]_ogmiosVars
    \/ <>[]Blind
=============================================================================
