-------------------------- MODULE OgmiosClientProofs --------------------------
(***************************************************************************)
(* Proofs about OgmiosClient, for any number of calls, sockets, queries    *)
(* and failures: the flag is corrected, no socket is forgotten, and calls  *)
(* that overlap do each other no harm.                                     *)
(***************************************************************************)
EXTENDS OgmiosClient, WellFoundedInduction, TLAPS

Kinds  == {"connect", "tip", "query", "test", "health"}
Places == Resting \cup Connecting \cup {"probing", "waiting"}

\* The part of the types that calls change.
CallsOK ==
    /\ pc \in [Callers -> Places] /\ kind \in [Callers -> Kinds]
    /\ left \in [Callers -> 0..TipQueries]
    /\ at \in [Callers -> Sockets \cup {None}]

\* While a call is between its two awaits the context is as good as if the client
\* counted as connected: it is about to be.
FlagInv ==
    (isConnected \/ \E i \in Callers : pc[i] = "preparing")
        => Alive(interactionContext) \/ interactionContext \in missed \/ stopped

\* Until something has crossed, one call connects at a time, it starts with no socket
\* open, and an open socket is that of a connected client or of that call.
SocketInv ==
    ~crossed =>
        /\ \A i, j \in Callers : pc[i] \in Connecting /\ pc[j] \in Connecting => i = j
        /\ \A s \in Sockets : socket[s] = "open" =>
               /\ s = interactionContext
               /\ \A i \in Callers : pc[i] # "dialing"
               /\ isConnected \/ \E i \in Callers : pc[i] = "preparing"

------------------------------------------------------------------------------
(* What a call that moves on does. *)

\* Only call i moves; it is not connecting, and it waits only for a live socket.
Moved(i) ==
    /\ \A j \in Callers \ {i} : pc'[j] = pc[j] /\ at'[j] = at[j]
    /\ pc'[i] \notin Connecting
    /\ pc'[i] = "waiting" => at'[i] = interactionContext /\ Alive(interactionContext)

LEMMA Bounds == 0 \in 0..TipQueries /\ 1 \in 0..TipQueries
                /\ \A k \in Kinds : QueriesOf(k) \in 0..TipQueries
BY OgmiosAssumption DEF QueriesOf

LEMMA GotoTypes ==
    ASSUME CallsOK, NEW i \in Callers, NEW where \in Places, NEW k \in Kinds,
           NEW n \in 0..TipQueries, Goto(i, where, k, n)
    PROVE  CallsOK'
BY DEF CallsOK, Goto

LEMMA EndTypes ==
    ASSUME CallsOK, NEW i \in Callers, NEW r \in Resting, End(i, r)
    PROVE  CallsOK'
<1>1. "query" \in Kinds /\ r \in Places /\ Goto(i, r, "query", 0)
  BY DEF Kinds, Places, End
<1> QED
  BY <1>1, Bounds, GotoTypes

LEMMA SendTypes ==
    ASSUME CallsOK, interactionContext \in Sockets \cup {None}, NEW i \in Callers,
           NEW k \in Kinds, NEW n \in 0..TipQueries, Send(i, k, n)
    PROVE  CallsOK'
<1>1. Rejected(k) \in Resting /\ "failed" \in Resting /\ "waiting" \in Places
  BY DEF Rejected, Resting, Places
<1>2. CASE End(i, Rejected(k))
  BY <1>1, <1>2, EndTypes
<1>3. CASE End(i, IF n = QueriesOf(k) THEN "failed" ELSE Rejected(k))
  BY <1>1, <1>3, EndTypes
<1>4. CASE pc' = [pc EXCEPT ![i] = "waiting"] /\ kind' = [kind EXCEPT ![i] = k]
           /\ left' = [left EXCEPT ![i] = n] /\ at' = [at EXCEPT ![i] = interactionContext]
  BY <1>1, <1>4 DEF CallsOK
<1> QED
  BY <1>2, <1>3, <1>4 DEF Send

LEMMA ProceedTypes ==
    ASSUME CallsOK, interactionContext \in Sockets \cup {None}, NEW i \in Callers,
           NEW k \in Kinds, Proceed(i, k)
    PROVE  CallsOK'
<1>1. "answered" \in Resting /\ "failed" \in Resting /\ "probing" \in Places
  BY DEF Resting, Places
<1>2. QueriesOf(k) \in 0..TipQueries /\ 1 \in 0..TipQueries
  BY Bounds
<1>3. CASE End(i, "answered") \/ End(i, "failed")
  BY <1>1, <1>3, EndTypes
<1>4. CASE Goto(i, "probing", k, 1)
  BY <1>1, <1>2, <1>4, GotoTypes
<1>5. CASE Send(i, k, QueriesOf(k))
  BY <1>2, <1>5, SendTypes
<1> QED
  BY <1>3, <1>4, <1>5 DEF Proceed

LEMMA EndMoves ==
    ASSUME CallsOK, NEW i \in Callers, NEW r \in Resting, End(i, r) PROVE Moved(i)
BY DEF CallsOK, End, Goto, Moved, Resting, Connecting

LEMMA SendMoves ==
    ASSUME CallsOK, NEW i \in Callers, NEW k, NEW n, Send(i, k, n) PROVE Moved(i)
<1>1. Rejected(k) \in Resting /\ "failed" \in Resting
  BY DEF Rejected, Resting
<1>2. CASE End(i, Rejected(k))
  BY <1>1, <1>2, EndMoves
<1>3. CASE End(i, IF n = QueriesOf(k) THEN "failed" ELSE Rejected(k))
  BY <1>1, <1>3, EndMoves
<1>4. CASE Alive(interactionContext) /\ pc' = [pc EXCEPT ![i] = "waiting"]
           /\ at' = [at EXCEPT ![i] = interactionContext]
  BY <1>4 DEF CallsOK, Moved, Connecting
<1> QED
  BY <1>2, <1>3, <1>4 DEF Send

LEMMA ProceedMoves ==
    ASSUME CallsOK, NEW i \in Callers, NEW k, Proceed(i, k) PROVE Moved(i)
<1>1. "answered" \in Resting /\ "failed" \in Resting
  BY DEF Resting
<1>2. CASE End(i, "answered") \/ End(i, "failed")
  BY <1>1, <1>2, EndMoves
<1>3. CASE Goto(i, "probing", k, 1)
  BY <1>3 DEF CallsOK, Goto, Moved, Connecting
<1>4. CASE Send(i, k, QueriesOf(k))
  BY <1>4, SendMoves
<1> QED
  BY <1>2, <1>3, <1>4 DEF Proceed

------------------------------------------------------------------------------
(* Steps of calls that leave the fields and the sockets alone. *)

\* The steps that only move a call on.
JustMoves(i) == HealthAnswers(i) \/ Answer(i) \/ Refuse(i) \/ DialFails(i)

LEMMA JustMovesTypes ==
    ASSUME OgmiosTypeOK, NEW i \in Callers, JustMoves(i) PROVE CallsOK'
<1> USE DEF OgmiosTypeOK, CallsOK, Kinds, Places
<1>1. CallsOK /\ interactionContext \in Sockets \cup {None} /\ kind[i] \in Kinds
  OBVIOUS
<1> HIDE DEF OgmiosTypeOK, CallsOK, Kinds, Places
<1>2. "answered" \in Resting /\ "failed" \in Resting /\ Rejected(kind[i]) \in Resting
  BY DEF Resting, Rejected
<1>3. CASE End(i, "answered") \/ End(i, "failed") \/ End(i, Rejected(kind[i]))
  BY <1>1, <1>2, <1>3, EndTypes
<1>4. CASE kind[i] = "test" /\ Send(i, "test", 1)
  BY <1>1, <1>4, Bounds, SendTypes
<1>5. CASE left[i] > 1 /\ Send(i, kind[i], left[i] - 1)
  <2>1. left[i] - 1 \in 0..TipQueries
    BY <1>1, <1>5, OgmiosAssumption DEF CallsOK
  <2> QED
    BY <1>1, <1>5, <2>1, SendTypes
<1> QED
  BY <1>3, <1>4, <1>5 DEF JustMoves, HealthAnswers, Answer, Refuse, DialFails

LEMMA JustMovesMoves ==
    ASSUME OgmiosTypeOK, NEW i \in Callers, JustMoves(i) PROVE Moved(i)
<1>1. CallsOK
  BY DEF OgmiosTypeOK, CallsOK, Kinds, Places
<1>2. "answered" \in Resting /\ "failed" \in Resting /\ Rejected(kind[i]) \in Resting
  BY DEF Resting, Rejected
<1>3. CASE End(i, "answered") \/ End(i, "failed") \/ End(i, Rejected(kind[i]))
  BY <1>1, <1>2, <1>3, EndMoves
<1>4. CASE Send(i, "test", 1) \/ Send(i, kind[i], left[i] - 1)
  BY <1>1, <1>4, SendMoves
<1> QED
  BY <1>3, <1>4 DEF JustMoves, HealthAnswers, Answer, Refuse, DialFails

\* They leave the rest alone.
LEMMA JustMovesFrame ==
    ASSUME OgmiosTypeOK, NEW i \in Callers, JustMoves(i)
    PROVE  /\ UNCHANGED <<fields, socket, server, stopped, history>>
           /\ mishaps' \in 0..MaxMishaps
BY OgmiosAssumption DEF OgmiosTypeOK, JustMoves, HealthAnswers, Answer, Refuse, DialFails, Mishap

------------------------------------------------------------------------------
(* Types. *)

LEMMA CallTypes ==
    ASSUME OgmiosTypeOK, NEW i \in Callers, NEW k \in Kinds, Call(i, k) PROVE OgmiosTypeOK'
<1>1. CallsOK /\ interactionContext \in Sockets \cup {None}
  BY DEF OgmiosTypeOK, CallsOK, Kinds, Places
<1>2. CASE Proceed(i, k) /\ UNCHANGED crossed
  BY <1>1, <1>2, ProceedTypes DEF OgmiosTypeOK, CallsOK, Kinds, Places, Call, fields
<1>3. CASE Goto(i, "dialing", k, 0)
  <2>1. "dialing" \in Places
    BY DEF Places, Connecting
  <2>2. CallsOK'
    BY <1>1, <1>3, <2>1, Bounds, GotoTypes
  <2>3. crossed' \in BOOLEAN
    BY DEF Call, OgmiosTypeOK
  <2> QED
    BY <2>2, <2>3 DEF OgmiosTypeOK, CallsOK, Kinds, Places, Call, fields
<1> QED
  BY <1>2, <1>3 DEF Call

LEMMA HealthTypes ==
    ASSUME OgmiosTypeOK, NEW i \in Callers, IsHealthy(i) PROVE OgmiosTypeOK'
<1>1. CallsOK /\ "health" \in Kinds /\ "probing" \in Places
  BY DEF OgmiosTypeOK, CallsOK, Kinds, Places
<1>2. CallsOK'
  BY <1>1, Bounds, GotoTypes DEF IsHealthy
<1> QED
  BY <1>2 DEF OgmiosTypeOK, CallsOK, Kinds, Places, IsHealthy, fields, history

LEMMA DialTypes ==
    ASSUME OgmiosTypeOK, NEW i \in Callers, DialSucceeds(i) PROVE OgmiosTypeOK'
<1>1. CallsOK /\ kind[i] \in Kinds /\ "preparing" \in Places
  BY DEF OgmiosTypeOK, CallsOK, Kinds, Places, Connecting
<1>2. CallsOK'
  BY <1>1, Bounds, GotoTypes DEF DialSucceeds
<1>3. PICK s \in Unnamed : socket' = [socket EXCEPT ![s] = "open"]
                           /\ interactionContext' = s /\ missed' = missed \ {s}
  BY DEF DialSucceeds
<1>4. s \in Sockets
  BY <1>3 DEF Unnamed
<1> QED
  BY <1>2, <1>3, <1>4 DEF OgmiosTypeOK, CallsOK, Kinds, Places, DialSucceeds

LEMMA LedgerTypes ==
    ASSUME OgmiosTypeOK, NEW i \in Callers, LedgerReady(i) \/ LedgerFails(i)
    PROVE  OgmiosTypeOK'
<1>1. /\ CallsOK /\ interactionContext \in Sockets \cup {None}
      /\ kind[i] \in Kinds /\ "failed" \in Resting
  BY DEF OgmiosTypeOK, CallsOK, Kinds, Places, Resting
<1>2. CASE LedgerReady(i)
  <2>1. CallsOK'
    BY <1>1, <1>2, ProceedTypes DEF LedgerReady
  <2> QED
    BY <1>2, <2>1 DEF OgmiosTypeOK, CallsOK, Kinds, Places, LedgerReady, history
<1>3. CASE LedgerFails(i)
  <2>1. CallsOK'
    BY <1>1, <1>3, EndTypes DEF LedgerFails
  <2>2. mishaps' \in 0..MaxMishaps
    BY <1>3, OgmiosAssumption DEF OgmiosTypeOK, LedgerFails, Mishap
  <2> QED
    BY <1>3, <2>1, <2>2 DEF OgmiosTypeOK, CallsOK, Kinds, Places, LedgerFails, fields
<1> QED
  BY <1>2, <1>3

LEMMA MovesTypes ==
    ASSUME OgmiosTypeOK, NEW i \in Callers, JustMoves(i) PROVE OgmiosTypeOK'
<1>1. CallsOK'
  BY JustMovesTypes
<1>2. /\ UNCHANGED <<fields, socket, server, stopped, history>>
      /\ mishaps' \in 0..MaxMishaps
  BY JustMovesFrame
<1> QED
  BY <1>1, <1>2 DEF OgmiosTypeOK, CallsOK, Kinds, Places, fields, history

LEMMA EventTypes ==
    ASSUME OgmiosTypeOK, NEW s \in Sockets, ErrorEvent(s) \/ CloseEvent(s)
    PROVE  OgmiosTypeOK'
<1>1. CallsOK'
  <2>1. RejectOn(s) /\ \A k \in Kinds : Rejected(k) \in Resting
    BY DEF ErrorEvent, CloseEvent, Rejected, Resting
  <2> QED
    BY <2>1, Bounds DEF OgmiosTypeOK, CallsOK, Kinds, Places, RejectOn
<1>2. missed' \subseteq Sockets /\ socket' \in [Sockets -> {"unused", "open", "lost", "failing", "gone"}]
  BY DEF OgmiosTypeOK, ErrorEvent, CloseEvent
<1>3. crossed' \in BOOLEAN
  BY DEF OgmiosTypeOK, ErrorEvent, CloseEvent
<1> QED
  BY <1>1, <1>2, <1>3 DEF OgmiosTypeOK, CallsOK, Kinds, Places, ErrorEvent, CloseEvent

LEMMA WorldTypes ==
    ASSUME OgmiosTypeOK,
           (\E s \in Sockets : Lose(s)) \/ ServerStops \/ ServerStarts \/ Disconnect
    PROVE  OgmiosTypeOK'
<1>1. CASE \E s \in Sockets : Lose(s)
  BY <1>1, OgmiosAssumption DEF OgmiosTypeOK, Lose, Mishap, fields, calls, history
<1>2. CASE ServerStops
  <2>1. socket' \in [Sockets -> {"unused", "open", "lost", "failing", "gone"}]
    BY <1>2 DEF OgmiosTypeOK, ServerStops
  <2>2. mishaps' \in 0..MaxMishaps /\ server' = FALSE
    BY <1>2, OgmiosAssumption DEF OgmiosTypeOK, ServerStops, Mishap
  <2> QED
    BY <1>2, <2>1, <2>2 DEF OgmiosTypeOK, ServerStops, fields, calls, history
<1>3. CASE ServerStarts
  BY <1>3 DEF OgmiosTypeOK, ServerStarts, fields, calls, history
<1>4. CASE Disconnect
  <2>1. mishaps' \in 0..MaxMishaps /\ UNCHANGED <<calls, server, history>> /\ stopped' = TRUE
    BY <1>4, OgmiosAssumption DEF OgmiosTypeOK, Disconnect, Mishap
  <2>2. /\ socket' \in [Sockets -> {"unused", "open", "lost", "failing", "gone"}]
        /\ isConnected' \in BOOLEAN /\ interactionContext' \in Sockets \cup {None}
    BY <1>4 DEF OgmiosTypeOK, Disconnect, fields
  <2> QED
    BY <2>1, <2>2 DEF OgmiosTypeOK, calls, history
<1> QED
  BY <1>1, <1>2, <1>3, <1>4

\* A process that starts is one whose calls and sockets are new.
LEMMA ExitTypes ==
    ASSUME OgmiosTypeOK, Exit, mishaps' \in 0..MaxMishaps PROVE OgmiosTypeOK'
<1>1. FreshCall \in [Callers -> Places] /\ FreshKind \in [Callers -> Kinds]
  BY DEF FreshCall, FreshKind, Places, Kinds, Resting, Connecting
<1> QED
  BY <1>1, Bounds DEF OgmiosTypeOK, Exit, NoSocket, Kinds, Places

LEMMA StartTypes == Init => OgmiosTypeOK
<1> SUFFICES ASSUME Init PROVE OgmiosTypeOK
  OBVIOUS
<1>1. FreshCall \in [Callers -> Places] /\ FreshKind \in [Callers -> Kinds]
  BY DEF FreshCall, FreshKind, Places, Kinds, Resting, Connecting
<1>2. 0 \in 0..MaxMishaps
  BY OgmiosAssumption
<1> QED
  BY <1>1, <1>2, Bounds DEF OgmiosTypeOK, Init, NoSocket, Kinds, Places

\* What calls are for.
LEMMA AsksKinds == \A i \in Callers : Asks[i] \subseteq Kinds
BY OgmiosAssumption DEF Kinds

LEMMA TypesStep == OgmiosTypeOK /\ [Next]_ogmiosVars => OgmiosTypeOK'
<1> SUFFICES ASSUME OgmiosTypeOK, [Next]_ogmiosVars PROVE OgmiosTypeOK'
  OBVIOUS
<1>1. CASE UNCHANGED ogmiosVars
  BY <1>1 DEF OgmiosTypeOK, ogmiosVars, fields, calls, history
<1>2. ASSUME NEW i \in Callers, CallStep(i) PROVE OgmiosTypeOK'
  BY <1>2, DialTypes, LedgerTypes, MovesTypes DEF CallStep, JustMoves
<1>3. ASSUME NEW i \in Callers, Arrive(i) PROVE OgmiosTypeOK'
  BY <1>3, AsksKinds, CallTypes, HealthTypes DEF Arrive
<1>4. ASSUME NEW s \in Sockets, ErrorEvent(s) \/ CloseEvent(s) PROVE OgmiosTypeOK'
  BY <1>4, EventTypes
<1>5. CASE Environment
  <2>1. CASE Mishap /\ Exit
    BY <2>1, ExitTypes, OgmiosAssumption DEF Mishap, OgmiosTypeOK
  <2> QED
    BY <1>5, <2>1, WorldTypes DEF Environment
<1> QED
  BY <1>1, <1>2, <1>3, <1>4, <1>5 DEF Next

------------------------------------------------------------------------------
(* What the client can meet, in any system that it is a part of: its own steps, calls by *)
(* anybody, exits for any reason, and steps that do not concern it.                      *)

ClientNext ==
    \/ \E i \in Callers : CallStep(i) \/ IsHealthy(i) \/ \E k \in Kinds : Call(i, k)
    \/ \E s \in Sockets : ErrorEvent(s) \/ CloseEvent(s) \/ Lose(s)
    \/ ServerStops \/ ServerStarts \/ Disconnect \/ Exit
    \/ UNCHANGED <<fields, socket, calls, server, stopped, history>>

LEMMA NextIsClients == [Next]_ogmiosVars => ClientNext
BY AsksKinds DEF Next, Arrive, Environment, ClientNext, ogmiosVars

------------------------------------------------------------------------------
(* The flag. *)

\* What counts for the flag: the context is alive, or closed unseen, or given up.
Good == Alive(interactionContext) \/ interactionContext \in missed \/ stopped

\* A step that only moves calls on, none of them to its second await.
LEMMA FlagMoves ==
    ASSUME OgmiosTypeOK, FlagInv, NEW i \in Callers, Moved(i),
           UNCHANGED <<interactionContext, socket, stopped, missed>>,
           isConnected' => isConnected \/ pc[i] = "preparing"
    PROVE  FlagInv'
<1>1. \A j \in Callers : pc'[j] = "preparing" => pc[j] = "preparing"
  BY DEF Moved, Connecting
<1>2. Good' = Good
  BY DEF Good, Alive
<1> QED
  BY <1>1, <1>2 DEF FlagInv, Good

LEMMA FlagStep == OgmiosTypeOK /\ FlagInv /\ ClientNext => FlagInv'
<1> SUFFICES ASSUME OgmiosTypeOK, FlagInv, ClientNext PROVE FlagInv'
  OBVIOUS
<1>0. CallsOK /\ "failed" \in Resting
  BY DEF OgmiosTypeOK, CallsOK, Kinds, Places, Resting
<1>1. CASE UNCHANGED <<fields, socket, calls, server, stopped, history>>
  BY <1>1 DEF FlagInv, Alive, fields, calls, history
<1>2. ASSUME NEW i \in Callers, JustMoves(i) PROVE FlagInv'
  BY <1>2, JustMovesMoves, JustMovesFrame, FlagMoves DEF fields, history
<1>3. ASSUME NEW i \in Callers, DialSucceeds(i) PROVE FlagInv'
  <2>1. PICK s \in Unnamed : socket' = [socket EXCEPT ![s] = "open"] /\ interactionContext' = s
    BY <1>3 DEF DialSucceeds
  <2>2. s \in Sockets /\ s # None
    BY <2>1, OgmiosAssumption DEF Unnamed
  <2> QED
    BY <2>1, <2>2 DEF FlagInv, Alive, OgmiosTypeOK
<1>4. ASSUME NEW i \in Callers, LedgerReady(i) PROVE FlagInv'
  <2>1. Moved(i) /\ pc[i] = "preparing"
    BY <1>0, <1>4, ProceedMoves DEF LedgerReady
  <2> QED
    BY <1>4, <2>1, FlagMoves DEF LedgerReady, history
<1>5. ASSUME NEW i \in Callers, LedgerFails(i) PROVE FlagInv'
  <2>1. Moved(i)
    BY <1>0, <1>5, EndMoves DEF LedgerFails
  <2> QED
    BY <1>5, <2>1, FlagMoves DEF LedgerFails, fields
<1>6. ASSUME NEW i \in Callers, NEW k \in Kinds, Call(i, k) PROVE FlagInv'
  <2>1. CASE Proceed(i, k)
    <3>1. Moved(i)
      BY <1>0, <2>1, ProceedMoves
    <3> QED
      BY <1>6, <3>1, FlagMoves DEF Call, fields
  <2>2. CASE Goto(i, "dialing", k, 0)
    <3>1. \A j \in Callers : pc'[j] = "preparing" => pc[j] = "preparing"
      BY <1>0, <2>2 DEF CallsOK, Goto
    <3> QED
      BY <1>6, <3>1 DEF FlagInv, Alive, Call, fields
  <2> QED
    BY <1>6, <2>1, <2>2 DEF Call
<1>7. ASSUME NEW i \in Callers, IsHealthy(i) PROVE FlagInv'
  <2>1. Moved(i)
    BY <1>0, <1>7 DEF CallsOK, IsHealthy, Goto, Moved, Connecting
  <2> QED
    BY <1>7, <2>1, FlagMoves DEF IsHealthy, fields, history
<1>8. ASSUME NEW s \in Sockets, ErrorEvent(s) \/ CloseEvent(s) PROVE FlagInv'
  <2>1. ~isConnected' /\ \A j \in Callers : pc'[j] = "preparing" => pc[j] = "preparing"
    BY <1>8 DEF ErrorEvent, CloseEvent, RejectOn, Rejected
  <2>2. CASE ErrorEvent(s)
    <3>1. Good => Good'
      BY <2>2 DEF Good, Alive, ErrorEvent, OgmiosTypeOK
    <3> QED
      BY <2>1, <3>1 DEF FlagInv, Good
  <2>3. CASE CloseEvent(s)
    <3>1. (\E j \in Callers : pc[j] = "preparing") /\ Good => Good'
      BY <2>3 DEF Good, Alive, CloseEvent, OgmiosTypeOK
    <3> QED
      BY <2>1, <3>1 DEF FlagInv, Good
  <2> QED
    BY <1>8, <2>2, <2>3
<1>9. ASSUME NEW s \in Sockets, Lose(s) PROVE FlagInv'
  <2>1. Good => Good'
    BY <1>9 DEF Good, Alive, Lose, OgmiosTypeOK, fields, history
  <2> QED
    BY <1>9, <2>1 DEF FlagInv, Good, Lose, fields, calls
<1>10. CASE ServerStops
  <2>1. Good => Good'
    BY <1>10 DEF Good, Alive, ServerStops, OgmiosTypeOK, fields, history
  <2> QED
    BY <1>10, <2>1 DEF FlagInv, Good, ServerStops, fields, calls
<1>11. CASE ServerStarts
  BY <1>11 DEF FlagInv, Alive, ServerStarts, fields, calls, history
<1>12. CASE Disconnect
  BY <1>12 DEF FlagInv, Disconnect
<1>13. CASE Exit
  BY <1>13 DEF FlagInv, Exit, FreshCall
<1> QED
  <2>1. ASSUME NEW i \in Callers, CallStep(i) PROVE FlagInv'
    BY <2>1, <1>2, <1>3, <1>4, <1>5 DEF CallStep, JustMoves
  <2> QED
    BY <2>1, <1>1, <1>6, <1>7, <1>8, <1>9, <1>10, <1>11, <1>12, <1>13 DEF ClientNext

------------------------------------------------------------------------------
(* The sockets. *)

\* A step that moves a call on, ends no preparation that it does not confirm, and
\* opens nothing.
LEMMA SocketMoves ==
    ASSUME OgmiosTypeOK, SocketInv, NEW i \in Callers, Moved(i),
           UNCHANGED <<interactionContext, socket, crossed>>,
           isConnected => isConnected', pc[i] = "preparing" => isConnected'
    PROVE  SocketInv'
<1>1. \A j \in Callers : pc'[j] \in Connecting => pc[j] \in Connecting /\ pc'[j] = pc[j]
  BY DEF Moved
<1>2. (\E j \in Callers : pc[j] = "preparing") => isConnected' \/ \E j \in Callers : pc'[j] = "preparing"
  BY DEF Moved
<1>3. \A j \in Callers : pc'[j] = "dialing" => pc[j] = "dialing"
  BY <1>1 DEF Connecting
<1> QED
  BY <1>1, <1>2, <1>3 DEF SocketInv

\* Where nothing is open the rest is about calls only.
LEMMA SocketClosed ==
    ASSUME OgmiosTypeOK, SocketInv,
           crossed => crossed',
           ~crossed' => \A s \in Sockets : socket'[s] # "open",
           \A j \in Callers : pc'[j] \in Connecting => pc[j] \in Connecting
    PROVE  SocketInv'
BY DEF SocketInv

\* An event closes the one socket that was open, or has crossed.
LEMMA EventCloses ==
    ASSUME OgmiosTypeOK, SocketInv, NEW s \in Sockets, ErrorEvent(s) \/ CloseEvent(s)
    PROVE  SocketInv'
<1>1. crossed => crossed'
  BY DEF ErrorEvent, CloseEvent
<1>2. ~crossed' => ~crossed /\ s = interactionContext
  BY DEF ErrorEvent, CloseEvent
<1>3. /\ socket'[s] # "open" /\ socket[s] # "open"
      /\ \A t \in Sockets : t # s => socket'[t] = socket[t]
  BY DEF ErrorEvent, CloseEvent, OgmiosTypeOK
<1>4. ~crossed' => \A t \in Sockets : socket'[t] # "open"
  BY <1>2, <1>3 DEF SocketInv
<1>5. \A j \in Callers : pc'[j] \in Connecting => pc[j] \in Connecting
  BY DEF ErrorEvent, CloseEvent, RejectOn, Rejected, Connecting
<1> QED
  BY <1>1, <1>4, <1>5, SocketClosed

\* A call that finds the client disconnected is the only one, or has crossed another.
LEMMA CallOpens ==
    ASSUME OgmiosTypeOK, SocketInv, NEW i \in Callers, NEW k \in Kinds, Call(i, k),
           ~isConnected
    PROVE  SocketInv'
<1>1. Goto(i, "dialing", k, 0) /\ UNCHANGED <<fields, socket>>
  BY DEF Call
<1>2. crossed' = (crossed \/ \E j \in Callers : pc[j] \in Connecting)
  BY DEF Call
<1>3. \A j \in Callers : j # i => pc'[j] = pc[j]
  BY <1>1 DEF Goto, OgmiosTypeOK
<1>4. CASE crossed'
  BY <1>4 DEF SocketInv
<1>5. CASE ~crossed'
  <2>1. ~crossed /\ \A j \in Callers : pc[j] \notin Connecting
    BY <1>2, <1>5
  <2>2. \A s \in Sockets : socket[s] # "open"
    BY <2>1 DEF SocketInv, Connecting
  <2> QED
    BY <1>1, <1>3, <2>1, <2>2 DEF SocketInv, fields
<1> QED
  BY <1>4, <1>5, <1>2

LEMMA SocketStep == OgmiosTypeOK /\ SocketInv /\ ClientNext => SocketInv'
<1> SUFFICES ASSUME OgmiosTypeOK, SocketInv, ClientNext PROVE SocketInv'
  OBVIOUS
<1>0. CallsOK /\ "failed" \in Resting
  BY DEF OgmiosTypeOK, CallsOK, Kinds, Places, Resting
<1>1. CASE UNCHANGED <<fields, socket, calls, server, stopped, history>>
  BY <1>1 DEF SocketInv, fields, calls, history
<1>2. ASSUME NEW i \in Callers, JustMoves(i) PROVE SocketInv'
  <2>1. pc[i] # "preparing"
    BY <1>2 DEF JustMoves, HealthAnswers, Answer, Refuse, DialFails
  <2> QED
    BY <1>2, <2>1, JustMovesMoves, JustMovesFrame, SocketMoves DEF fields, history
<1>3. ASSUME NEW i \in Callers, DialSucceeds(i) PROVE SocketInv'
  <2>1. PICK s \in Unnamed : socket' = [socket EXCEPT ![s] = "open"] /\ interactionContext' = s
    BY <1>3 DEF DialSucceeds
  <2>2. /\ pc' = [pc EXCEPT ![i] = "preparing"] /\ pc[i] = "dialing" /\ crossed' = crossed
        /\ s \in Sockets
    BY <1>3, <2>1 DEF DialSucceeds, Goto, Unnamed
  <2>3. ASSUME ~crossed PROVE \A j \in Callers : j # i => pc[j] \notin Connecting
    BY <2>2, <2>3 DEF SocketInv, Connecting
  <2>4. ASSUME ~crossed PROVE \A t \in Sockets : socket[t] # "open"
    BY <2>2, <2>4 DEF SocketInv
  <2>5. pc'[i] = "preparing" /\ \A j \in Callers : j # i => pc'[j] = pc[j]
    BY <2>2, <1>0 DEF CallsOK
  <2>6. \A t \in Sockets : socket'[t] = "open" => t = s \/ socket[t] = "open"
    BY <2>1 DEF OgmiosTypeOK
  <2> QED
    BY <2>1, <2>2, <2>3, <2>4, <2>5, <2>6 DEF SocketInv, Connecting
<1>4. ASSUME NEW i \in Callers, LedgerReady(i) PROVE SocketInv'
  <2>1. Moved(i)
    BY <1>0, <1>4, ProceedMoves DEF LedgerReady
  <2> QED
    BY <1>4, <2>1, SocketMoves DEF LedgerReady, history
<1>5. ASSUME NEW i \in Callers, LedgerFails(i) PROVE SocketInv'
  BY <1>5 DEF LedgerFails, SocketInv
<1>6. ASSUME NEW i \in Callers, NEW k \in Kinds, Call(i, k) PROVE SocketInv'
  <2>1. CASE isConnected
    <3>1. Moved(i) /\ pc[i] # "preparing"
      BY <1>0, <1>6, <2>1, ProceedMoves DEF Call, Resting
    <3> QED
      BY <1>6, <2>1, <3>1, SocketMoves DEF Call, fields
  <2>2. CASE ~isConnected
    BY <1>6, <2>2, CallOpens
  <2> QED
    BY <2>1, <2>2
<1>7. ASSUME NEW i \in Callers, IsHealthy(i) PROVE SocketInv'
  <2>1. Moved(i) /\ pc[i] # "preparing"
    BY <1>0, <1>7 DEF CallsOK, IsHealthy, Goto, Moved, Connecting, Resting
  <2> QED
    BY <1>7, <2>1, SocketMoves DEF IsHealthy, fields, history
<1>8. ASSUME NEW s \in Sockets, ErrorEvent(s) \/ CloseEvent(s) PROVE SocketInv'
  BY <1>8, EventCloses
<1>9. ASSUME NEW s \in Sockets, Lose(s) PROVE SocketInv'
  <2>1. \A t \in Sockets : socket'[t] = "open" => socket[t] = "open"
    BY <1>9 DEF Lose, OgmiosTypeOK
  <2> QED
    BY <1>9, <2>1 DEF SocketInv, Lose, fields, calls, history
<1>10. CASE ServerStops
  <2>1. \A t \in Sockets : socket'[t] = "open" => socket[t] = "open"
    BY <1>10 DEF ServerStops, OgmiosTypeOK
  <2> QED
    BY <1>10, <2>1 DEF SocketInv, ServerStops, fields, calls, history
<1>11. CASE ServerStarts
  BY <1>11 DEF SocketInv, ServerStarts, fields, calls, history
<1>12. CASE Disconnect
  <2>1. CASE interactionContext = None
    BY <1>12, <2>1, OgmiosAssumption DEF SocketInv, Disconnect, fields, calls, history
  <2>2. CASE interactionContext # None
    <3>1. \A t \in Sockets : socket'[t] = "open" => socket[t] = "open" /\ t # interactionContext
      BY <1>12, <2>2 DEF Disconnect, OgmiosTypeOK
    <3>2. UNCHANGED <<calls, history>>
      BY <1>12 DEF Disconnect
    <3>3. ~crossed' => \A t \in Sockets : socket'[t] # "open"
      BY <3>1, <3>2 DEF SocketInv, history
    <3> QED
      BY <3>2, <3>3, SocketClosed DEF calls, history
  <2> QED
    BY <2>1, <2>2
<1>13. CASE Exit
  BY <1>13 DEF SocketInv, Exit, FreshCall, NoSocket, Connecting
<1> QED
  <2>1. ASSUME NEW i \in Callers, CallStep(i) PROVE SocketInv'
    BY <2>1, <1>2, <1>3, <1>4, <1>5 DEF CallStep, JustMoves
  <2> QED
    BY <2>1, <1>1, <1>6, <1>7, <1>8, <1>9, <1>10, <1>11, <1>12, <1>13 DEF ClientNext

------------------------------------------------------------------------------
(* Theorems. *)

IInv == OgmiosTypeOK /\ FlagInv /\ SocketInv

LEMMA FirstStateHas == Init => IInv
<1> SUFFICES ASSUME Init PROVE IInv
  OBVIOUS
<1>1. FlagInv
  BY DEF Init, FlagInv, FreshCall
<1>2. SocketInv
  BY DEF Init, SocketInv, FreshCall, NoSocket, Connecting
<1> QED
  BY <1>1, <1>2, StartTypes DEF IInv

LEMMA Invariance == Spec => []IInv
<1>1. IInv /\ [Next]_ogmiosVars => IInv'
  BY NextIsClients, TypesStep, FlagStep, SocketStep DEF IInv
<1> QED
  BY <1>1, FirstStateHas, PTL DEF Spec

\* Type correctness of the client's fields, its sockets and its calls.
THEOREM OgmiosTypes == Spec => []OgmiosTypeOK
<1>1. IInv => OgmiosTypeOK
  BY DEF IInv
<1> QED
  BY <1>1, Invariance, PTL

\* A client that counts itself connected uses a socket that will report its end,
\* unless it closed between the two awaits of connect() or the process is stopping.
THEOREM FlagCorrected == Spec => []FlagIsCorrected
<1>1. IInv => FlagIsCorrected
  BY DEF IInv, FlagInv, FlagIsCorrected
<1> QED
  BY <1>1, Invariance, PTL

\* Only calls that connect at the same time, a ledger client that cannot be made, or a
\* late event of an older socket leave a socket open that no field names.
THEOREM SocketsKept == Spec => []NoSocketForgotten
<1>1. IInv => NoSocketForgotten
  BY DEF IInv, SocketInv, NoSocketForgotten
<1> QED
  BY <1>1, Invariance, PTL

------------------------------------------------------------------------------
(* Calls that overlap, while nothing fails. *)

\* A call that counts on a context; and what it then finds.
CountsOn(i) == pc[i] \in {"preparing", "waiting"} \/ (pc[i] = "probing" /\ kind[i] = "test")

HarmlessInv ==
    mishaps = 0 =>
        /\ ~stopped
        /\ \A s \in Sockets : socket[s] \in {"unused", "open"}
        /\ interactionContext # None => socket[interactionContext] = "open"
        /\ isConnected => interactionContext # None
        /\ \A i \in Callers : CountsOn(i) => interactionContext # None

\* A query goes out, where there is a context that is alive.
LEMMA SendGoesOut ==
    ASSUME Alive(interactionContext), NEW i \in Callers, NEW k, NEW n, Send(i, k, n)
    PROVE  pc' = [pc EXCEPT ![i] = "waiting"] /\ kind' = [kind EXCEPT ![i] = k]
BY DEF Send, Alive

\* A call that goes on where there is such a context does not fail.
LEMMA GoesOn ==
    ASSUME CallsOK, Alive(interactionContext), NEW i \in Callers, NEW k \in Kinds, Proceed(i, k)
    PROVE  /\ pc'[i] \notin {"failed", "null"}
           /\ \A j \in Callers \ {i} : pc'[j] = pc[j] /\ kind'[j] = kind[j]
<1>1. CASE End(i, "answered") \/ Goto(i, "probing", k, 1)
  BY <1>1 DEF CallsOK, End, Goto
<1>2. CASE Send(i, k, QueriesOf(k))
  BY <1>2, SendGoesOut DEF CallsOK
<1> QED
  BY <1>1, <1>2 DEF Proceed, Alive

\* One step of one call, while nothing fails: it moves alone, finds a context that is
\* alive if it counts on one, and fails only where there is no server.
LEMMA HarmlessStep ==
    ASSUME OgmiosTypeOK, HarmlessInv, [Next]_ogmiosVars, mishaps' = 0
    PROVE  /\ HarmlessInv'
           /\ server => \A i \in Callers : pc'[i] \in {"failed", "null"} => pc[i] = pc'[i]
<1> DEFINE Fails == \E i \in Callers : pc'[i] \in {"failed", "null"} /\ pc[i] # pc'[i]
<1> SUFFICES HarmlessInv' /\ (server => ~Fails)
  OBVIOUS
<1>0. mishaps = 0 /\ ~Mishap
  <2>1. mishaps \in Nat /\ ~Mishap
    BY OgmiosAssumption DEF OgmiosTypeOK, Mishap
  <2>2. UNCHANGED mishaps
    BY <2>1 DEF Next, CallStep, DialSucceeds, DialFails, LedgerReady, LedgerFails, HealthAnswers,
       Answer, Refuse, Arrive, Call, IsHealthy, ErrorEvent, CloseEvent, Environment, Lose,
       ServerStops, ServerStarts, Disconnect, ogmiosVars
  <2> QED
    BY <2>1, <2>2
<1>a. CallsOK
  BY DEF OgmiosTypeOK, CallsOK, Kinds, Places
<1>b. interactionContext # None => Alive(interactionContext) /\ interactionContext \in Sockets
  BY <1>0 DEF HarmlessInv, Alive, OgmiosTypeOK
<1>c. \A s \in Sockets : socket[s] \in {"unused", "open"}
  BY <1>0 DEF HarmlessInv
<1>d. \A i \in Callers : CountsOn(i) => interactionContext # None
  BY <1>0 DEF HarmlessInv
<1>1. ASSUME NEW i \in Callers, UNCHANGED <<interactionContext, socket, stopped>>,
             isConnected' => interactionContext # None,
             \A j \in Callers \ {i} : pc'[j] = pc[j] /\ kind'[j] = kind[j],
             interactionContext = None => ~CountsOn(i)'
      PROVE  HarmlessInv'
  BY <1>0, <1>1 DEF HarmlessInv, CountsOn
<1>2. ASSUME NEW i \in Callers, DialSucceeds(i) PROVE HarmlessInv' /\ ~Fails
  <2>1. PICK s \in Unnamed : socket' = [socket EXCEPT ![s] = "open"] /\ interactionContext' = s
    BY <1>2 DEF DialSucceeds
  <2>2. s \in Sockets /\ s # None
    BY <2>1, OgmiosAssumption DEF Unnamed
  <2>3. ~stopped' /\ \A t \in Sockets : socket'[t] \in {"unused", "open"}
    BY <1>0, <1>2, <2>1, <2>2 DEF DialSucceeds, HarmlessInv, OgmiosTypeOK
  <2>4. ~Fails
    BY <1>a, <1>2 DEF DialSucceeds, Goto, CallsOK
  <2> QED
    BY <2>1, <2>2, <2>3, <2>4 DEF HarmlessInv, OgmiosTypeOK
<1>3. ASSUME NEW i \in Callers, DialFails(i) PROVE HarmlessInv' /\ ~server
  <2>1. pc'[i] = "failed" /\ \A j \in Callers \ {i} : pc'[j] = pc[j] /\ kind'[j] = kind[j]
    BY <1>a, <1>3 DEF DialFails, End, Goto, CallsOK
  <2> QED
    BY <1>0, <1>1, <1>3, <2>1 DEF DialFails, CountsOn, fields, HarmlessInv
<1>4. ASSUME NEW i \in Callers, LedgerReady(i) PROVE HarmlessInv' /\ ~Fails
  <2>1. Alive(interactionContext) /\ interactionContext # None
    BY <1>b, <1>d, <1>4 DEF LedgerReady, CountsOn
  <2>2. kind[i] \in Kinds
    BY <1>a DEF CallsOK
  <2>3. /\ pc'[i] \notin {"failed", "null"}
        /\ \A j \in Callers \ {i} : pc'[j] = pc[j] /\ kind'[j] = kind[j]
    BY <1>a, <1>4, <2>1, <2>2, GoesOn DEF LedgerReady
  <2> QED
    BY <1>1, <1>4, <2>1, <2>3 DEF LedgerReady
<1>5. ASSUME NEW i \in Callers, HealthAnswers(i) PROVE HarmlessInv' /\ (server => ~Fails)
  <2>1. \A j \in Callers \ {i} : pc'[j] = pc[j] /\ kind'[j] = kind[j]
    BY <1>a, <1>5, SendGoesOut, <1>b, <1>d DEF HealthAnswers, End, Goto, CallsOK, CountsOn
  <2>2. CASE kind[i] = "health" /\ End(i, "answered")
    BY <1>0, <1>a, <1>1, <1>5, <2>1, <2>2 DEF HealthAnswers, End, Goto, CallsOK, CountsOn, HarmlessInv, fields
  <2>3. CASE kind[i] = "test" /\ Send(i, "test", 1)
    <3>1. interactionContext # None
      BY <1>d, <1>5, <2>3 DEF HealthAnswers, CountsOn
    <3>2. pc'[i] = "waiting"
      BY <1>a, <1>b, <2>3, <3>1, SendGoesOut DEF CallsOK
    <3> QED
      BY <1>1, <1>5, <2>1, <3>1, <3>2 DEF HealthAnswers, fields
  <2>4. CASE kind[i] = "test" /\ ~server /\ End(i, "failed")
    BY <1>0, <1>a, <1>1, <1>5, <2>1, <2>4 DEF HealthAnswers, End, Goto, CallsOK, CountsOn, HarmlessInv, fields
  <2> QED
    BY <1>5, <2>2, <2>3, <2>4 DEF HealthAnswers
<1>6. ASSUME NEW i \in Callers, Answer(i) PROVE HarmlessInv' /\ ~Fails
  <2>1. interactionContext # None
    BY <1>d, <1>6 DEF Answer, CountsOn
  <2>2. /\ pc'[i] \notin {"failed", "null"}
        /\ \A j \in Callers \ {i} : pc'[j] = pc[j] /\ kind'[j] = kind[j]
    BY <1>a, <1>b, <1>6, <2>1, SendGoesOut DEF Answer, End, Goto, CallsOK
  <2> QED
    BY <1>1, <1>6, <2>1, <2>2 DEF Answer, fields
<1>7. ASSUME NEW i \in Callers, NEW k \in Kinds, Call(i, k) PROVE HarmlessInv' /\ ~Fails
  <2>1. CASE isConnected /\ Proceed(i, k)
    <3>1. interactionContext # None
      BY <1>0, <2>1 DEF HarmlessInv
    <3>2. /\ pc'[i] \notin {"failed", "null"}
          /\ \A j \in Callers \ {i} : pc'[j] = pc[j] /\ kind'[j] = kind[j]
      BY <1>a, <1>b, <2>1, <3>1, GoesOn
    <3> QED
      BY <1>1, <1>7, <3>1, <3>2 DEF Call, fields
  <2>2. CASE ~isConnected /\ Goto(i, "dialing", k, 0)
    <3>1. pc'[i] = "dialing" /\ \A j \in Callers \ {i} : pc'[j] = pc[j] /\ kind'[j] = kind[j]
      BY <1>a, <2>2 DEF Goto, CallsOK
    <3> QED
      BY <1>1, <1>7, <2>2, <3>1 DEF Call, fields, CountsOn
  <2> QED
    BY <1>7, <2>1, <2>2 DEF Call
<1>8. ASSUME NEW i \in Callers, IsHealthy(i) PROVE HarmlessInv' /\ ~Fails
  <2>1. /\ pc'[i] = "probing" /\ kind'[i] = "health"
        /\ \A j \in Callers \ {i} : pc'[j] = pc[j] /\ kind'[j] = kind[j]
    BY <1>a, <1>8 DEF IsHealthy, Goto, CallsOK
  <2> QED
    BY <1>0, <1>1, <1>8, <2>1 DEF IsHealthy, fields, CountsOn, HarmlessInv
<1>9. CASE ServerStarts \/ UNCHANGED ogmiosVars
  BY <1>9 DEF ServerStarts, ogmiosVars, fields, calls, history, HarmlessInv, CountsOn
<1>10. ASSUME NEW s \in Sockets PROVE ~ErrorEvent(s) /\ ~CloseEvent(s)
  BY <1>c DEF ErrorEvent, CloseEvent
<1>11. ~(\E s \in Sockets : Lose(s)) /\ ~ServerStops /\ ~Disconnect
       /\ \A i \in Callers : ~LedgerFails(i) /\ ~Refuse(i)
  BY <1>0 DEF Lose, ServerStops, Disconnect, LedgerFails, Refuse
<1>12. ASSUME NEW i \in Callers, CallStep(i) \/ Arrive(i) PROVE HarmlessInv' /\ (server => ~Fails)
  BY <1>2, <1>3, <1>4, <1>5, <1>6, <1>7, <1>8, <1>11, <1>12, AsksKinds DEF CallStep, Arrive
<1> QED
  BY <1>0, <1>9, <1>10, <1>11, <1>12 DEF Next, Environment

\* Calls that overlap never make one another fail: it takes a failure outside, or a client
\* that is stopped, for a call to end without an answer while the server runs.
THEOREM OverlapHarmless == Spec => OverlapIsHarmless
<1>1. Init => HarmlessInv
  BY DEF Init, HarmlessInv, CountsOn, FreshCall, NoSocket
<1>2. OgmiosTypeOK /\ HarmlessInv /\ [Next]_ogmiosVars => HarmlessInv'
  BY HarmlessStep DEF HarmlessInv
<1>3. OgmiosTypeOK /\ HarmlessInv /\ [Next]_ogmiosVars
        => [mishaps' = 0 /\ server =>
              \A i \in Callers : pc'[i] \in {"failed", "null"} => pc[i] = pc'[i]]_ogmiosVars
  BY HarmlessStep
<1> QED
  BY <1>1, <1>2, <1>3, OgmiosTypes, PTL DEF Spec, OverlapIsHarmless

------------------------------------------------------------------------------
(* Calls do not run for ever: each step of a call takes it to a later await, or *)
(* leaves it fewer queries.                                                     *)

StagesLeft(p) ==
    CASE p = "dialing" -> 4
      [] p = "preparing" -> 3
      [] p = "probing" -> 2
      [] p = "waiting" -> 1
      [] OTHER -> 0

\* What is left of a call at await p with n queries to make; the stages count most.
Rank(p, n) == [i \in 1 .. 2 |-> IF i = 1 THEN StagesLeft(p) ELSE n]

Less  == {ss \in Nat \X Nat : ss[1] < ss[2]}
Ranks == [1 .. 2 -> Nat]

\* The smaller and the larger of two ranks.
Lower == LexProductOrdering(Less, Nat, 2)

\* There is no infinite sequence of ranks, each one lower than the one before.
LEMMA LowerEnds == IsWellFoundedOn(Lower, Ranks)
<1>1. Less = OpToRel(<, Nat)
  BY DEF Less, OpToRel
<1>2. IsWellFoundedOn(Less, Nat)
  BY <1>1, NatLessThanWellFounded
<1> QED
  BY <1>2, WFLexProductOrdering DEF Lower, Ranks

LEMMA RankType == \A p, n : n \in Nat => Rank(p, n) \in Ranks
BY DEF Rank, Ranks, StagesLeft

InProgress(i) == pc[i] \notin Resting

\* Call i has less left.
Sinks(i) == <<Rank(pc[i], left[i])', Rank(pc[i], left[i])>> \in Lower

LEMMA SinksAt ==
    ASSUME OgmiosTypeOK, OgmiosTypeOK', NEW i \in Callers,
           \/ StagesLeft(pc'[i]) < StagesLeft(pc[i])
           \/ StagesLeft(pc'[i]) = StagesLeft(pc[i]) /\ left'[i] < left[i]
    PROVE  Sinks(i)
<1> DEFINE x == Rank(pc[i], left[i])  y == Rank(pc'[i], left'[i])
<1>1. left[i] \in Nat /\ left'[i] \in Nat
  BY OgmiosAssumption DEF OgmiosTypeOK
<1>2. /\ x \in Ranks /\ x[1] = StagesLeft(pc[i]) /\ x[2] = left[i]
      /\ y \in Ranks /\ y[1] = StagesLeft(pc'[i]) /\ y[2] = left'[i]
  BY <1>1, RankType DEF Rank
<1> HIDE DEF x, y
<1>3. PICK n \in 1 .. 2 : y[n] < x[n] /\ \A j \in 1 .. (n - 1) : y[j] = x[j]
  BY <1>2
<1>4. <<y[n], x[n]>> \in Less
  BY <1>2, <1>3 DEF Less, Ranks
<1>5. <<y, x>> \in Lower
  BY <1>2, <1>3, <1>4 DEF Lower, LexProductOrdering, Ranks
<1> QED
  BY <1>5 DEF Sinks, x, y

LEMMA Stages ==
    /\ StagesLeft("dialing") = 4 /\ StagesLeft("preparing") = 3
    /\ StagesLeft("probing") = 2 /\ StagesLeft("waiting") = 1
    /\ \A p : p \in Resting => StagesLeft(p) = 0
    /\ \A p \in Places : p \notin Resting => StagesLeft(p) > 0
BY DEF StagesLeft, Resting, Places, Connecting

LEMMA EndSinks ==
    ASSUME OgmiosTypeOK, OgmiosTypeOK', NEW i \in Callers, NEW r \in Resting, End(i, r),
           InProgress(i)
    PROVE  Sinks(i)
<1>1. pc'[i] = r /\ pc[i] \in Places
  BY DEF End, Goto, OgmiosTypeOK, Places
<1> QED
  BY <1>1, Stages, SinksAt DEF InProgress

LEMMA SendSinks ==
    ASSUME OgmiosTypeOK, OgmiosTypeOK', NEW i \in Callers, NEW k, NEW n, Send(i, k, n),
           \/ pc[i] \in {"preparing", "probing"}
           \/ pc[i] = "waiting" /\ n < left[i]
    PROVE  Sinks(i)
<1>0. InProgress(i)
  BY DEF InProgress, Resting
<1>1. Rejected(k) \in Resting /\ "failed" \in Resting
  BY DEF Rejected, Resting
<1>2. CASE End(i, Rejected(k))
  BY <1>0, <1>1, <1>2, EndSinks
<1>3. CASE End(i, IF n = QueriesOf(k) THEN "failed" ELSE Rejected(k))
  BY <1>0, <1>1, <1>3, EndSinks
<1>4. CASE pc' = [pc EXCEPT ![i] = "waiting"] /\ left' = [left EXCEPT ![i] = n]
  <2>1. pc'[i] = "waiting" /\ left'[i] = n
    BY <1>4 DEF OgmiosTypeOK
  <2> QED
    BY <2>1, Stages, SinksAt
<1> QED
  BY <1>2, <1>3, <1>4 DEF Send

LEMMA StepSinks ==
    ASSUME OgmiosTypeOK, OgmiosTypeOK', NEW i \in Callers, CallStep(i)
    PROVE  Sinks(i)
<1>1. /\ Rejected(kind[i]) \in Resting /\ "failed" \in Resting /\ "answered" \in Resting
      /\ left[i] \in Nat
  BY OgmiosAssumption DEF Rejected, Resting, OgmiosTypeOK
<1>2. CASE DialSucceeds(i)
  <2>1. pc[i] = "dialing" /\ pc'[i] = "preparing"
    BY <1>2 DEF DialSucceeds, Goto, OgmiosTypeOK
  <2> QED
    BY <2>1, Stages, SinksAt
<1>3. CASE LedgerReady(i)
  <2>1. pc[i] = "preparing" /\ InProgress(i)
    BY <1>3 DEF LedgerReady, InProgress, Resting
  <2>2. CASE Goto(i, "probing", kind[i], 1)
    <3>1. pc'[i] = "probing"
      BY <2>2 DEF Goto, OgmiosTypeOK
    <3> QED
      BY <2>1, <3>1, Stages, SinksAt
  <2> QED
    BY <1>1, <1>3, <2>1, <2>2, EndSinks, SendSinks DEF LedgerReady, Proceed
<1>4. CASE HealthAnswers(i)
  BY <1>1, <1>4, EndSinks, SendSinks DEF HealthAnswers, InProgress, Resting
<1>5. CASE Answer(i)
  BY <1>1, <1>5, EndSinks, SendSinks DEF Answer, InProgress, Resting
<1>6. CASE Refuse(i) \/ DialFails(i) \/ LedgerFails(i)
  <2>1. InProgress(i)
    BY <1>6 DEF Refuse, DialFails, LedgerFails, InProgress, Resting
  <2> QED
    BY <1>1, <1>6, <2>1, EndSinks DEF Refuse, DialFails, LedgerFails
<1> QED
  BY <1>2, <1>3, <1>4, <1>5, <1>6 DEF CallStep

\* Steps of one call leave the others where they are.
Same(i) == UNCHANGED <<pc[i], left[i]>>

LEMMA GotoOwn ==
    ASSUME OgmiosTypeOK, NEW i \in Callers, NEW j \in Callers, i # j,
           NEW p, NEW k, NEW n, Goto(j, p, k, n)
    PROVE  Same(i)
BY DEF Goto, OgmiosTypeOK, Same

LEMMA SendOwn ==
    ASSUME OgmiosTypeOK, NEW i \in Callers, NEW j \in Callers, i # j,
           NEW k, NEW n, Send(j, k, n)
    PROVE  Same(i)
BY GotoOwn DEF Send, End, OgmiosTypeOK, Same

LEMMA ProceedOwn ==
    ASSUME OgmiosTypeOK, NEW i \in Callers, NEW j \in Callers, i # j, NEW k, Proceed(j, k)
    PROVE  Same(i)
BY GotoOwn, SendOwn DEF Proceed, End

LEMMA OwnCall ==
    ASSUME OgmiosTypeOK, NEW i \in Callers, NEW j \in Callers, i # j,
           CallStep(j) \/ IsHealthy(j) \/ \E k \in Kinds : Call(j, k)
    PROVE  Same(i)
<1>1. CASE DialSucceeds(j)
  BY <1>1, GotoOwn DEF DialSucceeds
<1>2. CASE LedgerReady(j)
  BY <1>2, ProceedOwn DEF LedgerReady
<1>3. CASE DialFails(j) \/ LedgerFails(j) \/ Refuse(j)
  BY <1>3, GotoOwn DEF DialFails, LedgerFails, Refuse, End
<1>4. CASE HealthAnswers(j) \/ Answer(j)
  BY <1>4, GotoOwn, SendOwn DEF HealthAnswers, Answer, End
<1>5. CASE IsHealthy(j)
  BY <1>5, GotoOwn DEF IsHealthy
<1>6. ASSUME NEW k, Call(j, k) PROVE Same(i)
  BY <1>6, GotoOwn, ProceedOwn DEF Call
<1> QED
  BY <1>1, <1>2, <1>3, <1>4, <1>5, <1>6 DEF CallStep

\* Call i goes on, or is not concerned.
GetsOn(i) == InProgress(i) /\ <<pc[i], left[i]>>' # <<pc[i], left[i]>> => Sinks(i)

LEMMA ClientGetsOn ==
    ASSUME OgmiosTypeOK, OgmiosTypeOK', ClientNext, ~Exit, NEW i \in Callers
    PROVE  GetsOn(i)
<1> SUFFICES ASSUME InProgress(i), <<pc[i], left[i]>>' # <<pc[i], left[i]>>
             PROVE  Sinks(i)
  BY DEF GetsOn
<1>1. ASSUME NEW j \in Callers, CallStep(j) \/ IsHealthy(j) \/ \E k \in Kinds : Call(j, k)
      PROVE  Sinks(i)
  <2>1. CASE j # i
    BY <1>1, <2>1, OwnCall DEF Same
  <2>2. CASE j = i
    BY <1>1, <2>2, StepSinks DEF Call, IsHealthy, InProgress
  <2> QED
    BY <2>1, <2>2
<1>2. ASSUME NEW s \in Sockets, ErrorEvent(s) \/ CloseEvent(s) PROVE Sinks(i)
  <2>1. RejectOn(s)
    BY <1>2 DEF ErrorEvent, CloseEvent
  <2>2. pc'[i] = Rejected(kind[i])
    BY <2>1 DEF RejectOn
  <2>3. pc'[i] \in Resting /\ pc[i] \in Places
    BY <2>2 DEF Rejected, Resting, OgmiosTypeOK, Places
  <2> QED
    BY <2>3, Stages, SinksAt DEF InProgress
<1>3. CASE \/ \E s \in Sockets : Lose(s)
           \/ ServerStops \/ ServerStarts \/ Disconnect
           \/ UNCHANGED <<fields, socket, calls, server, stopped, history>>
  BY <1>3 DEF Lose, ServerStops, ServerStarts, Disconnect, calls
<1> QED
  BY <1>1, <1>2, <1>3 DEF ClientNext

\* Every step that a call in progress takes, its own or that of an event which rejects
\* its query, lowers what is left of it, whatever becomes of the sockets and of the other
\* calls; only an exit of the process starts everything anew.
CallsGetOn == [][(\A i \in Callers : GetsOn(i)) \/ Exit]_ogmiosVars

\* Calls get on, in ranks that cannot be lowered for ever: with an answer or an error at
\* each await, a call comes to its end after finitely many steps, a call that connects and
\* makes all queries of queryTip included.
THEOREM CallsTerminate ==
    /\ IsWellFoundedOn(Lower, Ranks)
    /\ Spec => [](\A i \in Callers : Rank(pc[i], left[i]) \in Ranks)
    /\ Spec => CallsGetOn
<1>1. IInv => \A i \in Callers : Rank(pc[i], left[i]) \in Ranks
  BY RankType, OgmiosAssumption DEF IInv, OgmiosTypeOK
<1>2. IInv /\ IInv' /\ [Next]_ogmiosVars
        => [(\A i \in Callers : GetsOn(i)) \/ Exit]_ogmiosVars
  BY ClientGetsOn, NextIsClients DEF IInv
<1>3. Spec => CallsGetOn
  BY <1>2, Invariance, PTL DEF Spec, CallsGetOn
<1>4. Spec => [](\A i \in Callers : Rank(pc[i], left[i]) \in Ranks)
  BY <1>1, Invariance, PTL
<1> QED
  BY <1>3, <1>4, LowerEnds
=============================================================================
