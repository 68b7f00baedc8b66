------------------------------- MODULE HubSync -------------------------------
(***************************************************************************)
(* How the hub learns the status of a head: whoever stores a status emits  *)
(* an event, the listener posts it, nobody waits for the answer but the    *)
(* health check, and nobody posts a second time.                           *)
(*                                                                         *)
(* One head. Announcements are numbered in the order in which their status *)
(* was stored. A request can reach the hub after its sender has given up.  *)
(***************************************************************************)
EXTENDS Naturals

CONSTANTS MaxPosts   \* bound: announcements

ASSUME HubSyncAssumption == MaxPosts \in Nat \ {0}

Posts    == 1 .. MaxPosts
Statuses == {"running", "stop"}

VARIABLES
    stored,   \* the head's status in the database
    count,    \* announcements so far
    said,     \* said[p]: the status it announces
    post,     \* post[p]: how far it is on our side
    wire,     \* wire[p]: how far its request is
    hub,      \* the status the hub has for the head
    writer,   \* history: the announcement hub is from, 0 at first
    silent,   \* history: whether a status was stored that nobody announced
    before,   \* history: before[p]: those that had succeeded when p was posted
    alone     \* history: alone[p]: nothing else was unfinished when p was stored

announced == <<stored, count, said, alone, silent>>
vars == <<announced, post, wire, hub, writer, before>>

Init ==
    /\ stored = "stop" /\ count = 0
    /\ said = [p \in Posts |-> "stop"]
    /\ post = [p \in Posts |-> "none"] /\ wire = [p \in Posts |-> "none"]
    /\ hub = "stop" /\ writer = 0 /\ silent = FALSE
    /\ before = [p \in Posts |-> {}] /\ alone = [p \in Posts |-> FALSE]

Unfinished(p) == post[p] \in {"stored", "open"} \/ wire[p] = "sent"

------------------------------------------------------------------------------
(* Who announces. *)

\* Mutated form of Due: the status is counted as the one before it.
Due_OffByOne(p, s) ==
    /\ p = count + 1 /\ count' = p + 1
    /\ said'  = [said EXCEPT ![p] = s]
    /\ post'  = [post EXCEPT ![p] = "stored"]
    /\ alone' = [alone EXCEPT ![p] = \A q \in Posts : ~Unfinished(q)]
    /\ UNCHANGED <<wire, hub, writer, before>>

\* Status s of announcement p has been stored as said.
Due(p, s) ==
    /\ p = count + 1 /\ count' = p
    /\ said'  = [said EXCEPT ![p] = s]
    /\ post'  = [post EXCEPT ![p] = "stored"]
    /\ alone' = [alone EXCEPT ![p] = \A q \in Posts : ~Unfinished(q)]
    /\ UNCHANGED <<wire, hub, writer, before>>

\* activeHydraHead, at its end or in its catch block.
Activation(p) == \E s \in Statuses : Due(p, s) /\ stored' = s /\ silent' = FALSE

\* Mutated form of HealthCheck: the node's status before it died is announced.
HealthCheck_AsLoaded(p) ==
    stored = "running" /\ Due(p, "running") /\ stored' = "stop" /\ silent' = FALSE

\* checkNodeHealth has found a node of a running head dead.
HealthCheck(p) ==
    stored = "running" /\ Due(p, "stop") /\ stored' = "stop" /\ silent' = FALSE

\* restart announces the status it loaded, whatever is stored since; if it fails it
\* may have stored 'stop'.
Restart(p) ==
    \E s \in Statuses, t \in {stored, "stop"} :
        Due(p, s) /\ stored' = t /\ silent' = (s # t)

\* deactiveHydraHead announces nothing.
Deactivation ==
    /\ stored' = "stop" /\ silent' = (silent \/ stored # "stop")
    /\ UNCHANGED <<count, said, alone, post, wire, hub, writer, before>>

------------------------------------------------------------------------------
(* A post, from the event to the end of its handler. *)

\* The event is emitted, and the request goes out.
Emit(p) ==
    /\ post[p] = "stored"
    /\ post' = [post EXCEPT ![p] = "open"] /\ wire' = [wire EXCEPT ![p] = "sent"]
    /\ before' = [before EXCEPT ![p] = {q \in Posts : post[q] = "ok"}]
    /\ UNCHANGED <<announced, hub, writer>>

\* The request cannot even be set up.
SetupFails(p) ==
    /\ post[p] = "stored"
    /\ post' = [post EXCEPT ![p] = "failed"]
    /\ UNCHANGED <<announced, wire, hub, writer, before>>

\* Mutated form of HubApplies: the request is sent again after it was answered.
HubApplies_Retried(p) ==
    /\ wire[p] \in {"sent", "applied"}
    /\ wire' = [wire EXCEPT ![p] = "applied"]
    /\ hub' = said[p] /\ writer' = p
    /\ UNCHANGED <<announced, post, before>>

HubApplies(p) ==
    /\ wire[p] = "sent"
    /\ wire' = [wire EXCEPT ![p] = "applied"]
    /\ hub' = said[p] /\ writer' = p
    /\ UNCHANGED <<announced, post, before>>

\* The hub answers with an error, or the request never gets there.
HubDoesNot(p) ==
    /\ wire[p] = "sent"
    /\ \E w \in {"refused", "lost"} : wire' = [wire EXCEPT ![p] = w]
    /\ UNCHANGED <<announced, post, hub, writer, before>>

Succeeds(p) ==
    /\ post[p] = "open" /\ wire[p] = "applied"
    /\ post' = [post EXCEPT ![p] = "ok"]
    /\ UNCHANGED <<announced, wire, hub, writer, before>>

\* handleError(): the hub refused; or there was no answer, in time or at all,
\* whatever has become of the request. The listener logs it.
Fails(p) ==
    /\ post[p] = "open"
    /\ post' = [post EXCEPT ![p] = "failed"]
    /\ UNCHANGED <<announced, wire, hub, writer, before>>

\* The process exits; what is stored and not posted is forgotten.
Crash ==
    /\ \E p \in Posts : post[p] \in {"stored", "open"}
    /\ post' = [p \in Posts |-> IF post[p] \in {"stored", "open"} THEN "failed" ELSE post[p]]
    /\ UNCHANGED <<announced, wire, hub, writer, before>>

------------------------------------------------------------------------------
Next ==
    \/ \E p \in Posts : Activation(p) \/ HealthCheck(p) \/ Restart(p)
    \/ Deactivation
    \/ \E p \in Posts : Emit(p) \/ SetupFails(p) \/ HubApplies(p) \/ HubDoesNot(p)
                        \/ Succeeds(p) \/ Fails(p)
    \/ Crash

Spec == Init /\ [][Next]_vars

------------------------------------------------------------------------------
(* Properties. *)

\* Types.
HubTypeOK ==
    /\ stored \in Statuses /\ hub \in Statuses
    /\ count \in 0 .. MaxPosts /\ writer \in 0 .. MaxPosts
    /\ said \in [Posts -> Statuses]
    /\ post \in [Posts -> {"none", "stored", "open", "ok", "failed"}]
    /\ wire \in [Posts -> {"none", "sent", "applied", "refused", "lost"}]
    /\ before \in [Posts -> SUBSET Posts]
    /\ alone \in [Posts -> BOOLEAN] /\ silent \in BOOLEAN

\* The hub does not go back: what it shows is never a status whose post had succeeded
\* before that of another, which succeeded too, was sent. Only posts that overlap, or
\* that their sender has given up, can overwrite a newer one.
NeverBack == \A p \in Posts : post[p] = "ok" => writer \notin before[p]

\* The hub shows what is stored once the last announcement has succeeded, if nothing
\* was unfinished when it was stored, not even a request that was given up, and if it
\* was announced what is stored: restart announces what it loaded, deactivation nothing.
HubAgrees ==
    \A p \in Posts : p = count /\ post[p] = "ok" /\ alone[p] /\ ~silent => hub = stored
=============================================================================
