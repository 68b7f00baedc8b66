---------------------------- MODULE HubSyncProofs ----------------------------
(***************************************************************************)
(* Proofs about HubSync, for any number of announcements: the hub does not *)
(* go back, and it agrees with the database when nothing overlaps.         *)
(***************************************************************************)
EXTENDS HubSync, TLAPS

\* A post succeeds only when the hub has applied it.
OkApplied == \A p \in Posts : post[p] = "ok" => wire[p] = "applied"

\* Those that had succeeded have succeeded.
BeforeOk == \A p \in Posts : \A q \in before[p] : post[q] = "ok"

\* What the hub shows is not older than anything it has applied.
WriterIsNew == \A p \in Posts : wire[p] = "applied" => writer \notin before[p]

\* Announcements come in order.
Unused == \A p \in Posts : p > count => post[p] = "none" /\ wire[p] = "none"

\* The last announcement says what is stored, unless something was stored silently.
SaysStored == \A p \in Posts : p = count /\ ~silent => stored = said[p]

\* Nothing comes in the way of an announcement that is alone and the last.
AloneStays ==
    \A p \in Posts : p = count /\ alone[p] =>
        /\ \A q \in Posts : q # p => ~Unfinished(q)
        /\ wire[p] = "applied" => hub = said[p]

IInv ==
    /\ HubTypeOK /\ OkApplied /\ BeforeOk /\ WriterIsNew
    /\ Unused /\ SaysStored /\ AloneStays

------------------------------------------------------------------------------
LEMMA Start == Init => IInv
<1> SUFFICES ASSUME Init PROVE IInv
  OBVIOUS
<1>1. HubTypeOK
  <2>1. 0 \in 0 .. MaxPosts
    BY HubSyncAssumption
  <2> QED
    BY <2>1 DEF Init, HubTypeOK, Statuses
<1>2. OkApplied /\ BeforeOk /\ WriterIsNew /\ Unused
  BY DEF Init, OkApplied, BeforeOk, WriterIsNew, Unused
<1>3. SaysStored /\ AloneStays
  BY DEF Init, SaysStored, AloneStays, Unfinished
<1> QED
  BY <1>1, <1>2, <1>3 DEF IInv

\* The next announcement is one, and nothing is known of it yet.
LEMMA NextPost ==
    ASSUME HubTypeOK, NEW p \in Posts, p = count + 1 PROVE p \in 0 .. MaxPosts /\ p > count /\ p # 0
BY DEF HubTypeOK, Posts

\* Whether an announcement is alone is a truth value.
LEMMA DueAlone ==
    ASSUME HubTypeOK, NEW p \in Posts, NEW s \in Statuses, Due(p, s)
    PROVE  alone' \in [Posts -> BOOLEAN]
<1> DEFINE Calm == \A q \in Posts : ~Unfinished(q)
<1>1. Calm \in BOOLEAN /\ alone' = [alone EXCEPT ![p] = Calm]
  BY DEF Due
<1>2. alone \in [Posts -> BOOLEAN]
  BY DEF HubTypeOK
<1> HIDE DEF Calm
<1> QED
  BY <1>1, <1>2

\* Types.
LEMMA TypeStep == HubTypeOK /\ [Next]_vars => HubTypeOK'
<1> SUFFICES ASSUME HubTypeOK, [Next]_vars PROVE HubTypeOK'
  OBVIOUS
<1> USE DEF HubTypeOK, Statuses, announced
<1>1. CASE UNCHANGED vars
  BY <1>1 DEF vars
<1>2. ASSUME NEW p \in Posts, Activation(p) PROVE HubTypeOK'
  <2>1. p \in 0 .. MaxPosts
    BY <1>2, NextPost DEF Activation, Due
  <2>2. alone' \in [Posts -> BOOLEAN]
    BY <1>2, DueAlone DEF Activation
  <2>3. PICK s \in Statuses : Due(p, s)
    BY <1>2 DEF Activation
  <2>4. said' \in [Posts -> Statuses] /\ post' \in [Posts -> {"none", "stored", "open", "ok", "failed"}]
    BY <2>3 DEF Due
  <2>5. count' \in 0 .. MaxPosts /\ UNCHANGED <<wire, hub, writer, before>>
    BY <2>1, <2>3 DEF Due
  <2>6. stored' \in Statuses /\ silent' \in BOOLEAN
    BY <1>2 DEF Activation
  <2> QED
    BY <2>2, <2>4, <2>5, <2>6
<1>3. ASSUME NEW p \in Posts, HealthCheck(p) PROVE HubTypeOK'
  <2>1. p \in 0 .. MaxPosts
    BY <1>3, NextPost DEF HealthCheck, Due
  <2>2. alone' \in [Posts -> BOOLEAN]
    BY <1>3, DueAlone DEF HealthCheck
  <2>3. PICK s \in Statuses : Due(p, s)
    BY <1>3 DEF HealthCheck
  <2>4. said' \in [Posts -> Statuses] /\ post' \in [Posts -> {"none", "stored", "open", "ok", "failed"}]
    BY <2>3 DEF Due
  <2>5. count' \in 0 .. MaxPosts /\ UNCHANGED <<wire, hub, writer, before>>
    BY <2>1, <2>3 DEF Due
  <2>6. stored' \in Statuses /\ silent' \in BOOLEAN
    BY <1>3 DEF HealthCheck
  <2> QED
    BY <2>2, <2>4, <2>5, <2>6
<1>4. ASSUME NEW p \in Posts, Restart(p) PROVE HubTypeOK'
  <2>1. p \in 0 .. MaxPosts
    BY <1>4, NextPost DEF Restart, Due
  <2>2. alone' \in [Posts -> BOOLEAN]
    BY <1>4, DueAlone DEF Restart
  <2>3. PICK s \in Statuses : Due(p, s)
    BY <1>4 DEF Restart
  <2>4. said' \in [Posts -> Statuses] /\ post' \in [Posts -> {"none", "stored", "open", "ok", "failed"}]
    BY <2>3 DEF Due
  <2>5. count' \in 0 .. MaxPosts /\ UNCHANGED <<wire, hub, writer, before>>
    BY <2>1, <2>3 DEF Due
  <2>6. stored' \in Statuses /\ silent' \in BOOLEAN
    BY <1>4 DEF Restart
  <2> QED
    BY <2>2, <2>4, <2>5, <2>6
<1>5. CASE Deactivation
  BY <1>5 DEF Deactivation
<1>6. ASSUME NEW p \in Posts, Emit(p) PROVE HubTypeOK'
  BY <1>6 DEF Emit
<1>7. ASSUME NEW p \in Posts, SetupFails(p) PROVE HubTypeOK'
  BY <1>7 DEF SetupFails
<1>8. ASSUME NEW p \in Posts, HubApplies(p) PROVE HubTypeOK'
  <2>1. p \in 0 .. MaxPosts
    BY HubSyncAssumption DEF Posts
  <2> QED
    BY <1>8, <2>1 DEF HubApplies
<1>9. ASSUME NEW p \in Posts, HubDoesNot(p) PROVE HubTypeOK'
  BY <1>9 DEF HubDoesNot
<1>10. ASSUME NEW p \in Posts, Succeeds(p) PROVE HubTypeOK'
  BY <1>10 DEF Succeeds
<1>11. ASSUME NEW p \in Posts, Fails(p) PROVE HubTypeOK'
  BY <1>11 DEF Fails
<1>12. CASE Crash
  BY <1>12 DEF Crash
<1> QED
  BY <1>1, <1>2, <1>3, <1>4, <1>5, <1>6, <1>7, <1>8, <1>9, <1>10, <1>11, <1>12 DEF Next

\* A post that is new was not sent.
LEMMA OkStep == HubTypeOK /\ OkApplied /\ Unused /\ [Next]_vars => OkApplied'
<1> SUFFICES ASSUME HubTypeOK /\ OkApplied /\ Unused, [Next]_vars PROVE OkApplied'
  OBVIOUS
<1> USE DEF HubTypeOK, OkApplied, Unused, announced
<1>1. CASE UNCHANGED vars
  BY <1>1 DEF vars
<1>2. ASSUME NEW p \in Posts, Activation(p) PROVE OkApplied'
  BY <1>2 DEF Activation, Due
<1>3. ASSUME NEW p \in Posts, HealthCheck(p) PROVE OkApplied'
  BY <1>3 DEF HealthCheck, Due
<1>4. ASSUME NEW p \in Posts, Restart(p) PROVE OkApplied'
  BY <1>4 DEF Restart, Due
<1>5. CASE Deactivation
  BY <1>5 DEF Deactivation
<1>6. ASSUME NEW p \in Posts, Emit(p) PROVE OkApplied'
  BY <1>6 DEF Emit
<1>7. ASSUME NEW p \in Posts, SetupFails(p) PROVE OkApplied'
  BY <1>7 DEF SetupFails
<1>8. ASSUME NEW p \in Posts, HubApplies(p) PROVE OkApplied'
  BY <1>8 DEF HubApplies
<1>9. ASSUME NEW p \in Posts, HubDoesNot(p) PROVE OkApplied'
  BY <1>9 DEF HubDoesNot
<1>10. ASSUME NEW p \in Posts, Succeeds(p) PROVE OkApplied'
  BY <1>10 DEF Succeeds
<1>11. ASSUME NEW p \in Posts, Fails(p) PROVE OkApplied'
  BY <1>11 DEF Fails
<1>12. CASE Crash
  BY <1>12 DEF Crash
<1> QED
  BY <1>1, <1>2, <1>3, <1>4, <1>5, <1>6, <1>7, <1>8, <1>9, <1>10, <1>11, <1>12 DEF Next

\* No post that succeeded becomes anything else.
LEMMA BeforeStep == HubTypeOK /\ BeforeOk /\ Unused /\ [Next]_vars => BeforeOk'
<1> SUFFICES ASSUME HubTypeOK /\ BeforeOk /\ Unused, [Next]_vars PROVE BeforeOk'
  OBVIOUS
<1> USE DEF HubTypeOK, BeforeOk, announced
<1>1. CASE UNCHANGED vars
  BY <1>1 DEF vars
<1>2. ASSUME NEW p \in Posts, Activation(p) PROVE BeforeOk'
  <2>1. post[p] = "none"
    BY <1>2, NextPost DEF Activation, Due, Unused
  <2> QED
    BY <1>2, <2>1 DEF Activation, Due
<1>3. ASSUME NEW p \in Posts, HealthCheck(p) PROVE BeforeOk'
  <2>1. post[p] = "none"
    BY <1>3, NextPost DEF HealthCheck, Due, Unused
  <2> QED
    BY <1>3, <2>1 DEF HealthCheck, Due
<1>4. ASSUME NEW p \in Posts, Restart(p) PROVE BeforeOk'
  <2>1. post[p] = "none"
    BY <1>4, NextPost DEF Restart, Due, Unused
  <2> QED
    BY <1>4, <2>1 DEF Restart, Due
<1>5. CASE Deactivation
  BY <1>5 DEF Deactivation
<1>6. ASSUME NEW p \in Posts, Emit(p) PROVE BeforeOk'
  BY <1>6 DEF Emit
<1>7. ASSUME NEW p \in Posts, SetupFails(p) PROVE BeforeOk'
  BY <1>7 DEF SetupFails
<1>8. ASSUME NEW p \in Posts, HubApplies(p) PROVE BeforeOk'
  BY <1>8 DEF HubApplies
<1>9. ASSUME NEW p \in Posts, HubDoesNot(p) PROVE BeforeOk'
  BY <1>9 DEF HubDoesNot
<1>10. ASSUME NEW p \in Posts, Succeeds(p) PROVE BeforeOk'
  BY <1>10 DEF Succeeds
<1>11. ASSUME NEW p \in Posts, Fails(p) PROVE BeforeOk'
  BY <1>11 DEF Fails
<1>12. CASE Crash
  BY <1>12 DEF Crash
<1> QED
  BY <1>1, <1>2, <1>3, <1>4, <1>5, <1>6, <1>7, <1>8, <1>9, <1>10, <1>11, <1>12 DEF Next

\* A post that the hub has yet to apply has not succeeded.
LEMMA WriterStep == HubTypeOK /\ OkApplied /\ BeforeOk /\ WriterIsNew /\ [Next]_vars => WriterIsNew'
<1> SUFFICES ASSUME HubTypeOK /\ OkApplied /\ BeforeOk /\ WriterIsNew, [Next]_vars PROVE WriterIsNew'
  OBVIOUS
<1> USE DEF HubTypeOK, WriterIsNew, announced
<1>1. CASE UNCHANGED vars
  BY <1>1 DEF vars
<1>2. ASSUME NEW p \in Posts, Activation(p) PROVE WriterIsNew'
  BY <1>2 DEF Activation, Due
<1>3. ASSUME NEW p \in Posts, HealthCheck(p) PROVE WriterIsNew'
  BY <1>3 DEF HealthCheck, Due
<1>4. ASSUME NEW p \in Posts, Restart(p) PROVE WriterIsNew'
  BY <1>4 DEF Restart, Due
<1>5. CASE Deactivation
  BY <1>5 DEF Deactivation
<1>6. ASSUME NEW p \in Posts, Emit(p) PROVE WriterIsNew'
  BY <1>6 DEF Emit
<1>7. ASSUME NEW p \in Posts, SetupFails(p) PROVE WriterIsNew'
  BY <1>7 DEF SetupFails
<1>8. ASSUME NEW p \in Posts, HubApplies(p) PROVE WriterIsNew'
  <2>1. \A q \in Posts : p \notin before[q]
    BY <1>8 DEF HubApplies, OkApplied, BeforeOk
  <2> QED
    BY <1>8, <2>1 DEF HubApplies
<1>9. ASSUME NEW p \in Posts, HubDoesNot(p) PROVE WriterIsNew'
  BY <1>9 DEF HubDoesNot
<1>10. ASSUME NEW p \in Posts, Succeeds(p) PROVE WriterIsNew'
  BY <1>10 DEF Succeeds
<1>11. ASSUME NEW p \in Posts, Fails(p) PROVE WriterIsNew'
  BY <1>11 DEF Fails
<1>12. CASE Crash
  BY <1>12 DEF Crash
<1> QED
  BY <1>1, <1>2, <1>3, <1>4, <1>5, <1>6, <1>7, <1>8, <1>9, <1>10, <1>11, <1>12 DEF Next

\* An announcement that is not due has no post.
LEMMA UnusedStep == HubTypeOK /\ Unused /\ [Next]_vars => Unused'
<1> SUFFICES ASSUME HubTypeOK /\ Unused, [Next]_vars PROVE Unused'
  OBVIOUS
<1> USE DEF HubTypeOK, Unused, announced
<1>1. CASE UNCHANGED vars
  BY <1>1 DEF vars
<1>2. ASSUME NEW p \in Posts, Activation(p) PROVE Unused'
  <2>1. \A q \in Posts : q > count' => q > count /\ q # p
    BY <1>2 DEF Activation, Due, HubTypeOK, Posts
  <2> QED
    BY <1>2, <2>1 DEF Activation, Due
<1>3. ASSUME NEW p \in Posts, HealthCheck(p) PROVE Unused'
  <2>1. \A q \in Posts : q > count' => q > count /\ q # p
    BY <1>3 DEF HealthCheck, Due, HubTypeOK, Posts
  <2> QED
    BY <1>3, <2>1 DEF HealthCheck, Due
<1>4. ASSUME NEW p \in Posts, Restart(p) PROVE Unused'
  <2>1. \A q \in Posts : q > count' => q > count /\ q # p
    BY <1>4 DEF Restart, Due, HubTypeOK, Posts
  <2> QED
    BY <1>4, <2>1 DEF Restart, Due
<1>5. CASE Deactivation
  BY <1>5 DEF Deactivation
<1>6. ASSUME NEW p \in Posts, Emit(p) PROVE Unused'
  BY <1>6 DEF Emit
<1>7. ASSUME NEW p \in Posts, SetupFails(p) PROVE Unused'
  BY <1>7 DEF SetupFails
<1>8. ASSUME NEW p \in Posts, HubApplies(p) PROVE Unused'
  BY <1>8 DEF HubApplies
<1>9. ASSUME NEW p \in Posts, HubDoesNot(p) PROVE Unused'
  BY <1>9 DEF HubDoesNot
<1>10. ASSUME NEW p \in Posts, Succeeds(p) PROVE Unused'
  BY <1>10 DEF Succeeds
<1>11. ASSUME NEW p \in Posts, Fails(p) PROVE Unused'
  BY <1>11 DEF Fails
<1>12. CASE Crash
  BY <1>12 DEF Crash
<1> QED
  BY <1>1, <1>2, <1>3, <1>4, <1>5, <1>6, <1>7, <1>8, <1>9, <1>10, <1>11, <1>12 DEF Next

\* Who stores also announces, or is silent.
LEMMA SaysStep == HubTypeOK /\ SaysStored /\ [Next]_vars => SaysStored'
<1> SUFFICES ASSUME HubTypeOK /\ SaysStored, [Next]_vars PROVE SaysStored'
  OBVIOUS
<1> USE DEF HubTypeOK, SaysStored, announced
<1>1. CASE UNCHANGED vars
  BY <1>1 DEF vars
<1>2. ASSUME NEW p \in Posts, Activation(p) PROVE SaysStored'
  <2>1. \A q \in Posts : q = count' => q = p
    BY <1>2 DEF Activation, Due
  <2> QED
    BY <1>2, <2>1 DEF Activation, Due
<1>3. ASSUME NEW p \in Posts, HealthCheck(p) PROVE SaysStored'
  <2>1. \A q \in Posts : q = count' => q = p
    BY <1>3 DEF HealthCheck, Due
  <2> QED
    BY <1>3, <2>1 DEF HealthCheck, Due
<1>4. ASSUME NEW p \in Posts, Restart(p) PROVE SaysStored'
  <2>1. \A q \in Posts : q = count' => q = p
    BY <1>4 DEF Restart, Due
  <2> QED
    BY <1>4, <2>1 DEF Restart, Due
<1>5. CASE Deactivation
  BY <1>5 DEF Deactivation
<1>6. ASSUME NEW p \in Posts, Emit(p) PROVE SaysStored'
  BY <1>6 DEF Emit
<1>7. ASSUME NEW p \in Posts, SetupFails(p) PROVE SaysStored'
  BY <1>7 DEF SetupFails
<1>8. ASSUME NEW p \in Posts, HubApplies(p) PROVE SaysStored'
  BY <1>8 DEF HubApplies
<1>9. ASSUME NEW p \in Posts, HubDoesNot(p) PROVE SaysStored'
  BY <1>9 DEF HubDoesNot
<1>10. ASSUME NEW p \in Posts, Succeeds(p) PROVE SaysStored'
  BY <1>10 DEF Succeeds
<1>11. ASSUME NEW p \in Posts, Fails(p) PROVE SaysStored'
  BY <1>11 DEF Fails
<1>12. CASE Crash
  BY <1>12 DEF Crash
<1> QED
  BY <1>1, <1>2, <1>3, <1>4, <1>5, <1>6, <1>7, <1>8, <1>9, <1>10, <1>11, <1>12 DEF Next

\* What is finished stays so, and only the last announcement writes.
LEMMA AloneStep == HubTypeOK /\ Unused /\ AloneStays /\ [Next]_vars => AloneStays'
<1> SUFFICES ASSUME HubTypeOK /\ Unused /\ AloneStays, [Next]_vars PROVE AloneStays'
  OBVIOUS
<1> USE DEF HubTypeOK, AloneStays, Unfinished, announced
<1>1. CASE UNCHANGED vars
  BY <1>1 DEF vars
<1>2. ASSUME NEW p \in Posts, Activation(p) PROVE AloneStays'
  <2>1. \A q \in Posts : q = count' => q = p
    BY <1>2 DEF Activation, Due
  <2>2. wire[p] = "none"
    BY <1>2, NextPost DEF Activation, Due, Unused
  <2>3. alone'[p] => \A q \in Posts : ~Unfinished(q)
    BY <1>2 DEF Activation, Due
  <2> QED
    BY <1>2, <2>1, <2>2, <2>3 DEF Activation, Due
<1>3. ASSUME NEW p \in Posts, HealthCheck(p) PROVE AloneStays'
  <2>1. \A q \in Posts : q = count' => q = p
    BY <1>3 DEF HealthCheck, Due
  <2>2. wire[p] = "none"
    BY <1>3, NextPost DEF HealthCheck, Due, Unused
  <2>3. alone'[p] => \A q \in Posts : ~Unfinished(q)
    BY <1>3 DEF HealthCheck, Due
  <2> QED
    BY <1>3, <2>1, <2>2, <2>3 DEF HealthCheck, Due
<1>4. ASSUME NEW p \in Posts, Restart(p) PROVE AloneStays'
  <2>1. \A q \in Posts : q = count' => q = p
    BY <1>4 DEF Restart, Due
  <2>2. wire[p] = "none"
    BY <1>4, NextPost DEF Restart, Due, Unused
  <2>3. alone'[p] => \A q \in Posts : ~Unfinished(q)
    BY <1>4 DEF Restart, Due
  <2> QED
    BY <1>4, <2>1, <2>2, <2>3 DEF Restart, Due
<1>5. CASE Deactivation
  BY <1>5 DEF Deactivation
<1>6. ASSUME NEW p \in Posts, Emit(p) PROVE AloneStays'
  BY <1>6 DEF Emit
<1>7. ASSUME NEW p \in Posts, SetupFails(p) PROVE AloneStays'
  BY <1>7 DEF SetupFails
<1>8. ASSUME NEW p \in Posts, HubApplies(p) PROVE AloneStays'
  BY <1>8 DEF HubApplies
<1>9. ASSUME NEW p \in Posts, HubDoesNot(p) PROVE AloneStays'
  BY <1>9 DEF HubDoesNot
<1>10. ASSUME NEW p \in Posts, Succeeds(p) PROVE AloneStays'
  BY <1>10 DEF Succeeds
<1>11. ASSUME NEW p \in Posts, Fails(p) PROVE AloneStays'
  BY <1>11 DEF Fails
<1>12. CASE Crash
  BY <1>12 DEF Crash
<1> QED
  BY <1>1, <1>2, <1>3, <1>4, <1>5, <1>6, <1>7, <1>8, <1>9, <1>10, <1>11, <1>12 DEF Next

LEMMA Step == IInv /\ [Next]_vars => IInv'
BY TypeStep, OkStep, BeforeStep, WriterStep, UnusedStep, SaysStep, AloneStep DEF IInv

LEMMA Invariance == Spec => []IInv
BY Start, Step, PTL DEF Spec

------------------------------------------------------------------------------
\* Every variable of HubSync keeps to its type.
THEOREM HubTypes == Spec => []HubTypeOK
<1>1. IInv => HubTypeOK
  BY DEF IInv
<1> QED
  BY <1>1, Invariance, PTL

\* However many posts overlap, fail or arrive late, the hub never shows a status whose
\* post had succeeded before a later successful one was sent.
THEOREM HubNeverGoesBack == Spec => []NeverBack
<1>1. IInv => NeverBack
  BY DEF IInv, OkApplied, WriterIsNew, NeverBack
<1> QED
  BY <1>1, Invariance, PTL

\* An announcement that nothing overlapped and that succeeded leaves hub and database
\* in agreement, until something is stored silently.
THEOREM HubAgreesWhenCalm == Spec => []HubAgrees
<1>1. IInv => HubAgrees
  BY DEF IInv, OkApplied, SaysStored, AloneStays, HubAgrees
<1> QED
  BY <1>1, Invariance, PTL
=============================================================================
