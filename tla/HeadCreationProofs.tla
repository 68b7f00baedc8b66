------------------------- MODULE HeadCreationProofs -------------------------
(***************************************************************************)
(* Proofs about HeadCreation, for any number of creations, deletions, keys *)
(* and ports: a successful creation has made all of its head, and a        *)
(* successful deletion is final.                                           *)
(***************************************************************************)
EXTENDS HeadCreation, WellFoundedInduction, TLAPS

\* Before its row is saved a head does not exist, so nothing deletes it; a
\* creation without a directory is at its first key.
Unborn ==
    \A r \in Reqs :
        /\ pc[r] \in {"new", "head"} => head[r] = "none"
        /\ pc[r] \in {"new", "head", "dir"} => at[r] = 1
        /\ head[r] = "none" => del[r] = "none"

\* Node i of head r is complete.
Complete(r, i) == row[r][i] # 0 /\ i \in files[r]

\* What a creation that no deletion has met has made on its way.
Progress ==
    \A r \in Reqs : del[r] = "none" =>
        /\ pc[r] \in {"dir", "probe", "lookup", "save", "keys", "commit", "created"}
             => head[r] = "row"
        /\ pc[r] \in {"probe", "lookup", "save", "keys", "commit", "created"}
             => r \in dir
        /\ pc[r] \in {"probe", "lookup", "save", "keys"}
             => \A i \in Places : i < at[r] => Complete(r, i)
        /\ pc[r] = "keys" => row[r][at[r]] # 0
        /\ pc[r] \in {"commit", "created"} => \A i \in Places : Complete(r, i)

IInv == TypeOK /\ Unborn /\ Progress /\ DeletionIsFinal

------------------------------------------------------------------------------
LEMMA Start == Init => IInv
<1> SUFFICES ASSUME Init PROVE IInv
  OBVIOUS
<1>1. TypeOK
  <2>1. 1 \in Places /\ 1 \in Ports /\ 0 \in 0 .. MaxMishaps
    BY CreationAssumption DEF Places, Ports
  <2>2. row \in [Reqs -> [Places -> {0} \cup Ports]]
    BY DEF Init
  <2> QED
    BY <2>1, <2>2 DEF Init, TypeOK
<1>2. Unborn
  BY DEF Init, Unborn
<1>3. Progress /\ DeletionIsFinal
  BY DEF Init, Progress, DeletionIsFinal
<1> QED
  BY <1>1, <1>2, <1>3 DEF IInv

\* The next port is a port.
LEMMA TryNextPort ==
    ASSUME TypeOK, NEW r \in Reqs, TryNext(r) PROVE port' \in [Reqs -> Ports]
<1>1. port[r] + 1 \in Ports
  <2>1. port[r] \in Ports
    BY DEF TypeOK
  <2> QED
    BY <2>1, CreationAssumption DEF TryNext, Ports
<1> QED
  BY <1>1 DEF TryNext, TypeOK

LEMMA TypeStep == TypeOK /\ [Next]_vars => TypeOK'
<1> SUFFICES ASSUME TypeOK, [Next]_vars PROVE TypeOK'
  OBVIOUS
<1> USE DEF TypeOK, request, disk, deletion, Goto
<1>1. CASE UNCHANGED vars
  BY <1>1 DEF vars
<1>2. ASSUME NEW r \in Reqs, TakeConnection(r) PROVE TypeOK'
  BY <1>2 DEF TakeConnection
<1>3. ASSUME NEW r \in Reqs, SaveHead(r) PROVE TypeOK'
  BY <1>3 DEF SaveHead
<1>4. ASSUME NEW r \in Reqs, MakeDir(r) PROVE TypeOK'
  BY <1>4 DEF MakeDir
<1>5. ASSUME NEW r \in Reqs, Probe(r) PROVE TypeOK'
  <2>1. port' \in [Reqs -> Ports]
    BY <1>5, TryNextPort DEF Probe
  <2> QED
    BY <1>5, <2>1 DEF Probe, TryNext
<1>6. ASSUME NEW r \in Reqs, Lookup(r) PROVE TypeOK'
  <2>1. port' \in [Reqs -> Ports]
    BY <1>6, TryNextPort DEF Lookup
  <2> QED
    BY <1>6, <2>1 DEF Lookup, TryNext
<1>7. ASSUME NEW r \in Reqs, SaveNode(r) PROVE TypeOK'
  <2>1. row' \in [Reqs -> [Places -> {0} \cup Ports]]
    <3>1. [row[r] EXCEPT ![at[r]] = port[r]] \in [Places -> {0} \cup Ports]
      OBVIOUS
    <3>2. row' = row \/ row' = [row EXCEPT ![r] = [row[r] EXCEPT ![at[r]] = port[r]]]
      BY <1>7 DEF SaveNode
    <3> QED
      BY <3>1, <3>2
  <2> QED
    BY <1>7, <2>1 DEF SaveNode
<1>8. ASSUME NEW r \in Reqs, WriteKeys(r) PROVE TypeOK'
  <2>1. at' \in [Reqs -> Places] /\ port' \in [Reqs -> Ports]
    <3>1. 1 \in Ports
      BY CreationAssumption DEF Ports
    <3>2. at[r] < Keys => at[r] + 1 \in Places
      BY CreationAssumption DEF Places
    <3> QED
      <4>1. CASE at[r] < Keys /\ at' = [at EXCEPT ![r] = @ + 1] /\ port' = [port EXCEPT ![r] = 1]
        BY <3>1, <3>2, <4>1
      <4>2. CASE UNCHANGED <<at, port>>
        BY <4>2
      <4> QED
        BY <1>8, <4>1, <4>2, Zenon DEF WriteKeys
  <2>2. files' \in [Reqs -> SUBSET Places]
    BY <1>8 DEF WriteKeys
  <2> QED
    BY <1>8, <2>1, <2>2 DEF WriteKeys
<1>9. ASSUME NEW r \in Reqs, NoDirectory(r) PROVE TypeOK'
  BY <1>9 DEF NoDirectory
<1>10. ASSUME NEW r \in Reqs, CallFails(r) PROVE TypeOK'
  <2>1. mishaps' \in 0 .. MaxMishaps
    BY <1>10, CreationAssumption DEF CallFails, Fault
  <2> QED
    BY <1>10, <2>1 DEF CallFails
<1>11. ASSUME NEW r \in Reqs, Commit(r) PROVE TypeOK'
  BY <1>11 DEF Commit
<1>12. ASSUME NEW r \in Reqs, Rollback(r) PROVE TypeOK'
  BY <1>12 DEF Rollback
<1>13. ASSUME NEW r \in Reqs, DeleteLoad(r) PROVE TypeOK'
  <2>1. Nodes(r) \in SUBSET Places
    BY DEF Nodes
  <2> QED
    BY <1>13, <2>1 DEF DeleteLoad
<1>14. ASSUME NEW r \in Reqs, DeleteDir(r) PROVE TypeOK'
  BY <1>14 DEF DeleteDir
<1>15. ASSUME NEW r \in Reqs, DeleteRows(r) PROVE TypeOK'
  <2>1. row' \in [Reqs -> [Places -> {0} \cup Ports]]
    <3>1. [i \in Places |-> 0] \in [Places -> {0} \cup Ports]
      OBVIOUS
    <3>2. row' = row \/ row' = [row EXCEPT ![r] = [i \in Places |-> 0]]
      BY <1>15 DEF DeleteRows
    <3> QED
      BY <3>1, <3>2
  <2>2. head' \in [Reqs -> {"none", "row", "deleted"}]
    BY <1>15 DEF DeleteRows
  <2> QED
    BY <1>15, <2>1, <2>2 DEF DeleteRows
<1>16. ASSUME NEW r \in Reqs, BeginFails(r) PROVE TypeOK'
  <2>1. mishaps' \in 0 .. MaxMishaps
    BY <1>16, CreationAssumption DEF BeginFails, Fault
  <2> QED
    BY <1>16, <2>1 DEF BeginFails
<1> QED
  BY <1>1, <1>2, <1>3, <1>4, <1>5, <1>6, <1>7, <1>8, <1>9, <1>10, <1>11, <1>12, <1>13, <1>14, <1>15, <1>16
     DEF Next, CreateStep, DeleteStep

LEMMA UnbornStep == TypeOK /\ Unborn /\ [Next]_vars => Unborn'
<1> SUFFICES ASSUME TypeOK, Unborn, [Next]_vars PROVE Unborn'
  OBVIOUS
<1> USE DEF TypeOK, Unborn, request, disk, deletion, Goto
<1>1. CASE UNCHANGED vars
  BY <1>1 DEF vars
<1>2. ASSUME NEW r \in Reqs, TakeConnection(r) PROVE Unborn'
  BY <1>2 DEF TakeConnection
<1>3. ASSUME NEW r \in Reqs, SaveHead(r) PROVE Unborn'
  BY <1>3 DEF SaveHead
<1>4. ASSUME NEW r \in Reqs, MakeDir(r) PROVE Unborn'
  BY <1>4 DEF MakeDir
<1>5. ASSUME NEW r \in Reqs, Probe(r) PROVE Unborn'
  BY <1>5 DEF Probe, TryNext
<1>6. ASSUME NEW r \in Reqs, Lookup(r) PROVE Unborn'
  BY <1>6 DEF Lookup, TryNext
<1>7. ASSUME NEW r \in Reqs, SaveNode(r) PROVE Unborn'
  BY <1>7 DEF SaveNode
<1>8. ASSUME NEW r \in Reqs, WriteKeys(r) PROVE Unborn'
  BY <1>8 DEF WriteKeys
<1>9. ASSUME NEW r \in Reqs, NoDirectory(r) PROVE Unborn'
  BY <1>9 DEF NoDirectory
<1>10. ASSUME NEW r \in Reqs, CallFails(r) PROVE Unborn'
  BY <1>10 DEF CallFails
<1>11. ASSUME NEW r \in Reqs, Commit(r) PROVE Unborn'
  BY <1>11 DEF Commit
<1>12. ASSUME NEW r \in Reqs, Rollback(r) PROVE Unborn'
  BY <1>12 DEF Rollback
<1>13. ASSUME NEW r \in Reqs, DeleteLoad(r) PROVE Unborn'
  BY <1>13 DEF DeleteLoad
<1>14. ASSUME NEW r \in Reqs, DeleteDir(r) PROVE Unborn'
  BY <1>14 DEF DeleteDir
<1>15. ASSUME NEW r \in Reqs, DeleteRows(r) PROVE Unborn'
  BY <1>15 DEF DeleteRows
<1>16. ASSUME NEW r \in Reqs, BeginFails(r) PROVE Unborn'
  BY <1>16 DEF BeginFails
<1> QED
  BY <1>1, <1>2, <1>3, <1>4, <1>5, <1>6, <1>7, <1>8, <1>9, <1>10, <1>11, <1>12, <1>13, <1>14, <1>15, <1>16
     DEF Next, CreateStep, DeleteStep

LEMMA FinalStep == TypeOK /\ Unborn /\ DeletionIsFinal /\ [Next]_vars => DeletionIsFinal'
<1> SUFFICES ASSUME TypeOK, Unborn, DeletionIsFinal, [Next]_vars PROVE DeletionIsFinal'
  OBVIOUS
<1> USE DEF TypeOK, Unborn, DeletionIsFinal, Nodes, request, disk, deletion, Goto
<1>1. CASE UNCHANGED vars
  BY <1>1 DEF vars
<1>2. ASSUME NEW r \in Reqs, TakeConnection(r) PROVE DeletionIsFinal'
  BY <1>2 DEF TakeConnection
<1>3. ASSUME NEW r \in Reqs, SaveHead(r) PROVE DeletionIsFinal'
  BY <1>3 DEF SaveHead
<1>4. ASSUME NEW r \in Reqs, MakeDir(r) PROVE DeletionIsFinal'
  BY <1>4 DEF MakeDir
<1>5. ASSUME NEW r \in Reqs, Probe(r) PROVE DeletionIsFinal'
  BY <1>5 DEF Probe, TryNext
<1>6. ASSUME NEW r \in Reqs, Lookup(r) PROVE DeletionIsFinal'
  BY <1>6 DEF Lookup, TryNext
<1>7. ASSUME NEW r \in Reqs, SaveNode(r) PROVE DeletionIsFinal'
  BY <1>7 DEF SaveNode
<1>8. ASSUME NEW r \in Reqs, WriteKeys(r) PROVE DeletionIsFinal'
  BY <1>8 DEF WriteKeys
<1>9. ASSUME NEW r \in Reqs, NoDirectory(r) PROVE DeletionIsFinal'
  BY <1>9 DEF NoDirectory
<1>10. ASSUME NEW r \in Reqs, CallFails(r) PROVE DeletionIsFinal'
  BY <1>10 DEF CallFails
<1>11. ASSUME NEW r \in Reqs, Commit(r) PROVE DeletionIsFinal'
  BY <1>11 DEF Commit
<1>12. ASSUME NEW r \in Reqs, Rollback(r) PROVE DeletionIsFinal'
  BY <1>12 DEF Rollback
<1>13. ASSUME NEW r \in Reqs, DeleteLoad(r) PROVE DeletionIsFinal'
  BY <1>13 DEF DeleteLoad
<1>14. ASSUME NEW r \in Reqs, DeleteDir(r) PROVE DeletionIsFinal'
  BY <1>14 DEF DeleteDir
<1>15. ASSUME NEW r \in Reqs, DeleteRows(r) PROVE DeletionIsFinal'
  BY <1>15 DEF DeleteRows
<1>16. ASSUME NEW r \in Reqs, BeginFails(r) PROVE DeletionIsFinal'
  BY <1>16 DEF BeginFails
<1> QED
  BY <1>1, <1>2, <1>3, <1>4, <1>5, <1>6, <1>7, <1>8, <1>9, <1>10, <1>11, <1>12, <1>13, <1>14, <1>15, <1>16
     DEF Next, CreateStep, DeleteStep

LEMMA ProgressStep == TypeOK /\ Unborn /\ Progress /\ [Next]_vars => Progress'
<1> SUFFICES ASSUME TypeOK, Unborn, Progress, [Next]_vars PROVE Progress'
  OBVIOUS
<1> USE DEF TypeOK, Unborn, Progress, Complete, request, disk, deletion, Goto
<1>1. CASE UNCHANGED vars
  BY <1>1 DEF vars
<1>2. ASSUME NEW r \in Reqs, TakeConnection(r) PROVE Progress'
  BY <1>2 DEF TakeConnection
<1>3. ASSUME NEW r \in Reqs, SaveHead(r) PROVE Progress'
  BY <1>3 DEF SaveHead
<1>4. ASSUME NEW r \in Reqs, MakeDir(r) PROVE Progress'
  <2>1. \A i \in Places : ~(i < at[r])
    BY <1>4 DEF MakeDir, Places
  <2> QED
    BY <1>4, <2>1 DEF MakeDir
<1>5. ASSUME NEW r \in Reqs, Probe(r) PROVE Progress'
  BY <1>5 DEF Probe, TryNext
<1>6. ASSUME NEW r \in Reqs, Lookup(r) PROVE Progress'
  BY <1>6 DEF Lookup, TryNext
<1>7. ASSUME NEW r \in Reqs, SaveNode(r) PROVE Progress'
  <2>1. CASE row' = row /\ Goto(r, "rollback")
    BY <1>7, <2>1 DEF SaveNode
  <2>2. CASE /\ row' = [row EXCEPT ![r] = [row[r] EXCEPT ![at[r]] = port[r]]]
             /\ Goto(r, "keys")
    <3>1. port[r] # 0
      BY DEF Ports
    <3>2. row'[r][at[r]] # 0 /\ \A i \in Places : row[r][i] # 0 => row'[r][i] # 0
      BY <2>2, <3>1
    <3>3. \A s \in Reqs : s # r => row'[s] = row[s] /\ pc'[s] = pc[s]
      BY <2>2
    <3>4. pc'[r] = "keys" /\ UNCHANGED <<head, at, del, dir, files>>
      BY <1>7, <2>2 DEF SaveNode
    <3> QED
      BY <1>7, <3>2, <3>3, <3>4 DEF SaveNode
  <2> QED
    BY <1>7, <2>1, <2>2 DEF SaveNode
<1>8. ASSUME NEW r \in Reqs, WriteKeys(r) PROVE Progress'
  <2>1. pc[r] = "keys" /\ UNCHANGED <<head, row, del, dir>>
    BY <1>8 DEF WriteKeys
  <2>2. at[r] \in files'[r] /\ \A i \in files[r] : i \in files'[r]
    BY <1>8 DEF WriteKeys
  <2>3. \A s \in Reqs : s # r => pc'[s] = pc[s] /\ at'[s] = at[s] /\ files'[s] = files[s]
    BY <1>8 DEF WriteKeys
  <2>4. CASE at[r] = Keys /\ pc'[r] = "commit"
    <3>1. \A i \in Places : i < at[r] \/ i = at[r]
      BY <2>4, CreationAssumption DEF Places
    <3> QED
      BY <2>1, <2>2, <2>3, <2>4, <3>1
  <2>5. CASE at'[r] = at[r] + 1 /\ pc'[r] = "probe"
    <3>1. \A i \in Places : i < at'[r] => i < at[r] \/ i = at[r]
      BY <2>5, CreationAssumption DEF Places
    <3> QED
      BY <2>1, <2>2, <2>3, <2>5, <3>1
  <2> QED
    BY <1>8, <2>4, <2>5 DEF WriteKeys
<1>9. ASSUME NEW r \in Reqs, NoDirectory(r) PROVE Progress'
  BY <1>9 DEF NoDirectory
<1>10. ASSUME NEW r \in Reqs, CallFails(r) PROVE Progress'
  BY <1>10 DEF CallFails
<1>11. ASSUME NEW r \in Reqs, Commit(r) PROVE Progress'
  BY <1>11 DEF Commit
<1>12. ASSUME NEW r \in Reqs, Rollback(r) PROVE Progress'
  BY <1>12 DEF Rollback
<1>13. ASSUME NEW r \in Reqs, DeleteLoad(r) PROVE Progress'
  BY <1>13 DEF DeleteLoad
<1>14. ASSUME NEW r \in Reqs, DeleteDir(r) PROVE Progress'
  BY <1>14 DEF DeleteDir
<1>15. ASSUME NEW r \in Reqs, DeleteRows(r) PROVE Progress'
  BY <1>15 DEF DeleteRows
<1>16. ASSUME NEW r \in Reqs, BeginFails(r) PROVE Progress'
  BY <1>16 DEF BeginFails
<1> QED
  BY <1>1, <1>2, <1>3, <1>4, <1>5, <1>6, <1>7, <1>8, <1>9, <1>10, <1>11, <1>12, <1>13, <1>14, <1>15, <1>16
     DEF Next, CreateStep, DeleteStep

LEMMA Inductive == Spec => []IInv
<1>1. IInv /\ [Next]_vars => IInv'
  BY TypeStep, UnbornStep, ProgressStep, FinalStep DEF IInv
<1> QED
  BY <1>1, Start, PTL DEF Spec

\* The types of HeadCreation: the search for a port stays within the ports, and
\* the loop over the keys within the keys.
THEOREM CreationTypeCorrect == Spec => []TypeOK
<1>1. IInv => TypeOK
  BY DEF IInv
<1> QED
  BY <1>1, Inductive, PTL

\* create() reports success only for a head that is whole, for any number of
\* creations that take ports from each other.
THEOREM SuccessIsWhole == Spec => []CreatedWhole
<1>1. IInv => CreatedWhole
  BY DEF IInv, Progress, Complete, CreatedWhole
<1> QED
  BY <1>1, Inductive, PTL

\* delete() reports success only when the head and all of its nodes are gone
\* for good, wherever their creation stands.
THEOREM DeletionFinal == Spec => []DeletionIsFinal
<1>1. IInv => DeletionIsFinal
  BY DEF IInv
<1> QED
  BY <1>1, Inductive, PTL

------------------------------------------------------------------------------
(* Creations do not run for ever. A creation goes through its stages; between the       *)
(* directory and the end it has fewer keys left, for one key fewer ports, for one port  *)
(* fewer calls. These make a rank that each of its steps lowers.                        *)

StagesLeft(p) ==
    CASE p = "new" -> 6
      [] p = "head" -> 5
      [] p = "dir" -> 4
      [] p \in {"probe", "lookup", "save", "keys"} -> 3
      [] p = "commit" -> 2
      [] p = "rollback" -> 1
      [] OTHER -> 0

PartsLeft(p) == CASE p = "probe" -> 3 [] p = "lookup" -> 2 [] p = "save" -> 1 [] OTHER -> 0

\* What is left at p, with key k and port o at hand; the first number counts most.
Left(p, k, o) ==
    [i \in 1 .. 4 |->
        CASE i = 1 -> StagesLeft(p)
          [] i = 2 -> Keys - k
          [] i = 3 -> MaxPort - o
          [] i = 4 -> PartsLeft(p)]

Less  == {ss \in Nat \X Nat : ss[1] < ss[2]}
Ranks == [1 .. 4 -> Nat]

\* The smaller and the larger of two ranks.
Lower == LexProductOrdering(Less, Nat, 4)

\* There is no infinite sequence of ranks, each one lower than the one before.
LEMMA LowerEnds == IsWellFoundedOn(Lower, Ranks)
<1>1. Less = OpToRel(<, Nat)
  BY DEF Less, OpToRel
<1>2. IsWellFoundedOn(Less, Nat)
  BY <1>1, NatLessThanWellFounded
<1> QED
  BY <1>2, WFLexProductOrdering DEF Lower, Ranks

LEMMA LeftFacts ==
    ASSUME NEW p, NEW k \in Places, NEW o \in Ports
    PROVE  /\ Left(p, k, o) \in Ranks
           /\ Left(p, k, o)[1] = StagesLeft(p) /\ Left(p, k, o)[2] = Keys - k
           /\ Left(p, k, o)[3] = MaxPort - o /\ Left(p, k, o)[4] = PartsLeft(p)
<1>1. StagesLeft(p) \in Nat /\ PartsLeft(p) \in Nat
  BY DEF StagesLeft, PartsLeft
<1>2. Keys - k \in Nat /\ MaxPort - o \in Nat
  BY CreationAssumption DEF Places, Ports
<1> QED
  BY <1>1, <1>2 DEF Left, Ranks

\* A rank is lower if one number is less, and those that count more are the same.
LEMMA LowerAt ==
    ASSUME NEW x \in Ranks, NEW y \in Ranks,
           \/ y[1] < x[1]
           \/ y[1] = x[1] /\ y[2] < x[2]
           \/ y[1] = x[1] /\ y[2] = x[2] /\ y[3] < x[3]
           \/ y[1] = x[1] /\ y[2] = x[2] /\ y[3] = x[3] /\ y[4] < x[4]
    PROVE  <<y, x>> \in Lower
<1>1. PICK n \in 1 .. 4 : y[n] < x[n] /\ \A i \in 1 .. (n - 1) : y[i] = x[i]
  OBVIOUS
<1>2. <<y[n], x[n]>> \in Less
  BY <1>1 DEF Less, Ranks
<1> QED
  BY <1>1, <1>2 DEF Lower, LexProductOrdering, Ranks

Now(r) == Left(pc[r], at[r], port[r])

\* Creation r has less left.
Sinks(r) == <<Now(r)', Now(r)>> \in Lower

LEMMA SinksAt ==
    ASSUME TypeOK, TypeOK', NEW r \in Reqs,
           \/ StagesLeft(pc'[r]) < StagesLeft(pc[r])
           \/ StagesLeft(pc'[r]) = StagesLeft(pc[r]) /\ at'[r] > at[r]
           \/ /\ StagesLeft(pc'[r]) = StagesLeft(pc[r]) /\ at'[r] = at[r]
              /\ port'[r] > port[r]
           \/ /\ StagesLeft(pc'[r]) = StagesLeft(pc[r]) /\ at'[r] = at[r]
              /\ port'[r] = port[r] /\ PartsLeft(pc'[r]) < PartsLeft(pc[r])
    PROVE  Sinks(r)
<1> DEFINE x == Now(r)  y == Left(pc'[r], at'[r], port'[r])
<1>1. /\ at[r] \in Places /\ at'[r] \in Places /\ port[r] \in Ports /\ port'[r] \in Ports
  BY DEF TypeOK
<1>2. /\ x \in Ranks /\ y \in Ranks
      /\ x[1] = StagesLeft(pc[r]) /\ y[1] = StagesLeft(pc'[r])
      /\ x[2] = Keys - at[r] /\ y[2] = Keys - at'[r]
      /\ x[3] = MaxPort - port[r] /\ y[3] = MaxPort - port'[r]
      /\ x[4] = PartsLeft(pc[r]) /\ y[4] = PartsLeft(pc'[r])
  BY <1>1, LeftFacts DEF Now
<1>3. /\ at[r] \in Nat /\ at'[r] \in Nat /\ port[r] \in Nat /\ port'[r] \in Nat
      /\ Keys \in Nat /\ MaxPort \in Nat
  BY <1>1, CreationAssumption DEF Places, Ports
<1> HIDE DEF x, y
<1>4. \/ y[1] < x[1]
      \/ y[1] = x[1] /\ y[2] < x[2]
      \/ y[1] = x[1] /\ y[2] = x[2] /\ y[3] < x[3]
      \/ y[1] = x[1] /\ y[2] = x[2] /\ y[3] = x[3] /\ y[4] < x[4]
  BY <1>2, <1>3
<1>5. <<y, x>> \in Lower
  BY <1>2, <1>4, LowerAt
<1> QED
  BY <1>5 DEF Sinks, Now, x, y

\* The next port of the search.
LEMMA TryNextSinks ==
    ASSUME TypeOK, TypeOK', NEW r \in Reqs, pc[r] \in {"probe", "lookup"}, TryNext(r),
           UNCHANGED at
    PROVE  Sinks(r)
<1>1. pc'[r] = "probe" /\ port'[r] = port[r] + 1 /\ at'[r] = at[r]
  BY DEF TypeOK, TryNext, Goto
<1>2. port[r] \in Nat
  BY DEF TypeOK, Ports
<1>3. StagesLeft(pc'[r]) = StagesLeft(pc[r])
  BY <1>1 DEF StagesLeft
<1> QED
  BY <1>1, <1>2, <1>3, SinksAt

\* The next call for the same port.
LEMMA PartSinks ==
    ASSUME TypeOK, TypeOK', NEW r \in Reqs, NEW p, Goto(r, p), UNCHANGED <<at, port>>,
           \/ StagesLeft(p) < StagesLeft(pc[r])
           \/ StagesLeft(p) = StagesLeft(pc[r]) /\ PartsLeft(p) < PartsLeft(pc[r])
    PROVE  Sinks(r)
<1>1. pc'[r] = p /\ at'[r] = at[r] /\ port'[r] = port[r]
  BY DEF TypeOK, Goto
<1> QED
  BY <1>1, SinksAt

LEMMA StepSinks ==
    ASSUME TypeOK, TypeOK', NEW r \in Reqs, CreateStep(r) \/ BeginFails(r) \/ CallFails(r)
    PROVE  Sinks(r)
<1> USE DEF StagesLeft, PartsLeft
<1>1. CASE TakeConnection(r)
  BY <1>1, PartSinks DEF TakeConnection
<1>2. CASE SaveHead(r)
  BY <1>2, PartSinks DEF SaveHead
<1>3. CASE MakeDir(r)
  BY <1>3, PartSinks DEF MakeDir
<1>4. CASE Probe(r)
  BY <1>4, PartSinks, TryNextSinks DEF Probe
<1>5. CASE Lookup(r)
  BY <1>5, PartSinks, TryNextSinks DEF Lookup
<1>6. CASE SaveNode(r)
  BY <1>6, PartSinks DEF SaveNode
<1>7. CASE WriteKeys(r)
  <2>1. CASE Goto(r, "commit") /\ UNCHANGED <<at, port>>
    BY <1>7, <2>1, PartSinks DEF WriteKeys
  <2>2. CASE at' = [at EXCEPT ![r] = @ + 1] /\ Goto(r, "probe")
    <3>1. at'[r] = at[r] + 1 /\ pc'[r] = "probe" /\ pc[r] = "keys" /\ at[r] \in Nat
      BY <1>7, <2>2 DEF WriteKeys, TypeOK, Goto, Places
    <3> QED
      BY <3>1, SinksAt
  <2> QED
    BY <1>7, <2>1, <2>2, Zenon DEF WriteKeys
<1>8. CASE NoDirectory(r)
  BY <1>8, PartSinks DEF NoDirectory
<1>9. CASE BeginFails(r)
  <2>1. pc[r] = "new" /\ Goto(r, "failed") /\ UNCHANGED <<at, port>>
    BY <1>9 DEF BeginFails
  <2> QED
    BY <2>1, PartSinks
<1>10. CASE CallFails(r)
  <2>1. /\ pc[r] \in {"head", "dir", "lookup", "save", "keys", "commit"}
        /\ Goto(r, "rollback") /\ UNCHANGED <<at, port>>
    BY <1>10 DEF CallFails
  <2> QED
    BY <2>1, PartSinks
<1>11. CASE Commit(r) \/ Rollback(r)
  BY <1>11, PartSinks DEF Commit, Rollback
<1> QED
  BY <1>1, <1>2, <1>3, <1>4, <1>5, <1>6, <1>7, <1>8, <1>9, <1>10, <1>11 DEF CreateStep

\* Every step of a creation, its failures included, lowers what is left of it, and no
\* other creation, deletion or failure sets it back: a search for a port that other
\* creations take goes up and on, a key that is done is done.
CreationsGetOn == [][\A r \in Reqs : <<pc[r], at[r], port[r]>>' # <<pc[r], at[r], port[r]>>
                                       => Sinks(r)]_vars

\* Creations get on, in ranks that cannot be lowered for ever: with the connections it
\* waits for, each creation comes to its end after finitely many steps.
THEOREM CreationsTerminate ==
    /\ IsWellFoundedOn(Lower, Ranks)
    /\ Spec => [](\A r \in Reqs : Now(r) \in Ranks)
    /\ Spec => CreationsGetOn
<1> DEFINE A == \A r \in Reqs : <<pc[r], at[r], port[r]>>' # <<pc[r], at[r], port[r]>>
                                  => Sinks(r)
<1>1. IInv => \A r \in Reqs : Now(r) \in Ranks
  BY LeftFacts DEF IInv, TypeOK, Now
<1>2. IInv /\ IInv' /\ [Next]_vars => [A]_vars
  <2> SUFFICES ASSUME TypeOK, TypeOK', Next, NEW r \in Reqs,
                      <<pc[r], at[r], port[r]>>' # <<pc[r], at[r], port[r]>>
               PROVE  Sinks(r)
    BY DEF IInv
  <2>1. ASSUME NEW q \in Reqs, CreateStep(q) \/ BeginFails(q) \/ CallFails(q) PROVE Sinks(r)
    <3>1. CASE q = r
      BY <2>1, <3>1, StepSinks
    <3>2. CASE q # r
      BY <2>1, <3>2 DEF TypeOK, CreateStep, BeginFails, CallFails, TakeConnection, SaveHead, MakeDir,
         Probe, Lookup, SaveNode, WriteKeys, NoDirectory, Commit, Rollback, TryNext, Goto
    <3> QED
      BY <3>1, <3>2
  <2>2. ASSUME NEW h \in Reqs, DeleteLoad(h) \/ DeleteStep(h) PROVE Sinks(r)
    BY <2>2 DEF DeleteLoad, DeleteStep, DeleteDir, DeleteRows, request
  <2> QED
    BY <2>1, <2>2 DEF Next
<1>3. Spec => CreationsGetOn
  BY <1>2, Inductive, PTL DEF Spec, CreationsGetOn
<1>4. Spec => [](\A r \in Reqs : Now(r) \in Ranks)
  BY <1>1, Inductive, PTL
<1> QED
  BY <1>3, <1>4, LowerEnds
=============================================================================
