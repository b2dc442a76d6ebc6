--------------------------- MODULE AgentCountProofs ---------------------------
(***************************************************************************)
(* Proofs about the counters of the handlers (AgentHandlers): that they    *)
(* agree with the requests and with the VMs made, and that the requests    *)
(* received bound every one of them.                                       *)
(***************************************************************************)
EXTENDS AgentHandlersProofs

(* Each counter that a request is going to move owes its bound to the      *)
(* request itself, which was counted when it came in: the counter and the  *)
(* requests that have not yet moved it are together no more than calls.    *)
Early == {"validate", "manager"}                       \* may yet make a VM
PreSend == Early \cup {"marking", "announce"}          \* may yet send an event
PreCount == PreSend \cup {"count"}                     \* may yet count
Active == PreCount \cup {"announceError", "reply"}     \* not counted as returned

At(L) == {h \in Handlers : pc[h] \in L}

Earlies == Cardinality(At(Early))
PreSends == Cardinality(At(PreSend))
PreCounts == Cardinality(At(PreCount))
Actives == Cardinality(At(Active))

BoundInv ==
  /\ calls \in Nat /\ created \in Nat /\ requests \in [{"ok", "error"} -> Nat]
  /\ calls <= MaxCalls
  /\ requests["ok"] + requests["error"] + Actives = calls
  /\ created + PreCounts <= calls /\ stopsDone + PreCounts <= calls
  /\ gauge + PreCounts <= calls /\ PreCounts - gauge <= calls
  /\ \A v \in VmIds : /\ gen[v] + Earlies <= calls
                      /\ balance[v] + PreSends <= calls
                      /\ PreSends - balance[v] <= calls

(* The counter of creations lacks the VMs whose CreateVM has yet to count. *)
MadeInv == created + Cardinality(Owed("create")) = Cardinality(Made)

----------------------------------------------------------------------------
(* A handler that goes from one point to another leaves the sets that held *)
(* it and enters those that hold its new point.                            *)
Moved(n, L, p, l) ==     \* what becomes of the size n of At(L)
  /\ (p \in L <=> l \in L) => n' = n
  /\ p \in L /\ l \notin L => n' = n - 1
  /\ p \notin L /\ l \in L => n' = n + 1

LEMMA AtFinite == \A L : IsFiniteSet(At(L))
  BY FS_Subset, FiniteAssumption DEF At

LEMMA Moves ==
  ASSUME HandlerTypes, NEW h \in Handlers, NEW l, pc' = [pc EXCEPT ![h] = l], NEW L
  PROVE  Moved(Cardinality(At(L)), L, pc[h], l)
<1>1. ASSUME pc[h] \in L <=> l \in L PROVE At(L)' = At(L)
  BY <1>1 DEF At, HandlerTypes
<1>2. ASSUME pc[h] \in L, l \notin L PROVE Cardinality(At(L))' = Cardinality(At(L)) - 1
  <2>1. At(L)' = At(L) \ {h} /\ h \in At(L)
    BY <1>2 DEF At, HandlerTypes
  <2> QED
    BY <2>1, AtFinite, CardDrop
<1>3. ASSUME pc[h] \notin L, l \in L PROVE Cardinality(At(L))' = Cardinality(At(L)) + 1
  <2>1. At(L)' = At(L) \cup {h} /\ h \notin At(L)
    BY <1>3 DEF At, HandlerTypes
  <2> QED
    BY <2>1, AtFinite, CardAdd
<1> QED
  BY <1>1, <1>2, <1>3 DEF Moved

(* The same of the four sets whose sizes bound the counters.               *)
AllMoved(p, l) ==
  /\ Moved(Earlies, Early, p, l)
  /\ Moved(PreSends, PreSend, p, l)
  /\ Moved(PreCounts, PreCount, p, l)
  /\ Moved(Actives, Active, p, l)

LEMMA CountMoves ==
  ASSUME HandlerTypes, NEW h \in Handlers, NEW l, pc' = [pc EXCEPT ![h] = l]
  PROVE  AllMoved(pc[h], l)
<1>1. Moved(Earlies, Early, pc[h], l)
  BY Moves DEF Earlies, Moved
<1>2. Moved(PreSends, PreSend, pc[h], l)
  BY Moves DEF PreSends, Moved
<1>3. Moved(PreCounts, PreCount, pc[h], l)
  BY Moves DEF PreCounts, Moved
<1>4. Moved(Actives, Active, pc[h], l)
  BY Moves DEF Actives, Moved
<1> QED
  BY <1>1, <1>2, <1>3, <1>4 DEF AllMoved

LEMMA CountsNat ==
  Earlies \in Nat /\ PreSends \in Nat /\ PreCounts \in Nat /\ Actives \in Nat
  BY AtFinite, FS_CardinalityType DEF Earlies, PreSends, PreCounts, Actives

(* A step that moves no handler and no counter.                            *)
LEMMA BoundKept ==
  ASSUME BoundInv, UNCHANGED <<pc, calls, created, requests, stopsDone, gauge, gen, balance>>
  PROVE  BoundInv'
<1>1. UNCHANGED <<Earlies, PreSends, PreCounts, Actives>>
  BY DEF Earlies, PreSends, PreCounts, Actives, At
<1> QED
  BY <1>1 DEF BoundInv

LEMMA NextBound == ASSUME BasicInv, BoundInv, [Next]_vars PROVE BoundInv'
<1> USE DEF managerVars, handlerVars, metricVars, eventVars
<1>0. HandlerTypes /\ WorkInv
  BY DEF BasicInv
<1>a. Earlies \in Nat /\ PreSends \in Nat /\ PreCounts \in Nat /\ Actives \in Nat
  BY CountsNat
<1>1. ASSUME NEW h \in Handlers, NEW m \in Methods, NEW v \in VmIds, Receive(h, m, v)
      PROVE BoundInv'
  <2>1. pc' = [pc EXCEPT ![h] = "validate"]
    BY <1>1 DEF Receive
  <2> QED
    <3>1. AllMoved("idle", "validate")
      BY <1>1, <1>0, <2>1, CountMoves DEF Receive
    <3>2. /\ Earlies' = Earlies + 1 /\ PreSends' = PreSends + 1
          /\ PreCounts' = PreCounts + 1 /\ Actives' = Actives + 1
      BY <3>1 DEF AllMoved, Moved, Early, PreSend, PreCount, Active
    <3> QED
      BY <1>1, <1>0, <1>a, <3>2, CallsAssumption DEF Receive, BoundInv, HandlerTypes
<1>2. ASSUME NEW h \in Handlers, Validate(h) PROVE BoundInv'
  <2>1. CASE pc' = [pc EXCEPT ![h] = "manager"]
    <3>1. AllMoved("validate", "manager")
      BY <1>2, <1>0, <2>1, CountMoves DEF Validate
    <3>2. /\ Earlies' = Earlies /\ PreSends' = PreSends
          /\ PreCounts' = PreCounts /\ Actives' = Actives
      BY <3>1 DEF AllMoved, Moved, Early, PreSend, PreCount, Active
    <3> QED
      BY <1>2, <1>0, <1>a, <2>1, <3>2
      DEF Validate, Goto, Return, BoundInv, HandlerTypes, WorkInv
  <2>2. CASE pc' = [pc EXCEPT ![h] = "idle"]
    <3>1. AllMoved("validate", "idle")
      BY <1>2, <1>0, <2>2, CountMoves DEF Validate
    <3>2. /\ Earlies' = Earlies - 1 /\ PreSends' = PreSends - 1
          /\ PreCounts' = PreCounts - 1 /\ Actives' = Actives - 1
      BY <3>1 DEF AllMoved, Moved, Early, PreSend, PreCount, Active
    <3> QED
      BY <1>2, <1>0, <1>a, <2>2, <3>2
      DEF Validate, Goto, Return, BoundInv, HandlerTypes, WorkInv
  <2> QED
    BY <1>2, <2>1, <2>2 DEF Validate, Goto, Return
<1>3. ASSUME NEW h \in Handlers, ManagerCreate(h) PROVE BoundInv'
  <2>1. CASE pc' = [pc EXCEPT ![h] = "announce"]
    <3>1. AllMoved("manager", "announce")
      BY <1>3, <1>0, <2>1, CountMoves DEF ManagerCreate
    <3>2. /\ Earlies' = Earlies - 1 /\ PreSends' = PreSends
          /\ PreCounts' = PreCounts /\ Actives' = Actives
      BY <3>1 DEF AllMoved, Moved, Early, PreSend, PreCount, Active
    <3> QED
      BY <1>3, <1>0, <1>a, <2>1, <3>2
      DEF ManagerCreate, Goto, Registry!Create, BoundInv, HandlerTypes, WorkInv
  <2>2. CASE pc' = [pc EXCEPT ![h] = "announceError"]
    <3>1. AllMoved("manager", "announceError")
      BY <1>3, <1>0, <2>2, CountMoves DEF ManagerCreate
    <3>2. /\ Earlies' = Earlies - 1 /\ PreSends' = PreSends - 1
          /\ PreCounts' = PreCounts - 1 /\ Actives' = Actives
      BY <3>1 DEF AllMoved, Moved, Early, PreSend, PreCount, Active
    <3> QED
      BY <1>3, <1>0, <1>a, <2>2, <3>2
      DEF ManagerCreate, Goto, Registry!Create, BoundInv, HandlerTypes, WorkInv
  <2> QED
    BY <1>3, <2>1, <2>2 DEF ManagerCreate, Goto, Registry!Create
<1>4. ASSUME NEW h \in Handlers, ManagerStart(h) PROVE BoundInv'
  <2>1. CASE pc' = [pc EXCEPT ![h] = "announce"]
    <3>1. AllMoved("manager", "announce")
      BY <1>4, <1>0, <2>1, CountMoves DEF ManagerStart
    <3>2. /\ Earlies' = Earlies - 1 /\ PreSends' = PreSends
          /\ PreCounts' = PreCounts /\ Actives' = Actives
      BY <3>1 DEF AllMoved, Moved, Early, PreSend, PreCount, Active
    <3> QED
      BY <1>4, <1>0, <1>a, <2>1, <3>2
      DEF ManagerStart, Goto, BoundInv, HandlerTypes, WorkInv
  <2>2. CASE pc' = [pc EXCEPT ![h] = "announceError"]
    <3>1. AllMoved("manager", "announceError")
      BY <1>4, <1>0, <2>2, CountMoves DEF ManagerStart
    <3>2. /\ Earlies' = Earlies - 1 /\ PreSends' = PreSends - 1
          /\ PreCounts' = PreCounts - 1 /\ Actives' = Actives
      BY <3>1 DEF AllMoved, Moved, Early, PreSend, PreCount, Active
    <3> QED
      BY <1>4, <1>0, <1>a, <2>2, <3>2
      DEF ManagerStart, Goto, BoundInv, HandlerTypes, WorkInv
  <2> QED
    BY <1>4, <2>1, <2>2 DEF ManagerStart, Goto
<1>5. ASSUME NEW h \in Handlers, ManagerStop(h) PROVE BoundInv'
  <2>1. CASE pc' = [pc EXCEPT ![h] = "marking"]
    <3>1. AllMoved("manager", "marking")
      BY <1>5, <1>0, <2>1, CountMoves DEF ManagerStop
    <3>2. /\ Earlies' = Earlies - 1 /\ PreSends' = PreSends
          /\ PreCounts' = PreCounts /\ Actives' = Actives
      BY <3>1 DEF AllMoved, Moved, Early, PreSend, PreCount, Active
    <3> QED
      BY <1>5, <1>0, <1>a, <2>1, <3>2
      DEF ManagerStop, Goto, BoundInv, HandlerTypes, WorkInv
  <2>2. CASE pc' = [pc EXCEPT ![h] = "announceError"]
    <3>0. pc[h] = "manager"
      BY <1>5 DEF ManagerStop
    <3>1. AllMoved("manager", "announceError")
      BY <1>0, <2>2, <3>0, CountMoves
    <3>2. /\ Earlies' = Earlies - 1 /\ PreSends' = PreSends - 1
          /\ PreCounts' = PreCounts - 1 /\ Actives' = Actives
      BY <3>1 DEF AllMoved, Moved, Early, PreSend, PreCount, Active
    <3> QED
      BY <1>5, <1>0, <1>a, <2>2, <3>2
      DEF ManagerStop, Goto, BoundInv, HandlerTypes, WorkInv
  <2> QED
    BY <1>5, <2>1, <2>2 DEF ManagerStop, Goto
<1>6. ASSUME NEW h \in Handlers, ManagerMark(h) PROVE BoundInv'
  <2>1. pc' = [pc EXCEPT ![h] = "announce"]
    BY <1>6 DEF ManagerMark, Goto, Registry!Stop
  <2> QED
    <3>1. AllMoved("marking", "announce")
      BY <1>6, <1>0, <2>1, CountMoves DEF ManagerMark
    <3>2. /\ Earlies' = Earlies /\ PreSends' = PreSends
          /\ PreCounts' = PreCounts /\ Actives' = Actives
      BY <3>1 DEF AllMoved, Moved, Early, PreSend, PreCount, Active
    <3> QED
      BY <1>6, <1>0, <1>a, <2>1, <3>2
      DEF ManagerMark, Goto, Registry!Stop, BoundInv, HandlerTypes, WorkInv
<1>7. ASSUME NEW h \in Handlers, ManagerDelete(h) PROVE BoundInv'
  <2>1. CASE pc' = [pc EXCEPT ![h] = "announce"]
    <3>1. AllMoved("manager", "announce")
      BY <1>7, <1>0, <2>1, CountMoves DEF ManagerDelete
    <3>2. /\ Earlies' = Earlies - 1 /\ PreSends' = PreSends
          /\ PreCounts' = PreCounts /\ Actives' = Actives
      BY <3>1 DEF AllMoved, Moved, Early, PreSend, PreCount, Active
    <3> QED
      BY <1>7, <1>0, <1>a, <2>1, <3>2
      DEF ManagerDelete, Goto, Registry!Delete, BoundInv, HandlerTypes, WorkInv
  <2>2. CASE pc' = [pc EXCEPT ![h] = "reply"]
    <3>1. AllMoved("manager", "reply")
      BY <1>7, <1>0, <2>2, CountMoves DEF ManagerDelete
    <3>2. /\ Earlies' = Earlies - 1 /\ PreSends' = PreSends - 1
          /\ PreCounts' = PreCounts - 1 /\ Actives' = Actives
      BY <3>1 DEF AllMoved, Moved, Early, PreSend, PreCount, Active
    <3> QED
      BY <1>7, <1>0, <1>a, <2>2, <3>2
      DEF ManagerDelete, Goto, Registry!Delete, BoundInv, HandlerTypes, WorkInv
  <2> QED
    BY <1>7, <2>1, <2>2 DEF ManagerDelete, Goto, Registry!Delete
<1>8. ASSUME NEW h \in Handlers, ReadOne(h) PROVE BoundInv'
  <2>1. pc' = [pc EXCEPT ![h] = "idle"]
    BY <1>8 DEF ReadOne, Return
  <2> QED
    <3>1. AllMoved("manager", "idle")
      BY <1>8, <1>0, <2>1, CountMoves DEF ReadOne
    <3>2. /\ Earlies' = Earlies - 1 /\ PreSends' = PreSends - 1
          /\ PreCounts' = PreCounts - 1 /\ Actives' = Actives - 1
      BY <3>1 DEF AllMoved, Moved, Early, PreSend, PreCount, Active
    <3> QED
      <4>1. \E s \in {"ok", "error"} : requests' = [requests EXCEPT ![s] = @ + 1]
        BY <1>8 DEF ReadOne, Return
      <4> QED
        BY <1>8, <1>0, <1>a, <3>2, <4>1 DEF ReadOne, BoundInv, HandlerTypes
<1>9. ASSUME NEW h \in Handlers, ReadAll(h) PROVE BoundInv'
  <2>1. pc' = [pc EXCEPT ![h] = "idle"]
    BY <1>9 DEF ReadAll, Return
  <2> QED
    <3>1. AllMoved("manager", "idle")
      BY <1>9, <1>0, <2>1, CountMoves DEF ReadAll
    <3>2. /\ Earlies' = Earlies - 1 /\ PreSends' = PreSends - 1
          /\ PreCounts' = PreCounts - 1 /\ Actives' = Actives - 1
      BY <3>1 DEF AllMoved, Moved, Early, PreSend, PreCount, Active
    <3> QED
      BY <1>9, <1>0, <1>a, <2>1, <3>2
      DEF ReadAll, Return, BoundInv, HandlerTypes, WorkInv
<1>10. ASSUME NEW h \in Handlers, Announce(h) PROVE BoundInv'
  <2>1. CASE pc' = [pc EXCEPT ![h] = "reply"]
    <3>1. AllMoved("announce", "reply")
      BY <1>10, <1>0, <2>1, CountMoves DEF Announce
    <3>2. /\ Earlies' = Earlies /\ PreSends' = PreSends - 1
          /\ PreCounts' = PreCounts - 1 /\ Actives' = Actives
      BY <3>1 DEF AllMoved, Moved, Early, PreSend, PreCount, Active
    <3> QED
      BY <1>10, <1>0, <1>a, <2>1, <3>2
      DEF Announce, Goto, EventOf, BalanceOf, BoundInv, HandlerTypes, WorkInv
  <2>2. CASE pc' = [pc EXCEPT ![h] = "count"]
    <3>1. AllMoved("announce", "count")
      BY <1>10, <1>0, <2>2, CountMoves DEF Announce
    <3>2. /\ Earlies' = Earlies /\ PreSends' = PreSends - 1
          /\ PreCounts' = PreCounts /\ Actives' = Actives
      BY <3>1 DEF AllMoved, Moved, Early, PreSend, PreCount, Active
    <3> QED
      <4>1. ASSUME NEW v \in VmIds
            PROVE  balance'[v] + PreSends' <= calls /\ PreSends' - balance'[v] <= calls
        <5>1. balance'[v] \in balance[v] - 1 .. balance[v] + 1
          BY <1>10, <1>0 DEF Announce, BalanceOf, HandlerTypes, WorkInv, Changing
        <5> QED
          BY <1>0, <1>a, <3>2, <5>1 DEF BoundInv, HandlerTypes
      <4> QED
        BY <1>10, <1>0, <1>a, <3>2, <4>1 DEF Announce, BoundInv, HandlerTypes
  <2> QED
    BY <1>10, <2>1, <2>2 DEF Announce, Goto, EventOf, BalanceOf
<1>11. ASSUME NEW h \in Handlers, AnnounceError(h) PROVE BoundInv'
  <2>1. pc' = [pc EXCEPT ![h] = "reply"]
    BY <1>11 DEF AnnounceError, Goto
  <2> QED
    <3>1. AllMoved("announceError", "reply")
      BY <1>11, <1>0, <2>1, CountMoves DEF AnnounceError
    <3>2. /\ Earlies' = Earlies /\ PreSends' = PreSends
          /\ PreCounts' = PreCounts /\ Actives' = Actives
      BY <3>1 DEF AllMoved, Moved, Early, PreSend, PreCount, Active
    <3> QED
      BY <1>11, <1>0, <1>a, <2>1, <3>2
      DEF AnnounceError, Goto, BoundInv, HandlerTypes, WorkInv
<1>12. ASSUME NEW h \in Handlers, Count(h) PROVE BoundInv'
  <2>1. pc' = [pc EXCEPT ![h] = "reply"]
    BY <1>12 DEF Count, Goto
  <2> QED
    <3>1. AllMoved("count", "reply")
      BY <1>12, <1>0, <2>1, CountMoves DEF Count
    <3>2. /\ Earlies' = Earlies /\ PreSends' = PreSends
          /\ PreCounts' = PreCounts - 1 /\ Actives' = Actives
      BY <3>1 DEF AllMoved, Moved, Early, PreSend, PreCount, Active
    <3> QED
      BY <1>12, <1>0, <1>a, <2>1, <3>2
      DEF Count, Goto, BoundInv, HandlerTypes, WorkInv
<1>13. ASSUME NEW h \in Handlers, Reply(h) PROVE BoundInv'
  <2>1. pc' = [pc EXCEPT ![h] = "idle"]
    BY <1>13 DEF Reply, Return
  <2> QED
    <3>1. AllMoved("reply", "idle")
      BY <1>13, <1>0, <2>1, CountMoves DEF Reply
    <3>2. /\ Earlies' = Earlies /\ PreSends' = PreSends
          /\ PreCounts' = PreCounts /\ Actives' = Actives - 1
      BY <3>1 DEF AllMoved, Moved, Early, PreSend, PreCount, Active
    <3> QED
      BY <1>13, <1>0, <1>a, <2>1, <3>2
      DEF Reply, Return, BoundInv, HandlerTypes, WorkInv
<1>14. ASSUME NEW v \in VmIds, ProcessEnds(v) PROVE BoundInv'
  BY <1>14, BoundKept DEF ProcessEnds, Registry!Stop
<1>15. CASE UNCHANGED vars
  BY <1>15, BoundKept DEF vars
<1> QED
  BY <1>1, <1>2, <1>3, <1>4, <1>5, <1>6, <1>7, <1>8, <1>9, <1>10, <1>11, <1>12, <1>13,
     <1>14, <1>15 DEF Next, Step

LEMMA MadeFinite == IsFiniteSet(Made)
<1>1. IsFiniteSet(1 .. MaxCalls) /\ IsFiniteSet(VmIds)
  BY FS_Interval, FiniteAssumption, CallsAssumption
<1>2. IsFiniteSet(VmIds \X (1 .. MaxCalls))
  BY <1>1, FS_Product
<1> QED
  BY <1>2, FS_Subset DEF Made

(* A step that makes no VM and counts no creation.                         *)
LEMMA MadeKept ==
  ASSUME MadeInv, UNCHANGED <<created, gen>>, Owed("create")' = Owed("create")
  PROVE  MadeInv'
<1>1. Made' = Made
  BY DEF Made
<1> QED
  BY <1>1 DEF MadeInv

LEMMA NextMade == ASSUME BasicInv, BoundInv, MadeInv, [Next]_vars PROVE MadeInv'
<1> USE DEF BasicInv, HandlerTypes, WorkInv, Owing, Owed, Methods, Changing,
            managerVars, handlerVars, metricVars, eventVars
<1>1. ASSUME NEW h \in Handlers, NEW m \in Methods, NEW v \in VmIds, Receive(h, m, v)
      PROVE MadeInv'
  BY <1>1, MadeKept DEF Receive
<1>2. ASSUME NEW h \in Handlers, Validate(h) PROVE MadeInv'
  BY <1>2, MadeKept DEF Validate, Goto, Return
<1>3. ASSUME NEW h \in Handlers, ManagerCreate(h) PROVE MadeInv'
  <2>1. CASE pc'[h] = "announceError"
    BY <1>3, <2>1, MadeKept DEF ManagerCreate, Goto
  <2>2. CASE pc'[h] = "announce"
    <3> DEFINE new == <<arg[h], gen[arg[h]] + 1>>
    <3>1. Owed("create")' = Owed("create") \cup {h} /\ h \notin Owed("create")
      BY <1>3, <2>2 DEF ManagerCreate, Goto
    <3>2. created' = created /\ created \in Nat
      BY <1>3 DEF ManagerCreate, BoundInv
    <3>3. gen[arg[h]] + 1 <= MaxCalls
      <4>1. h \in At(Early) /\ arg[h] \in VmIds
        BY <1>3 DEF ManagerCreate, At, Early
      <4>2. Earlies \in Nat /\ Earlies >= 1
        <5>1. Earlies # 0 /\ Earlies \in Nat
          BY <4>1, AtFinite, CountsNat, FS_EmptySet DEF Earlies
        <5> QED
          BY <5>1
      <4> QED
        BY <4>1, <4>2, CallsAssumption DEF BoundInv
    <3>4. Made' = Made \cup {new} /\ new \notin Made
      <4>1. arg[h] \in VmIds /\ gen' = [gen EXCEPT ![arg[h]] = @ + 1]
        BY <1>3, <2>2 DEF ManagerCreate, Goto
      <4> QED
        BY <4>1, <3>3, CallsAssumption DEF Made
    <3> HIDE DEF Owed, new
    <3>5. /\ Cardinality(Owed("create")) \in Nat
          /\ Cardinality(Owed("create")') = Cardinality(Owed("create")) + 1
      BY <3>1, OwedFinite, CardAdd
    <3>6. /\ Cardinality(Made) \in Nat
          /\ Cardinality(Made') = Cardinality(Made) + 1
      BY <3>4, MadeFinite, CardAdd
    <3> QED
      BY <3>2, <3>5, <3>6 DEF MadeInv
  <2> QED
    BY <1>3, <2>1, <2>2 DEF ManagerCreate, Goto
<1>4. ASSUME NEW h \in Handlers, ManagerStart(h) PROVE MadeInv'
  BY <1>4, MadeKept DEF ManagerStart, Goto
<1>5. ASSUME NEW h \in Handlers, ManagerStop(h) PROVE MadeInv'
  BY <1>5, MadeKept DEF ManagerStop, Goto
<1>6. ASSUME NEW h \in Handlers, ManagerMark(h) PROVE MadeInv'
  BY <1>6, MadeKept DEF ManagerMark, Goto, Registry!Stop
<1>7. ASSUME NEW h \in Handlers, ManagerDelete(h) PROVE MadeInv'
  BY <1>7, MadeKept DEF ManagerDelete, Goto, Registry!Delete
<1>8. ASSUME NEW h \in Handlers, ReadOne(h) PROVE MadeInv'
  BY <1>8, MadeKept DEF ReadOne, Return
<1>9. ASSUME NEW h \in Handlers, ReadAll(h) PROVE MadeInv'
  BY <1>9, MadeKept DEF ReadAll, Return
<1>10. ASSUME NEW h \in Handlers, Announce(h) PROVE MadeInv'
  BY <1>10, MadeKept DEF Announce, Goto, EventOf, BalanceOf
<1>11. ASSUME NEW h \in Handlers, AnnounceError(h) PROVE MadeInv'
  BY <1>11, MadeKept DEF AnnounceError, Goto
<1>12. ASSUME NEW h \in Handlers, Count(h) PROVE MadeInv'
  <2>1. CASE op[h] = "create"
    <3>1. Owed("create")' = Owed("create") \ {h} /\ h \in Owed("create")
      BY <1>12, <2>1 DEF Count, Goto
    <3>2. Made' = Made /\ created' = created + 1 /\ created \in Nat
      BY <1>12, <2>1 DEF Count, Made, BoundInv
    <3> HIDE DEF Owed
    <3>3. /\ Cardinality(Owed("create")) \in Nat
          /\ Cardinality(Owed("create")') = Cardinality(Owed("create")) - 1
      BY <3>1, OwedFinite, CardDrop
    <3> QED
      BY <3>2, <3>3 DEF MadeInv
  <2>2. CASE op[h] # "create"
    BY <1>12, <2>2, MadeKept DEF Count, Goto
  <2> QED
    BY <2>1, <2>2
<1>13. ASSUME NEW h \in Handlers, Reply(h) PROVE MadeInv'
  BY <1>13, MadeKept DEF Reply, Return
<1>14. ASSUME NEW v \in VmIds, ProcessEnds(v) PROVE MadeInv'
  BY <1>14, MadeKept DEF ProcessEnds, Registry!Stop
<1>15. CASE UNCHANGED vars
  BY <1>15, MadeKept DEF vars
<1> QED
  BY <1>1, <1>2, <1>3, <1>4, <1>5, <1>6, <1>7, <1>8, <1>9, <1>10, <1>11, <1>12, <1>13,
     <1>14, <1>15 DEF Next, Step

----------------------------------------------------------------------------
CountInv == HandlerInv /\ BoundInv /\ MadeInv

LEMMA InitCounts == ASSUME Init PROVE CountInv
<1>1. /\ At(Early) = {} /\ At(PreSend) = {} /\ At(PreCount) = {} /\ At(Active) = {}
      /\ Owed("create") = {} /\ Made = {}
  BY CallsAssumption
  DEF Init, At, Early, PreSend, PreCount, Active, Owed, Owing, Made
<1>2. /\ Earlies = 0 /\ PreSends = 0 /\ PreCounts = 0 /\ Actives = 0
      /\ Cardinality(Owed("create")) = 0 /\ Cardinality(Made) = 0
  BY <1>1, FS_EmptySet DEF Earlies, PreSends, PreCounts, Actives
<1>3. BoundInv
  BY <1>2, CallsAssumption DEF Init, BoundInv
<1>4. MadeInv
  BY <1>2 DEF Init, MadeInv
<1> QED
  BY InitHandlers, <1>3, <1>4 DEF CountInv

(* What each counter has and what the requests under way still owe it.     *)
THEOREM CountersInvariant == Spec => []CountInv
<1>1. Init => CountInv
  BY InitCounts
<1>2. CountInv /\ [Next]_vars => CountInv'
  <2>1. HandlerInv /\ [Next]_vars => HandlerInv'
    BY NextTypes, NextWork, NextOneBusy, NextTell, NextPtr, NextBalance, NextGauge
    DEF HandlerInv, BasicInv
  <2>2. CountInv => BasicInv
    BY DEF CountInv, HandlerInv
  <2> QED
    BY <2>1, <2>2, NextBound, NextMade DEF CountInv
<1> QED
  BY <1>1, <1>2, PTL DEF Spec

(* The gauge, the counter of creations and the interceptor's counter of    *)
(* requests miss nothing and count nothing twice, however the requests     *)
(* overlap, fail or are repeated.                                          *)
THEOREM CountersAccount == Spec => []CountersAgree
<1>1. CountInv => GaugeAgrees
  BY DEF CountInv, HandlerInv, GaugeInv, GaugeAgrees, Owed, Alive
<1>2. CountInv => created + Cardinality(Owing("create", {"announce", "count"}))
                    = Cardinality(Made)
  BY DEF CountInv, MadeInv, Owed
<1>3. CountInv => requests["ok"] + requests["error"]
                    + Cardinality({h \in Handlers : pc[h] # "idle"}) = calls
  <2>1. CountInv => At(Active) = {h \in Handlers : pc[h] # "idle"}
    BY DEF CountInv, HandlerInv, BasicInv, HandlerTypes,
           At, Active, PreCount, PreSend, Early
  <2> QED
    BY <2>1 DEF CountInv, BoundInv, Actives
<1>4. CountInv => CountersAgree
  BY <1>1, <1>2, <1>3 DEF CountersAgree
<1> QED
  BY <1>4, CountersInvariant, PTL

(* Every counter stays within the number of requests received: no request  *)
(* moves one twice, and the gauge goes below zero by stops at most.        *)
THEOREM HandlerTypeCorrect == Spec => []TypeOK
<1>1. ASSUME CountInv PROVE TypeOK
  <2>1. HandlerTypes /\ WorkInv /\ PtrInv /\ BoundInv
    BY <1>1 DEF CountInv, HandlerInv, BasicInv
  <2>2. Earlies \in Nat /\ PreSends \in Nat /\ PreCounts \in Nat /\ Actives \in Nat
    BY CountsNat
  <2>3. gen \in [VmIds -> 0 .. MaxCalls] /\ balance \in [VmIds -> -MaxCalls .. MaxCalls]
    BY <2>1, <2>2, CallsAssumption DEF HandlerTypes, BoundInv
  <2>4. /\ gauge \in -MaxCalls .. MaxCalls /\ stopsDone \in 0 .. MaxCalls
        /\ created \in 0 .. MaxCalls /\ calls \in 0 .. MaxCalls
        /\ requests \in [{"ok", "error"} -> 0 .. MaxCalls]
    BY <2>1, <2>2, CallsAssumption DEF HandlerTypes, BoundInv
  <2>5. ptr \in [Handlers -> 0 .. MaxCalls]
    <3>1. ASSUME NEW h \in Handlers PROVE ptr[h] \in 0 .. MaxCalls
      <4>1. CASE pc[h] = "idle"
        BY <2>1, <4>1, CallsAssumption DEF WorkInv
      <4>2. CASE pc[h] # "idle"
        <5>1. arg[h] \in VmIds /\ ptr[h] <= gen[arg[h]] /\ ptr[h] \in Nat
          BY <2>1, <4>2 DEF HandlerTypes, WorkInv, PtrInv
        <5> QED
          BY <2>3, <5>1, CallsAssumption
      <4> QED
        BY <4>1, <4>2
    <3> QED
      BY <2>1, <3>1 DEF HandlerTypes
  <2> QED
    BY <2>1, <2>3, <2>4, <2>5 DEF TypeOK, HandlerTypes
<1> QED
  BY <1>1, CountersInvariant, PTL
=============================================================================
