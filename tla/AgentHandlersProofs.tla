------------------------- MODULE AgentHandlersProofs -------------------------
(***************************************************************************)
(* Proofs about the handlers (AgentHandlers), for every finite set of ids  *)
(* and of handlers, any TAP naming and any number of requests.             *)
(***************************************************************************)
EXTENDS AgentHandlers, FiniteSetTheorems, TLAPS

(* The variables the proofs are about; counters are numbers without the    *)
(* bound that MaxCalls gives them.                                         *)
HandlerTypes ==
  /\ reg \in [VmIds -> {"absent", "running", "stopped"}]
  /\ gen \in [VmIds -> Nat]
  /\ pc \in [Handlers -> {"idle", "validate", "manager", "marking", "announce",
                          "announceError", "count", "reply"}]
  /\ op \in [Handlers -> Methods \cup {None}]
  /\ arg \in [Handlers -> VmIds \cup {None}]
  /\ ptr \in [Handlers -> Nat]
  /\ balance \in [VmIds -> Int]
  /\ last \in [VmIds -> {"none", "created", "started", "stopped", "deleted"}]
  /\ overlapped \subseteq VmIds
  /\ gauge \in Int /\ stopsDone \in Nat

(* What a handler holds at each point.                                     *)
WorkInv ==
  \A h \in Handlers :
    /\ IF pc[h] = "idle" THEN arg[h] = None /\ ptr[h] = 0
                         ELSE arg[h] \in VmIds /\ op[h] \in Methods
    /\ pc[h] = "marking" => op[h] = "stop"
    /\ pc[h] \in {"announce", "announceError", "reply"} => op[h] \in Changing
    /\ pc[h] = "count" => op[h] \in {"create", "stop", "delete"}

(* An id is worked on by one request at a time, or has been overlapped.    *)
OneBusy ==
  \A g, h \in Handlers :
    /\ arg[g] = arg[h] /\ arg[g] \in VmIds \ overlapped
    /\ op[g] \in Changing /\ op[h] \in Changing
    => g = h

BasicInv == HandlerTypes /\ WorkInv /\ OneBusy

LEMMA NextTypes == ASSUME HandlerTypes, WorkInv, [Next]_vars PROVE HandlerTypes'
<1> USE DEF HandlerTypes, WorkInv, Methods,
            Changing, managerVars, handlerVars, metricVars, eventVars
<1>1. ASSUME NEW h \in Handlers, NEW m \in Methods, NEW v \in VmIds, Receive(h, m, v)
      PROVE HandlerTypes'
  BY <1>1, NoneAssumption DEF Receive
<1>2. ASSUME NEW h \in Handlers, Validate(h) PROVE HandlerTypes'
  BY <1>2, NoneAssumption DEF Validate, Goto, Return
<1>3. ASSUME NEW h \in Handlers, ManagerCreate(h) PROVE HandlerTypes'
  BY <1>3, NoneAssumption DEF ManagerCreate, Goto, Registry!Create
<1>4. ASSUME NEW h \in Handlers, ManagerStart(h) PROVE HandlerTypes'
  BY <1>4, NoneAssumption DEF ManagerStart, Goto
<1>5. ASSUME NEW h \in Handlers, ManagerStop(h) PROVE HandlerTypes'
  BY <1>5, NoneAssumption DEF ManagerStop, Goto
<1>6. ASSUME NEW h \in Handlers, ManagerMark(h) PROVE HandlerTypes'
  BY <1>6, NoneAssumption DEF ManagerMark, Goto, Registry!Stop
<1>7. ASSUME NEW h \in Handlers, ManagerDelete(h) PROVE HandlerTypes'
  BY <1>7, NoneAssumption DEF ManagerDelete, Goto, Registry!Delete
<1>8. ASSUME NEW h \in Handlers, ReadOne(h) PROVE HandlerTypes'
  BY <1>8, NoneAssumption DEF ReadOne, Return
<1>9. ASSUME NEW h \in Handlers, ReadAll(h) PROVE HandlerTypes'
  BY <1>9, NoneAssumption DEF ReadAll, Return
<1>10. ASSUME NEW h \in Handlers, Announce(h) PROVE HandlerTypes'
  BY <1>10, NoneAssumption DEF Announce, Goto, EventOf, BalanceOf
<1>11. ASSUME NEW h \in Handlers, AnnounceError(h) PROVE HandlerTypes'
  BY <1>11, NoneAssumption DEF AnnounceError, Goto
<1>12. ASSUME NEW h \in Handlers, Count(h) PROVE HandlerTypes'
  BY <1>12, NoneAssumption DEF Count, Goto
<1>13. ASSUME NEW h \in Handlers, Reply(h) PROVE HandlerTypes'
  BY <1>13, NoneAssumption DEF Reply, Return
<1>14. ASSUME NEW v \in VmIds, ProcessEnds(v) PROVE HandlerTypes'
  BY <1>14 DEF ProcessEnds, Registry!Stop
<1>15. CASE UNCHANGED vars
  BY <1>15 DEF vars
<1> QED
  BY <1>1, <1>2, <1>3, <1>4, <1>5, <1>6, <1>7, <1>8, <1>9, <1>10, <1>11, <1>12, <1>13,
     <1>14, <1>15 DEF Next, Step

LEMMA NextWork == ASSUME HandlerTypes, WorkInv, [Next]_vars PROVE WorkInv'
<1> USE DEF HandlerTypes, WorkInv, Methods,
            Changing, managerVars, handlerVars, metricVars, eventVars
<1>1. ASSUME NEW h \in Handlers, NEW m \in Methods, NEW v \in VmIds, Receive(h, m, v)
      PROVE WorkInv'
  BY <1>1, NoneAssumption DEF Receive
<1>2. ASSUME NEW h \in Handlers, Validate(h) PROVE WorkInv'
  BY <1>2, NoneAssumption DEF Validate, Goto, Return
<1>3. ASSUME NEW h \in Handlers, ManagerCreate(h) PROVE WorkInv'
  BY <1>3, NoneAssumption DEF ManagerCreate, Goto, Registry!Create
<1>4. ASSUME NEW h \in Handlers, ManagerStart(h) PROVE WorkInv'
  BY <1>4, NoneAssumption DEF ManagerStart, Goto
<1>5. ASSUME NEW h \in Handlers, ManagerStop(h) PROVE WorkInv'
  BY <1>5, NoneAssumption DEF ManagerStop, Goto
<1>6. ASSUME NEW h \in Handlers, ManagerMark(h) PROVE WorkInv'
  BY <1>6, NoneAssumption DEF ManagerMark, Goto, Registry!Stop
<1>7. ASSUME NEW h \in Handlers, ManagerDelete(h) PROVE WorkInv'
  BY <1>7, NoneAssumption DEF ManagerDelete, Goto, Registry!Delete
<1>8. ASSUME NEW h \in Handlers, ReadOne(h) PROVE WorkInv'
  BY <1>8, NoneAssumption DEF ReadOne, Return
<1>9. ASSUME NEW h \in Handlers, ReadAll(h) PROVE WorkInv'
  BY <1>9, NoneAssumption DEF ReadAll, Return
<1>10. ASSUME NEW h \in Handlers, Announce(h) PROVE WorkInv'
  BY <1>10, NoneAssumption DEF Announce, Goto, EventOf, BalanceOf
<1>11. ASSUME NEW h \in Handlers, AnnounceError(h) PROVE WorkInv'
  BY <1>11, NoneAssumption DEF AnnounceError, Goto
<1>12. ASSUME NEW h \in Handlers, Count(h) PROVE WorkInv'
  BY <1>12, NoneAssumption DEF Count, Goto
<1>13. ASSUME NEW h \in Handlers, Reply(h) PROVE WorkInv'
  BY <1>13, NoneAssumption DEF Reply, Return
<1>14. ASSUME NEW v \in VmIds, ProcessEnds(v) PROVE WorkInv'
  BY <1>14 DEF ProcessEnds, Registry!Stop
<1>15. CASE UNCHANGED vars
  BY <1>15 DEF vars
<1> QED
  BY <1>1, <1>2, <1>3, <1>4, <1>5, <1>6, <1>7, <1>8, <1>9, <1>10, <1>11, <1>12, <1>13,
     <1>14, <1>15 DEF Next, Step

LEMMA NextOneBusy == ASSUME BasicInv, [Next]_vars PROVE OneBusy'
<1> USE DEF BasicInv, HandlerTypes, WorkInv, OneBusy, Methods, Changing, BusyOn,
            managerVars, handlerVars, metricVars, eventVars
<1>1. ASSUME NEW h \in Handlers, NEW m \in Methods, NEW v \in VmIds, Receive(h, m, v)
      PROVE OneBusy'
  BY <1>1, NoneAssumption DEF Receive
<1>2. ASSUME NEW h \in Handlers, Validate(h) PROVE OneBusy'
  BY <1>2, NoneAssumption DEF Validate, Goto, Return
<1>3. ASSUME NEW h \in Handlers, ManagerCreate(h) PROVE OneBusy'
  BY <1>3, NoneAssumption DEF ManagerCreate, Goto, Registry!Create
<1>4. ASSUME NEW h \in Handlers, ManagerStart(h) PROVE OneBusy'
  BY <1>4, NoneAssumption DEF ManagerStart, Goto
<1>5. ASSUME NEW h \in Handlers, ManagerStop(h) PROVE OneBusy'
  BY <1>5, NoneAssumption DEF ManagerStop, Goto
<1>6. ASSUME NEW h \in Handlers, ManagerMark(h) PROVE OneBusy'
  BY <1>6, NoneAssumption DEF ManagerMark, Goto, Registry!Stop
<1>7. ASSUME NEW h \in Handlers, ManagerDelete(h) PROVE OneBusy'
  BY <1>7, NoneAssumption DEF ManagerDelete, Goto, Registry!Delete
<1>8. ASSUME NEW h \in Handlers, ReadOne(h) PROVE OneBusy'
  BY <1>8, NoneAssumption DEF ReadOne, Return
<1>9. ASSUME NEW h \in Handlers, ReadAll(h) PROVE OneBusy'
  BY <1>9, NoneAssumption DEF ReadAll, Return
<1>10. ASSUME NEW h \in Handlers, Announce(h) PROVE OneBusy'
  BY <1>10, NoneAssumption DEF Announce, Goto, EventOf, BalanceOf
<1>11. ASSUME NEW h \in Handlers, AnnounceError(h) PROVE OneBusy'
  BY <1>11, NoneAssumption DEF AnnounceError, Goto
<1>12. ASSUME NEW h \in Handlers, Count(h) PROVE OneBusy'
  BY <1>12, NoneAssumption DEF Count, Goto
<1>13. ASSUME NEW h \in Handlers, Reply(h) PROVE OneBusy'
  BY <1>13, NoneAssumption DEF Reply, Return
<1>14. ASSUME NEW v \in VmIds, ProcessEnds(v) PROVE OneBusy'
  BY <1>14 DEF ProcessEnds, Registry!Stop
<1>15. CASE UNCHANGED vars
  BY <1>15 DEF vars
<1> QED
  BY <1>1, <1>2, <1>3, <1>4, <1>5, <1>6, <1>7, <1>8, <1>9, <1>10, <1>11, <1>12, <1>13,
     <1>14, <1>15 DEF Next, Step

(* The last event tells the state of an id, unless the one request that is *)
(* working on it is about to send the next; which will tell it.            *)
Tells(v) ==
  /\ Present(v) <=> last[v] \in {"created", "started", "stopped"}
  /\ last[v] = "stopped" => reg[v] = "stopped"

Working(h, v) == arg[h] = v /\ op[h] \in Changing

TellInv ==
  \A v \in VmIds \ overlapped :
    /\ (\A h \in Handlers : Working(h, v) => pc[h] # "announce") => Tells(v)
    /\ \A h \in Handlers : Working(h, v) =>
         /\ pc[h] = "marking" => Present(v) /\ gen[v] = ptr[h]
         /\ pc[h] = "announce" =>
              /\ op[h] \in {"create", "start"} => Present(v)
              /\ op[h] = "stop" => reg[v] = "stopped"
              /\ op[h] = "delete" => ~Present(v)

LEMMA NextTell == ASSUME BasicInv, TellInv, [Next]_vars PROVE TellInv'
<1> USE DEF BasicInv, HandlerTypes, WorkInv, OneBusy, TellInv, Working, Tells, Present,
            Methods, Changing, BusyOn, managerVars, handlerVars, metricVars, eventVars
<1>1. ASSUME NEW h \in Handlers, NEW m \in Methods, NEW v \in VmIds, Receive(h, m, v)
      PROVE TellInv'
  BY <1>1, NoneAssumption DEF Receive
<1>2. ASSUME NEW h \in Handlers, Validate(h) PROVE TellInv'
  BY <1>2, NoneAssumption DEF Validate, Goto, Return
<1>3. ASSUME NEW h \in Handlers, ManagerCreate(h) PROVE TellInv'
  BY <1>3, NoneAssumption DEF ManagerCreate, Goto, Registry!Create
<1>4. ASSUME NEW h \in Handlers, ManagerStart(h) PROVE TellInv'
  BY <1>4, NoneAssumption DEF ManagerStart, Goto
<1>5. ASSUME NEW h \in Handlers, ManagerStop(h) PROVE TellInv'
  BY <1>5, NoneAssumption DEF ManagerStop, Goto
<1>6. ASSUME NEW h \in Handlers, ManagerMark(h) PROVE TellInv'
  BY <1>6, NoneAssumption DEF ManagerMark, Goto, Registry!Stop
<1>7. ASSUME NEW h \in Handlers, ManagerDelete(h) PROVE TellInv'
  BY <1>7, NoneAssumption DEF ManagerDelete, Goto, Registry!Delete
<1>8. ASSUME NEW h \in Handlers, ReadOne(h) PROVE TellInv'
  BY <1>8, NoneAssumption DEF ReadOne, Return
<1>9. ASSUME NEW h \in Handlers, ReadAll(h) PROVE TellInv'
  BY <1>9, NoneAssumption DEF ReadAll, Return
<1>10. ASSUME NEW h \in Handlers, Announce(h) PROVE TellInv'
  BY <1>10, NoneAssumption DEF Announce, Goto, EventOf, BalanceOf
<1>11. ASSUME NEW h \in Handlers, AnnounceError(h) PROVE TellInv'
  BY <1>11, NoneAssumption DEF AnnounceError, Goto
<1>12. ASSUME NEW h \in Handlers, Count(h) PROVE TellInv'
  BY <1>12, NoneAssumption DEF Count, Goto
<1>13. ASSUME NEW h \in Handlers, Reply(h) PROVE TellInv'
  BY <1>13, NoneAssumption DEF Reply, Return
<1>14. ASSUME NEW v \in VmIds, ProcessEnds(v) PROVE TellInv'
  BY <1>14 DEF ProcessEnds, Registry!Stop
<1>15. CASE UNCHANGED vars
  BY <1>15 DEF vars
<1> QED
  BY <1>1, <1>2, <1>3, <1>4, <1>5, <1>6, <1>7, <1>8, <1>9, <1>10, <1>11, <1>12, <1>13,
     <1>14, <1>15 DEF Next, Step

(* A handler holds a VM that was made.                                     *)
PtrInv == \A h \in Handlers : pc[h] # "idle" => ptr[h] <= gen[arg[h]]

LEMMA NextPtr == ASSUME BasicInv, PtrInv, [Next]_vars PROVE PtrInv'
<1> USE DEF BasicInv, HandlerTypes, WorkInv, OneBusy, PtrInv, Methods, Changing,
            BusyOn, managerVars, handlerVars, metricVars, eventVars
<1>1. ASSUME NEW h \in Handlers, NEW m \in Methods, NEW v \in VmIds, Receive(h, m, v)
      PROVE PtrInv'
  BY <1>1, NoneAssumption DEF Receive
<1>2. ASSUME NEW h \in Handlers, Validate(h) PROVE PtrInv'
  BY <1>2, NoneAssumption DEF Validate, Goto, Return
<1>3. ASSUME NEW h \in Handlers, ManagerCreate(h) PROVE PtrInv'
  BY <1>3, NoneAssumption DEF ManagerCreate, Goto, Registry!Create
<1>4. ASSUME NEW h \in Handlers, ManagerStart(h) PROVE PtrInv'
  BY <1>4, NoneAssumption DEF ManagerStart, Goto
<1>5. ASSUME NEW h \in Handlers, ManagerStop(h) PROVE PtrInv'
  BY <1>5, NoneAssumption DEF ManagerStop, Goto
<1>6. ASSUME NEW h \in Handlers, ManagerMark(h) PROVE PtrInv'
  BY <1>6, NoneAssumption DEF ManagerMark, Goto, Registry!Stop
<1>7. ASSUME NEW h \in Handlers, ManagerDelete(h) PROVE PtrInv'
  BY <1>7, NoneAssumption DEF ManagerDelete, Goto, Registry!Delete
<1>8. ASSUME NEW h \in Handlers, ReadOne(h) PROVE PtrInv'
  BY <1>8, NoneAssumption DEF ReadOne, Return
<1>9. ASSUME NEW h \in Handlers, ReadAll(h) PROVE PtrInv'
  BY <1>9, NoneAssumption DEF ReadAll, Return
<1>10. ASSUME NEW h \in Handlers, Announce(h) PROVE PtrInv'
  BY <1>10, NoneAssumption DEF Announce, Goto, EventOf, BalanceOf
<1>11. ASSUME NEW h \in Handlers, AnnounceError(h) PROVE PtrInv'
  BY <1>11, NoneAssumption DEF AnnounceError, Goto
<1>12. ASSUME NEW h \in Handlers, Count(h) PROVE PtrInv'
  BY <1>12, NoneAssumption DEF Count, Goto
<1>13. ASSUME NEW h \in Handlers, Reply(h) PROVE PtrInv'
  BY <1>13, NoneAssumption DEF Reply, Return
<1>14. ASSUME NEW v \in VmIds, ProcessEnds(v) PROVE PtrInv'
  BY <1>14 DEF ProcessEnds, Registry!Stop
<1>15. CASE UNCHANGED vars
  BY <1>15 DEF vars
<1> QED
  BY <1>1, <1>2, <1>3, <1>4, <1>5, <1>6, <1>7, <1>8, <1>9, <1>10, <1>11, <1>12, <1>13,
     <1>14, <1>15 DEF Next, Step

----------------------------------------------------------------------------
(* Counting.                                                               *)
LEMMA CardAdd ==
  ASSUME NEW S, IsFiniteSet(S), NEW x, x \notin S
  PROVE  /\ Cardinality(S) \in Nat
         /\ Cardinality(S \cup {x}) = Cardinality(S) + 1
  BY FS_AddElement, FS_CardinalityType

LEMMA CardDrop ==
  ASSUME NEW S, IsFiniteSet(S), NEW x \in S
  PROVE  /\ Cardinality(S) \in Nat
         /\ Cardinality(S \ {x}) = Cardinality(S) - 1
  BY FS_RemoveElement, FS_CardinalityType

LEMMA OwingFinite ==
  /\ \A o, l : IsFiniteSet(Owing(o, l))
  /\ \A v, o : IsFiniteSet(OwingOn(v, o))
  /\ IsFiniteSet({v \in VmIds : Present(v)})
  BY FS_Subset, FiniteAssumption DEF Owing, OwingOn

(* A step that changes neither what is owed nor which VMs are there.       *)
LEMMA BalanceKept ==
  ASSUME EventsBalance, UNCHANGED balance,
         \A v \in VmIds : /\ Present(v)' = Present(v)
                          /\ OwingOn(v, "create")' = OwingOn(v, "create")
                          /\ OwingOn(v, "delete")' = OwingOn(v, "delete")
  PROVE  EventsBalance'
  BY DEF EventsBalance

LEMMA NextBalance == ASSUME BasicInv, EventsBalance, [Next]_vars PROVE EventsBalance'
<1> USE DEF BasicInv, HandlerTypes, WorkInv, Present, Owing, OwingOn, Methods,
            Changing, managerVars, handlerVars, metricVars, eventVars
<1>1. ASSUME NEW h \in Handlers, NEW m \in Methods, NEW v \in VmIds, Receive(h, m, v)
      PROVE EventsBalance'
  BY <1>1, BalanceKept DEF Receive
<1>2. ASSUME NEW h \in Handlers, Validate(h) PROVE EventsBalance'
  BY <1>2, BalanceKept DEF Validate, Goto, Return
<1>3. ASSUME NEW h \in Handlers, ManagerCreate(h) PROVE EventsBalance'
  <2>1. CASE pc'[h] = "announceError"
    BY <1>3, <2>1, BalanceKept DEF ManagerCreate, Goto
  <2>2. CASE pc'[h] = "announce"
    <3>1. SUFFICES ASSUME NEW v \in VmIds
                   PROVE  balance'[v] + Cardinality(OwingOn(v, "create")')
                            - Cardinality(OwingOn(v, "delete")') = IF Present(v)' THEN 1 ELSE 0
      BY Zenon DEF EventsBalance
    <3>2. OwingOn(v, "delete")' = OwingOn(v, "delete") /\ balance' = balance
      BY <1>3, <2>2 DEF ManagerCreate, Goto
    <3>3. CASE v = arg[h]
      <4>1. OwingOn(v, "create")' = OwingOn(v, "create") \cup {h} /\ h \notin OwingOn(v, "create")
        BY <1>3, <2>2, <3>3 DEF ManagerCreate, Goto
      <4>2. ~Present(v) /\ Present(v)'
        BY <1>3, <2>2, <3>3 DEF ManagerCreate, Registry!Create, Goto
      <4> HIDE DEF OwingOn, Present
      <4>5. /\ Cardinality(OwingOn(v, "create")) \in Nat
           /\ Cardinality(OwingOn(v, "create")') = Cardinality(OwingOn(v, "create")) + 1
        BY <4>1, OwingFinite, CardAdd
      <4>6. Cardinality(OwingOn(v, "delete")) \in Nat
        BY OwingFinite, FS_CardinalityType
      <4> QED
        BY <3>2, <4>2, <4>1, <4>5, <4>6 DEF EventsBalance
    <3>4. CASE v # arg[h]
      <4>1. OwingOn(v, "create")' = OwingOn(v, "create") /\ Present(v)' = Present(v)
        BY <1>3, <2>2, <3>4 DEF ManagerCreate, Registry!Create, Goto
      <4> HIDE DEF OwingOn, Present
      <4> QED
        BY <3>2, <4>1 DEF EventsBalance
    <3> QED
      BY <3>3, <3>4
  <2> QED
    BY <1>3, <2>1, <2>2 DEF ManagerCreate, Goto
<1>4. ASSUME NEW h \in Handlers, ManagerStart(h) PROVE EventsBalance'
  BY <1>4, BalanceKept DEF ManagerStart, Goto
<1>5. ASSUME NEW h \in Handlers, ManagerStop(h) PROVE EventsBalance'
  BY <1>5, BalanceKept DEF ManagerStop, Goto
<1>6. ASSUME NEW h \in Handlers, ManagerMark(h) PROVE EventsBalance'
  BY <1>6, BalanceKept DEF ManagerMark, Goto, Registry!Stop
<1>7. ASSUME NEW h \in Handlers, ManagerDelete(h) PROVE EventsBalance'
  <2>1. CASE pc'[h] = "reply"
    BY <1>7, <2>1, BalanceKept DEF ManagerDelete, Goto
  <2>2. CASE pc'[h] = "announce"
    <3>1. SUFFICES ASSUME NEW v \in VmIds
                   PROVE  balance'[v] + Cardinality(OwingOn(v, "create")')
                            - Cardinality(OwingOn(v, "delete")') = IF Present(v)' THEN 1 ELSE 0
      BY Zenon DEF EventsBalance
    <3>2. OwingOn(v, "create")' = OwingOn(v, "create") /\ balance' = balance
      BY <1>7, <2>2 DEF ManagerDelete, Goto
    <3>3. CASE v = arg[h]
      <4>1. OwingOn(v, "delete")' = OwingOn(v, "delete") \cup {h} /\ h \notin OwingOn(v, "delete")
        BY <1>7, <2>2, <3>3 DEF ManagerDelete, Goto
      <4>2. Present(v) /\ ~Present(v)'
        BY <1>7, <2>2, <3>3 DEF ManagerDelete, Registry!Delete, Goto
      <4> HIDE DEF OwingOn, Present
      <4>5. /\ Cardinality(OwingOn(v, "delete")) \in Nat
           /\ Cardinality(OwingOn(v, "delete")') = Cardinality(OwingOn(v, "delete")) + 1
        BY <4>1, OwingFinite, CardAdd
      <4>6. Cardinality(OwingOn(v, "create")) \in Nat
        BY OwingFinite, FS_CardinalityType
      <4> QED
        BY <3>2, <4>2, <4>1, <4>5, <4>6 DEF EventsBalance
    <3>4. CASE v # arg[h]
      <4>1. OwingOn(v, "delete")' = OwingOn(v, "delete") /\ Present(v)' = Present(v)
        BY <1>7, <2>2, <3>4 DEF ManagerDelete, Registry!Delete, Goto
      <4> HIDE DEF OwingOn, Present
      <4> QED
        BY <3>2, <4>1 DEF EventsBalance
    <3> QED
      BY <3>3, <3>4
  <2> QED
    BY <1>7, <2>1, <2>2 DEF ManagerDelete, Goto
<1>8. ASSUME NEW h \in Handlers, ReadOne(h) PROVE EventsBalance'
  BY <1>8, BalanceKept DEF ReadOne, Return
<1>9. ASSUME NEW h \in Handlers, ReadAll(h) PROVE EventsBalance'
  BY <1>9, BalanceKept DEF ReadAll, Return
<1>10. ASSUME NEW h \in Handlers, Announce(h) PROVE EventsBalance'
  <2>1. SUFFICES ASSUME NEW v \in VmIds
                 PROVE  balance'[v] + Cardinality(OwingOn(v, "create")')
                          - Cardinality(OwingOn(v, "delete")') = IF Present(v) THEN 1 ELSE 0
    BY <1>10, Zenon DEF EventsBalance, Announce
  <2>2. CASE v = arg[h] /\ op[h] = "create"
    <3>1. /\ OwingOn(v, "create")' = OwingOn(v, "create") \ {h} /\ h \in OwingOn(v, "create")
          /\ OwingOn(v, "delete")' = OwingOn(v, "delete")
          /\ balance'[v] = balance[v] + 1
      BY <1>10, <2>2 DEF Announce, Goto, BalanceOf
    <3> HIDE DEF OwingOn, Present
    <3>5. /\ Cardinality(OwingOn(v, "create")) \in Nat
         /\ Cardinality(OwingOn(v, "create")') = Cardinality(OwingOn(v, "create")) - 1
      BY <3>1, OwingFinite, CardDrop
    <3>6. Cardinality(OwingOn(v, "delete")) \in Nat
      BY OwingFinite, FS_CardinalityType
    <3> QED
      BY <3>1, <3>5, <3>6 DEF EventsBalance
  <2>3. CASE v = arg[h] /\ op[h] = "delete"
    <3>1. /\ OwingOn(v, "delete")' = OwingOn(v, "delete") \ {h} /\ h \in OwingOn(v, "delete")
          /\ OwingOn(v, "create")' = OwingOn(v, "create")
          /\ balance'[v] = balance[v] - 1
      BY <1>10, <2>3 DEF Announce, Goto, BalanceOf
    <3> HIDE DEF OwingOn, Present
    <3>5. /\ Cardinality(OwingOn(v, "delete")) \in Nat
         /\ Cardinality(OwingOn(v, "delete")') = Cardinality(OwingOn(v, "delete")) - 1
      BY <3>1, OwingFinite, CardDrop
    <3>6. Cardinality(OwingOn(v, "create")) \in Nat
      BY OwingFinite, FS_CardinalityType
    <3> QED
      BY <3>1, <3>5, <3>6 DEF EventsBalance
  <2>4. CASE v # arg[h] \/ op[h] \in {"start", "stop"}
    <3>1. /\ OwingOn(v, "create")' = OwingOn(v, "create")
          /\ OwingOn(v, "delete")' = OwingOn(v, "delete")
          /\ balance'[v] = balance[v]
      BY <1>10, <2>4 DEF Announce, Goto, BalanceOf
    <3> HIDE DEF OwingOn, Present
    <3> QED
      BY <3>1 DEF EventsBalance
  <2> QED
    BY <1>10, <2>2, <2>3, <2>4 DEF Announce
<1>11. ASSUME NEW h \in Handlers, AnnounceError(h) PROVE EventsBalance'
  BY <1>11, BalanceKept DEF AnnounceError, Goto
<1>12. ASSUME NEW h \in Handlers, Count(h) PROVE EventsBalance'
  BY <1>12, BalanceKept DEF Count, Goto
<1>13. ASSUME NEW h \in Handlers, Reply(h) PROVE EventsBalance'
  BY <1>13, BalanceKept DEF Reply, Return
<1>14. ASSUME NEW v \in VmIds, ProcessEnds(v) PROVE EventsBalance'
  BY <1>14, BalanceKept DEF ProcessEnds, Registry!Stop
<1>15. CASE UNCHANGED vars
  BY <1>15, BalanceKept DEF vars
<1> QED
  BY <1>1, <1>2, <1>3, <1>4, <1>5, <1>6, <1>7, <1>8, <1>9, <1>10, <1>11, <1>12, <1>13,
     <1>14, <1>15 DEF Next, Step

(* The gauge, likewise.                                                    *)
Owed(o) == Owing(o, {"announce", "count"})
Alive == {v \in VmIds : Present(v)}

GaugeInv ==
  gauge + stopsDone + Cardinality(Owed("create")) - Cardinality(Owed("delete"))
    = Cardinality(Alive)

LEMMA OwedFinite == (\A o : IsFiniteSet(Owed(o))) /\ IsFiniteSet(Alive)
  BY OwingFinite DEF Owed, Alive

LEMMA GaugeKept ==
  ASSUME GaugeInv, UNCHANGED <<gauge, stopsDone>>, Alive' = Alive,
         Owed("create")' = Owed("create"), Owed("delete")' = Owed("delete")
  PROVE  GaugeInv'
  BY DEF GaugeInv

LEMMA NextGauge == ASSUME BasicInv, GaugeInv, [Next]_vars PROVE GaugeInv'
<1> USE DEF BasicInv, HandlerTypes, WorkInv, Present, Owing, Owed, Alive, Methods, Changing,
            managerVars, handlerVars, metricVars, eventVars
<1>1. ASSUME NEW h \in Handlers, NEW m \in Methods, NEW v \in VmIds, Receive(h, m, v)
      PROVE GaugeInv'
  BY <1>1, GaugeKept DEF Receive
<1>2. ASSUME NEW h \in Handlers, Validate(h) PROVE GaugeInv'
  BY <1>2, GaugeKept DEF Validate, Goto, Return
<1>3. ASSUME NEW h \in Handlers, ManagerCreate(h) PROVE GaugeInv'
  <2>1. CASE pc'[h] = "announceError"
    BY <1>3, <2>1, GaugeKept DEF ManagerCreate, Goto
  <2>2. CASE pc'[h] = "announce"
    <3>1. /\ Owed("create")' = Owed("create") \cup {h} /\ h \notin Owed("create")
          /\ Owed("delete")' = Owed("delete")
      BY <1>3, <2>2 DEF ManagerCreate, Goto
    <3>2. Alive' = Alive \cup {arg[h]} /\ arg[h] \notin Alive
      BY <1>3, <2>2 DEF ManagerCreate, Registry!Create, Goto
    <3>3. gauge' = gauge /\ stopsDone' = stopsDone
      BY <1>3 DEF ManagerCreate
    <3> HIDE DEF Owed, Alive
    <3>4. /\ Cardinality(Owed("create")) \in Nat
          /\ Cardinality(Owed("create")') = Cardinality(Owed("create")) + 1
      BY <3>1, OwedFinite, CardAdd
    <3>5. /\ Cardinality(Alive) \in Nat
          /\ Cardinality(Alive') = Cardinality(Alive) + 1
      BY <3>2, OwedFinite, CardAdd
    <3>6. Cardinality(Owed("delete")) \in Nat
      BY OwedFinite, FS_CardinalityType
    <3> QED
      BY <3>1, <3>3, <3>4, <3>5, <3>6 DEF GaugeInv
  <2> QED
    BY <1>3, <2>1, <2>2 DEF ManagerCreate, Goto
<1>4. ASSUME NEW h \in Handlers, ManagerStart(h) PROVE GaugeInv'
  BY <1>4, GaugeKept DEF ManagerStart, Goto
<1>5. ASSUME NEW h \in Handlers, ManagerStop(h) PROVE GaugeInv'
  BY <1>5, GaugeKept DEF ManagerStop, Goto
<1>6. ASSUME NEW h \in Handlers, ManagerMark(h) PROVE GaugeInv'
  BY <1>6, GaugeKept DEF ManagerMark, Goto, Registry!Stop
<1>7. ASSUME NEW h \in Handlers, ManagerDelete(h) PROVE GaugeInv'
  <2>1. CASE pc'[h] = "reply"
    BY <1>7, <2>1, GaugeKept DEF ManagerDelete, Goto
  <2>2. CASE pc'[h] = "announce"
    <3>1. /\ Owed("delete")' = Owed("delete") \cup {h} /\ h \notin Owed("delete")
          /\ Owed("create")' = Owed("create")
      BY <1>7, <2>2 DEF ManagerDelete, Goto
    <3>2. Alive' = Alive \ {arg[h]} /\ arg[h] \in Alive
      BY <1>7, <2>2 DEF ManagerDelete, Registry!Delete, Goto
    <3>3. gauge' = gauge /\ stopsDone' = stopsDone
      BY <1>7 DEF ManagerDelete
    <3> HIDE DEF Owed, Alive
    <3>4. /\ Cardinality(Owed("delete")) \in Nat
          /\ Cardinality(Owed("delete")') = Cardinality(Owed("delete")) + 1
      BY <3>1, OwedFinite, CardAdd
    <3>5. /\ Cardinality(Alive) \in Nat
          /\ Cardinality(Alive') = Cardinality(Alive) - 1
      BY <3>2, OwedFinite, CardDrop
    <3>6. Cardinality(Owed("create")) \in Nat
      BY OwedFinite, FS_CardinalityType
    <3> QED
      BY <3>1, <3>3, <3>4, <3>5, <3>6 DEF GaugeInv
  <2> QED
    BY <1>7, <2>1, <2>2 DEF ManagerDelete, Goto
<1>8. ASSUME NEW h \in Handlers, ReadOne(h) PROVE GaugeInv'
  BY <1>8, GaugeKept DEF ReadOne, Return
<1>9. ASSUME NEW h \in Handlers, ReadAll(h) PROVE GaugeInv'
  BY <1>9, GaugeKept DEF ReadAll, Return
<1>10. ASSUME NEW h \in Handlers, Announce(h) PROVE GaugeInv'
  BY <1>10, GaugeKept DEF Announce, Goto
<1>11. ASSUME NEW h \in Handlers, AnnounceError(h) PROVE GaugeInv'
  BY <1>11, GaugeKept DEF AnnounceError, Goto
<1>12. ASSUME NEW h \in Handlers, Count(h) PROVE GaugeInv'
  <2>1. CASE op[h] = "create"
    <3>1. /\ Owed("create")' = Owed("create") \ {h} /\ h \in Owed("create")
          /\ Owed("delete")' = Owed("delete")
      BY <1>12, <2>1 DEF Count, Goto
    <3>2. Alive' = Alive /\ gauge' = gauge + 1 /\ stopsDone' = stopsDone
      BY <1>12, <2>1 DEF Count
    <3> HIDE DEF Owed, Alive
    <3>3. /\ Cardinality(Owed("create")) \in Nat
          /\ Cardinality(Owed("create")') = Cardinality(Owed("create")) - 1
      BY <3>1, OwedFinite, CardDrop
    <3>4. Cardinality(Owed("delete")) \in Nat /\ Cardinality(Alive) \in Nat
      BY OwedFinite, FS_CardinalityType
    <3> QED
      BY <3>1, <3>2, <3>3, <3>4 DEF GaugeInv
  <2>2. CASE op[h] = "delete"
    <3>1. /\ Owed("delete")' = Owed("delete") \ {h} /\ h \in Owed("delete")
          /\ Owed("create")' = Owed("create")
      BY <1>12, <2>2 DEF Count, Goto
    <3>2. Alive' = Alive /\ gauge' = gauge - 1 /\ stopsDone' = stopsDone
      BY <1>12, <2>2 DEF Count
    <3> HIDE DEF Owed, Alive
    <3>3. /\ Cardinality(Owed("delete")) \in Nat
          /\ Cardinality(Owed("delete")') = Cardinality(Owed("delete")) - 1
      BY <3>1, OwedFinite, CardDrop
    <3>4. Cardinality(Owed("create")) \in Nat /\ Cardinality(Alive) \in Nat
      BY OwedFinite, FS_CardinalityType
    <3> QED
      BY <3>1, <3>2, <3>3, <3>4 DEF GaugeInv
  <2>3. CASE op[h] = "stop"
    <3>1. /\ Owed("create")' = Owed("create") /\ Owed("delete")' = Owed("delete")
          /\ Alive' = Alive /\ gauge' = gauge - 1 /\ stopsDone' = stopsDone + 1
      BY <1>12, <2>3 DEF Count, Goto
    <3> HIDE DEF Owed, Alive
    <3>2. /\ Cardinality(Owed("create")) \in Nat /\ Cardinality(Owed("delete")) \in Nat
          /\ Cardinality(Alive) \in Nat
      BY OwedFinite, FS_CardinalityType
    <3> QED
      BY <3>1, <3>2 DEF GaugeInv
  <2> QED
    BY <1>12, <2>1, <2>2, <2>3 DEF Count
<1>13. ASSUME NEW h \in Handlers, Reply(h) PROVE GaugeInv'
  BY <1>13, GaugeKept DEF Reply, Return
<1>14. ASSUME NEW v \in VmIds, ProcessEnds(v) PROVE GaugeInv'
  BY <1>14, GaugeKept DEF ProcessEnds, Registry!Stop
<1>15. CASE UNCHANGED vars
  BY <1>15, GaugeKept DEF vars
<1> QED
  BY <1>1, <1>2, <1>3, <1>4, <1>5, <1>6, <1>7, <1>8, <1>9, <1>10, <1>11, <1>12, <1>13,
     <1>14, <1>15 DEF Next, Step

----------------------------------------------------------------------------
HandlerInv == BasicInv /\ TellInv /\ PtrInv /\ EventsBalance /\ GaugeInv

LEMMA InitHandlers == ASSUME Init PROVE HandlerInv
<1>1. BasicInv
  <2>1. HandlerTypes
    BY DEF Init, HandlerTypes, Registry!RegInit
  <2>2. WorkInv
    BY DEF Init, WorkInv
  <2>3. OneBusy
    BY NoneAssumption DEF Init, OneBusy
  <2> QED
    BY <2>1, <2>2, <2>3 DEF BasicInv
<1>2. TellInv
  BY NoneAssumption DEF Init, TellInv, Tells, Working, Present, Registry!RegInit
<1>3. PtrInv
  BY DEF Init, PtrInv
<1>4. /\ \A o, l : "idle" \notin l => Owing(o, l) = {}
      /\ \A v, o : OwingOn(v, o) = {}
      /\ Alive = {}
  BY DEF Init, Owing, OwingOn, Alive, Present, Registry!RegInit
<1>5. EventsBalance
  BY <1>4, FS_EmptySet DEF Init, EventsBalance, Present, Registry!RegInit
<1>6. GaugeInv
  <2>1. Owed("create") = {} /\ Owed("delete") = {} /\ Alive = {}
    BY <1>4 DEF Owed
  <2> QED
    BY <2>1, FS_EmptySet DEF Init, GaugeInv
<1> QED
  BY <1>1, <1>2, <1>3, <1>5, <1>6 DEF HandlerInv

(* What holds at every step of every request: at most one request works on *)
(* an id that was never overlapped, what each has done so far, what the    *)
(* events and the gauge still lack.                                        *)
THEOREM HandlersInvariant == Spec => []HandlerInv
<1>1. Init => HandlerInv
  BY InitHandlers
<1>2. HandlerInv /\ [Next]_vars => HandlerInv'
  BY NextTypes, NextWork, NextOneBusy, NextTell, NextPtr, NextBalance, NextGauge
  DEF HandlerInv, BasicInv
<1> QED
  BY <1>1, <1>2, PTL DEF Spec

(* CREATED and DELETED events account for every VM (broadcastEvent after   *)
(* the manager's return), however requests overlap.                        *)
THEOREM EventsAccount == Spec => []EventsBalance
<1>1. HandlerInv => EventsBalance
  BY DEF HandlerInv
<1> QED
  BY <1>1, HandlersInvariant, PTL

(* The gauge of running VMs (Inc in CreateVM, Dec in StopVM and DeleteVM)  *)
(* is the number of VMs less the stops, but for what is still owed.        *)
THEOREM GaugeAccounts == Spec => []GaugeAgrees
<1>1. HandlerInv => GaugeAgrees
  BY DEF HandlerInv, GaugeInv, GaugeAgrees, Owed, Alive
<1> QED
  BY <1>1, HandlersInvariant, PTL

(* Requests for an id that never overlap leave a last event that tells the *)
(* truth about it.                                                         *)
THEOREM LastEventTrue == Spec => []LastEventTells
<1>1. HandlerInv => LastEventTells
  BY DEF HandlerInv, TellInv, Tells, Working, LastEventTells, BusyOn
<1> QED
  BY <1>1, HandlersInvariant, PTL
=============================================================================
