---------------------------- MODULE AgentHandlers ----------------------------
(***************************************************************************)
(* The gRPC handlers of the agent (src/internal/agent/handlers.go) with    *)
(* the interceptor and the metrics: each request runs in a goroutine that  *)
(* validates it, calls the VM manager, broadcasts an event, updates the    *)
(* gauge of running VMs and replies.                                       *)
(*                                                                         *)
(* The manager is VmRegistry, which FcManager implements: a call of it     *)
(* takes effect in one step.  What the handlers do after it is done        *)
(* without m.mu, so other calls come in between:                           *)
(*                                                                         *)
(*   validate -> manager [-> marking] -> announce -> count -> reply        *)
(*                                    \-> announceError ----/              *)
(*                                                                         *)
(* Events are recorded as a watcher sees them whose channel is never full  *)
(* and who subscribed at the start; EventStream has the watchers.          *)
(***************************************************************************)
EXTENDS Integers, FiniteSets

CONSTANTS VmIds, TapName, None,
          Handlers,   \* the requests that can be under way at once
          MaxCalls    \* bound on the requests of a behaviour

ASSUME NoneAssumption == None \notin VmIds
ASSUME CallsAssumption == MaxCalls \in Nat
ASSUME FiniteAssumption == IsFiniteSet(VmIds) /\ IsFiniteSet(Handlers)

VARIABLES
  reg,         \* the state GetVM and ListVMs answer for each id
  gen,         \* how many VMs have been made under each id
  pc, op, arg,
  ptr,         \* per handler: the gen of the VM that it holds a pointer to, or 0
  gauge,       \* firecracker_vms_running
  created,     \* firecracker_vms_created_total
  requests,    \* firecracker_grpc_requests_total, by status
  calls,       \* requests received
  balance,     \* CREATED less DELETED events sent, per id
  last,        \* the last event sent per id, ERROR left out
  stopsDone,   \* calls of StopVM that the gauge was decremented for
  overlapped   \* ids that two requests have ever worked on at once

managerVars == <<reg, gen>>
handlerVars == <<pc, op, arg, ptr>>
metricVars == <<gauge, created, requests, stopsDone>>
eventVars == <<balance, last>>
vars == <<managerVars, handlerVars, metricVars, eventVars, calls, overlapped>>

Registry == INSTANCE VmRegistry

Changing == {"create", "start", "stop", "delete"}
Methods == Changing \cup {"get", "list"}   \* "list": GetHostInfo, HealthCheck too

TypeOK ==
  /\ reg \in [VmIds -> {"absent", "running", "stopped"}]
  /\ gen \in [VmIds -> 0 .. MaxCalls]
  /\ pc \in [Handlers -> {"idle", "validate", "manager", "marking", "announce",
                          "announceError", "count", "reply"}]
  /\ op \in [Handlers -> Methods \cup {None}]
  /\ arg \in [Handlers -> VmIds \cup {None}]
  /\ ptr \in [Handlers -> 0 .. MaxCalls]
  /\ gauge \in -MaxCalls .. MaxCalls
  /\ created \in 0 .. MaxCalls
  /\ requests \in [{"ok", "error"} -> 0 .. MaxCalls]
  /\ calls \in 0 .. MaxCalls
  /\ balance \in [VmIds -> -MaxCalls .. MaxCalls]
  /\ last \in [VmIds -> {"none", "created", "started", "stopped", "deleted"}]
  /\ stopsDone \in 0 .. MaxCalls
  /\ overlapped \subseteq VmIds

Init ==
  /\ Registry!RegInit
  /\ gen = [v \in VmIds |-> 0]
  /\ pc = [h \in Handlers |-> "idle"]
  /\ op = [h \in Handlers |-> None]
  /\ arg = [h \in Handlers |-> None]
  /\ ptr = [h \in Handlers |-> 0]
  /\ gauge = 0
  /\ created = 0
  /\ requests = [s \in {"ok", "error"} |-> 0]
  /\ calls = 0
  /\ balance = [v \in VmIds |-> 0]
  /\ last = [v \in VmIds |-> "none"]
  /\ stopsDone = 0
  /\ overlapped = {}

----------------------------------------------------------------------------
Goto(h, label) ==
  /\ pc' = [pc EXCEPT ![h] = label]
  /\ UNCHANGED <<op, arg, ptr>>

(* Deviation: the handler counts an error as well.                         *)
ReturnCountsErrorTwice(h, status) ==
  /\ requests' = [requests EXCEPT ![status] = @ + (IF status = "error" THEN 2 ELSE 1)]
  /\ pc' = [pc EXCEPT ![h] = "idle"]
  /\ op' = [op EXCEPT ![h] = None]
  /\ arg' = [arg EXCEPT ![h] = None]
  /\ ptr' = [ptr EXCEPT ![h] = 0]

(* The interceptor counts the request when the handler has returned.  The  *)
(* handlers of CreateVM, StartVM, StopVM and DeleteVM report a failure of  *)
(* the manager in the reply, with status "ok".                             *)
Return(h, status) ==
  /\ requests' = [requests EXCEPT ![status] = @ + 1]
  /\ pc' = [pc EXCEPT ![h] = "idle"]
  /\ op' = [op EXCEPT ![h] = None]
  /\ arg' = [arg EXCEPT ![h] = None]
  /\ ptr' = [ptr EXCEPT ![h] = 0]

BusyOn(v) == {h \in Handlers : arg[h] = v /\ op[h] \in Changing}

(* A client sends a request (external).  A client that lost a reply sends  *)
(* its request again, perhaps while the first is still under way.          *)
Receive(h, m, v) ==
  /\ pc[h] = "idle"
  /\ calls < MaxCalls
  /\ calls' = calls + 1
  /\ pc' = [pc EXCEPT ![h] = "validate"]
  /\ op' = [op EXCEPT ![h] = m]
  /\ arg' = [arg EXCEPT ![h] = v]
  /\ overlapped' = IF m \in Changing /\ BusyOn(v) # {} THEN overlapped \cup {v} ELSE overlapped
  /\ UNCHANGED <<managerVars, ptr, metricVars, eventVars>>

(* An empty vm_id, a vcpu_count or a memory_mb out of range is refused     *)
(* before anything else is done.                                           *)
Validate(h) ==
  /\ pc[h] = "validate"
  /\ \/ Goto(h, "manager") /\ UNCHANGED requests
     \/ op[h] # "list" /\ Return(h, "error")
  /\ UNCHANGED <<managerVars, gauge, created, stopsDone, eventVars, calls, overlapped>>

----------------------------------------------------------------------------
(* The calls of the manager.                                               *)
ManagerCreate(h) ==
  /\ pc[h] = "manager"
  /\ op[h] = "create"
  /\ \/ /\ Registry!Create(arg[h])
        /\ gen' = [gen EXCEPT ![arg[h]] = @ + 1]
        /\ ptr' = [ptr EXCEPT ![h] = gen[arg[h]] + 1]
        /\ pc' = [pc EXCEPT ![h] = "announce"]
        /\ UNCHANGED <<op, arg>>
     \/ /\ Goto(h, "announceError")      \* "already exists", or it was undone
        /\ UNCHANGED <<reg, gen>>
  /\ UNCHANGED <<metricVars, eventVars, calls, overlapped>>

(* StartVM starts nothing.  It succeeds if the VM is there and its process *)
(* takes a signal, as it may for a while after StopVM; the VM may also end *)
(* between the two looks.                                                  *)
ManagerStart(h) ==
  /\ pc[h] = "manager"
  /\ op[h] = "start"
  /\ \/ reg[arg[h]] # "absent" /\ Goto(h, "announce")
     \/ Goto(h, "announceError")
  /\ UNCHANGED <<managerVars, metricVars, eventVars, calls, overlapped>>

(* Deviation: StopVM of a VM that is not there succeeds.                   *)
ManagerStopIdempotent(h) ==
  /\ pc[h] = "manager"
  /\ op[h] = "stop"
  /\ ptr' = [ptr EXCEPT ![h] = gen[arg[h]]]
  /\ pc' = [pc EXCEPT ![h] = IF reg[arg[h]] = "absent" THEN "announce" ELSE "marking"]
  /\ UNCHANGED <<op, arg, managerVars, metricVars, eventVars, calls, overlapped>>

(* StopVM looks the VM up and drops m.mu ...                               *)
ManagerStop(h) ==
  /\ pc[h] = "manager"
  /\ op[h] = "stop"
  /\ \/ reg[arg[h]] = "absent" /\ Goto(h, "announceError")
     \/ /\ reg[arg[h]] # "absent"
        /\ ptr' = [ptr EXCEPT ![h] = gen[arg[h]]]
        /\ pc' = [pc EXCEPT ![h] = "marking"]
        /\ UNCHANGED <<op, arg>>
  /\ UNCHANGED <<managerVars, metricVars, eventVars, calls, overlapped>>

(* ... and sets the state of the VM it found, registered or not by then.   *)
ManagerMark(h) ==
  /\ pc[h] = "marking"
  /\ IF reg[arg[h]] = "running" /\ gen[arg[h]] = ptr[h]
       THEN Registry!Stop(arg[h])
       ELSE UNCHANGED reg
  /\ Goto(h, "announce")
  /\ UNCHANGED <<gen, metricVars, eventVars, calls, overlapped>>

(* Deviation: a VM that is not there counts as deleted.                    *)
ManagerDeleteIdempotent(h) ==
  /\ pc[h] = "manager"
  /\ op[h] = "delete"
  /\ reg' = [reg EXCEPT ![arg[h]] = "absent"]
  /\ Goto(h, "announce")
  /\ UNCHANGED <<gen, metricVars, eventVars, calls, overlapped>>

(* A failed DeleteVM is logged; unlike the others it broadcasts nothing.   *)
ManagerDelete(h) ==
  /\ pc[h] = "manager"
  /\ op[h] = "delete"
  /\ \/ reg[arg[h]] = "absent" /\ Goto(h, "reply") /\ UNCHANGED reg
     \/ Registry!Delete(arg[h]) /\ Goto(h, "announce")
  /\ UNCHANGED <<gen, metricVars, eventVars, calls, overlapped>>

(* GetVM.                                                                  *)
ReadOne(h) ==
  /\ pc[h] = "manager"
  /\ op[h] = "get"
  /\ Return(h, IF reg[arg[h]] = "absent" THEN "error" ELSE "ok")
  /\ UNCHANGED <<managerVars, gauge, created, stopsDone, eventVars, calls, overlapped>>

(* ListVMs, GetHostInfo and HealthCheck.  (GetHostInfo panics when the     *)
(* host's load or memory cannot be read; AgentMain has the crash.)         *)
ReadAll(h) ==
  /\ pc[h] = "manager"
  /\ op[h] = "list"
  /\ Return(h, "ok")
  /\ UNCHANGED <<managerVars, gauge, created, stopsDone, eventVars, calls, overlapped>>

(* A VM's process ends: GetVM answers "stopped" from then on.              *)
ProcessEnds(v) ==
  /\ Registry!Stop(v)
  /\ UNCHANGED <<gen, handlerVars, metricVars, eventVars, calls, overlapped>>

----------------------------------------------------------------------------
(* After the manager's return.                                             *)
EventOf == [create |-> "created", start |-> "started", stop |-> "stopped", delete |-> "deleted"]

BalanceOf == [create |-> 1, start |-> 0, stop |-> 0, delete |-> -1]

Announce(h) ==
  /\ pc[h] = "announce"
  /\ last' = [last EXCEPT ![arg[h]] = EventOf[op[h]]]
  /\ balance' = [balance EXCEPT ![arg[h]] = @ + BalanceOf[op[h]]]
  /\ Goto(h, IF op[h] = "start" THEN "reply" ELSE "count")
  /\ UNCHANGED <<managerVars, metricVars, calls, overlapped>>

(* An ERROR event, which says nothing about a VM that has the id.          *)
AnnounceError(h) ==
  /\ pc[h] = "announceError"
  /\ Goto(h, "reply")
  /\ UNCHANGED <<managerVars, metricVars, eventVars, calls, overlapped>>

(* Deviation: deleting a VM leaves the gauge alone.                        *)
CountCreateStop(h) ==
  /\ pc[h] = "count"
  /\ gauge' = gauge + (IF op[h] = "create" THEN 1 ELSE IF op[h] = "stop" THEN -1 ELSE 0)
  /\ created' = IF op[h] = "create" THEN created + 1 ELSE created
  /\ stopsDone' = IF op[h] = "stop" THEN stopsDone + 1 ELSE stopsDone
  /\ Goto(h, "reply")
  /\ UNCHANGED <<managerVars, requests, eventVars, calls, overlapped>>

(* The gauge goes up with CreateVM and down with StopVM and DeleteVM.      *)
Count(h) ==
  /\ pc[h] = "count"
  /\ gauge' = IF op[h] = "create" THEN gauge + 1 ELSE gauge - 1
  /\ created' = IF op[h] = "create" THEN created + 1 ELSE created
  /\ stopsDone' = IF op[h] = "stop" THEN stopsDone + 1 ELSE stopsDone
  /\ Goto(h, "reply")
  /\ UNCHANGED <<managerVars, requests, eventVars, calls, overlapped>>

Reply(h) ==
  /\ pc[h] = "reply"
  /\ Return(h, "ok")
  /\ UNCHANGED <<managerVars, gauge, created, stopsDone, eventVars, calls, overlapped>>

Step(h) ==
  \/ Validate(h)
  \/ ManagerCreate(h) \/ ManagerStart(h) \/ ManagerStop(h) \/ ManagerMark(h)
  \/ ManagerDelete(h) \/ ReadOne(h) \/ ReadAll(h)
  \/ Announce(h) \/ AnnounceError(h) \/ Count(h) \/ Reply(h)

Next ==
  \/ \E h \in Handlers :
       \/ \E m \in Methods, v \in VmIds : Receive(h, m, v)
       \/ Step(h)
  \/ \E v \in VmIds : ProcessEnds(v)

Spec == Init /\ [][Next]_vars

----------------------------------------------------------------------------
Present(v) == reg[v] # "absent"

(* Handlers that have changed the registry and not yet done the step at l. *)
Owing(o, l) == {h \in Handlers : op[h] = o /\ pc[h] \in l}

OwingOn(v, o) == {h \in Owing(o, {"announce"}) : arg[h] = v}

(* What the gauge lacks of the number of VMs is owed by handlers that are  *)
(* about to count, but for StopVM, which takes a VM off the gauge that     *)
(* DeleteVM will take off again.                                           *)
GaugeAgrees ==
  LET owed(o) == Cardinality(Owing(o, {"announce", "count"})) IN
  gauge + stopsDone + owed("create") - owed("delete") = Cardinality({v \in VmIds : Present(v)})

(* The VMs that were ever made, by id and gen.                             *)
Made == {vm \in VmIds \X (1 .. MaxCalls) : vm[2] <= gen[vm[1]]}

(* Every creation and deletion of a VM is counted once, however requests   *)
(* overlap, fail or are repeated: in the gauge and in the counter of       *)
(* creations.  That of requests agrees with the calls that have returned.  *)
CountersAgree ==
  /\ GaugeAgrees
  /\ created + Cardinality(Owing("create", {"announce", "count"})) = Cardinality(Made)
  /\ requests["ok"] + requests["error"] + Cardinality({h \in Handlers : pc[h] # "idle"}) = calls

(* A watcher that counts CREATED and DELETED events of an id knows whether *)
(* the VM is there, but for the events still to be sent: none is sent for  *)
(* a call that failed, none is left out, none is sent twice.               *)
EventsBalance ==
  \A v \in VmIds :
    balance[v] + Cardinality(OwingOn(v, "create")) - Cardinality(OwingOn(v, "delete"))
      = IF Present(v) THEN 1 ELSE 0

(* As long as the requests for an id never overlapped, the last event of   *)
(* the id, ERROR left out, tells what became of it once no request for it  *)
(* is under way.  (Broadcasts of overlapping requests may come in either   *)
(* order.)                                                                 *)
LastEventTells ==
  \A v \in VmIds \ overlapped : BusyOn(v) = {} =>
    /\ Present(v) <=> last[v] \in {"created", "started", "stopped"}
    /\ last[v] = "stopped" => reg[v] = "stopped"

(* The gauge says how many VMs run: with none left it is zero.             *)
GaugeZeroWhenEmpty ==
  (\A v \in VmIds : ~Present(v) /\ BusyOn(v) = {}) => gauge = 0
=============================================================================
