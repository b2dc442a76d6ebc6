------------------------------ MODULE FcManager ------------------------------
(***************************************************************************)
(* The VM manager of the agent (src/internal/firecracker/manager.go):      *)
(* concurrent CreateVM, StopVM and DeleteVM calls over the registry m.vms, *)
(* composed with the processes, TAP devices and directories they act on.   *)
(*                                                                         *)
(* A call is a goroutine of the gRPC server.  It runs one operation at a   *)
(* time; pc names the statement it is at, and its steps are cut where the  *)
(* code calls into another component, sleeps, or takes or drops m.mu:      *)
(*                                                                         *)
(*  CreateVM  create (m.mu.Lock) -> storage -> tapAdd -> spawn [-> probe]  *)
(*            -> waitSocket -> the five PUTs of ApiSteps, then commit; an  *)
(*            error enters the teardown below at the point that undoes     *)
(*            what has been done, which is the deferred cleanup stack      *)
(*  DeleteVM  delete (m.mu.Lock) -> the whole teardown                     *)
(*  teardown  kill -> unlink -> tapDel [-> jailDel] -> storageDel, then    *)
(*            m.mu.Unlock                                                  *)
(*  StopVM    stop (m.mu.RLock, read m.vms, RUnlock) -> kill -> unlink if  *)
(*            forced, else ctrlAltDel -> term -> checkTerm -> unlink;      *)
(*            then markStopped (m.mu.Lock)                                 *)
(*                                                                         *)
(* StartVM, GetVM and ListVMs change nothing; what they answer is Reported.*)
(***************************************************************************)
EXTENDS VmProcess, TapNetwork, VmStorage, Naturals, FiniteSets

CONSTANTS Calls,        \* the calls that can be under way at once
          MaxRestarts   \* bound on the restarts of the agent

ASSUME NoCallAssumption == None \notin Calls
ASSUME RestartAssumption == MaxRestarts \in Nat

VARIABLES
  mu,        \* the call that holds m.mu for writing, or None
  vms,       \* m.vms: VM id -> the incarnation registered, or None
  stopped,   \* incarnations whose Info.State is VM_STATE_STOPPED
  pc, op, arg,
  ptr,       \* per call: the *VM it works on (for a create, the one it builds)
  abandoned, \* incarnations whose cleanup the agent gave up: a restart lost
             \* them, or a removal failed and was only logged
  restarts

resourceVars == <<processVars, tap, storageVars>>
callVars == <<pc, op, arg, ptr>>
vars == <<resourceVars, mu, vms, stopped, callVars, abandoned, restarts>>

Ops == {"create", "delete", "stop", "forceStop"}

(* The PUT requests CreateVM configures a VM with, in order.               *)
ApiSteps == {"bootSource", "machineConfig", "drive", "netIface", "startInstance"}

ApiNext == [bootSource    |-> "machineConfig",
            machineConfig |-> "drive",
            drive         |-> "netIface",
            netIface      |-> "startInstance"]

CreatePcs == {"storage", "tapAdd", "spawn", "probe", "waitSocket"} \cup ApiSteps
TeardownPcs == {"tapDel", "jailDel", "storageDel"}
KillPcs == {"kill", "unlink"}
StopPcs == {"ctrlAltDel", "term", "checkTerm", "markStopped"}
BeginPcs == {"create", "delete", "stop"}
Pcs == {"idle"} \cup BeginPcs \cup CreatePcs \cup KillPcs \cup TeardownPcs \cup StopPcs

TypeOK ==
  /\ ProcessTypeOK
  /\ TapTypeOK
  /\ StorageTypeOK
  /\ mu \in Calls \cup {None}
  /\ vms \in [VmIds -> Incs \cup {None}]
  /\ stopped \in SUBSET Incs
  /\ pc \in [Calls -> Pcs]
  /\ op \in [Calls -> Ops \cup {None}]
  /\ arg \in [Calls -> VmIds \cup {None}]
  /\ ptr \in [Calls -> Incs \cup {None}]
  /\ abandoned \in SUBSET Incs
  /\ restarts \in 0 .. MaxRestarts

Init ==
  /\ ProcessInit
  /\ TapInit
  /\ StorageInit
  /\ mu = None
  /\ vms = [v \in VmIds |-> None]
  /\ stopped = {}
  /\ pc = [c \in Calls |-> "idle"]
  /\ op = [c \in Calls |-> None]
  /\ arg = [c \in Calls |-> None]
  /\ ptr = [c \in Calls |-> None]
  /\ abandoned = {}
  /\ restarts = 0

----------------------------------------------------------------------------
(* Control flow of a call.                                                 *)
Goto(c, label) ==
  /\ pc' = [pc EXCEPT ![c] = label]
  /\ UNCHANGED <<op, arg, ptr>>

Return(c) ==
  /\ pc' = [pc EXCEPT ![c] = "idle"]
  /\ op' = [op EXCEPT ![c] = None]
  /\ arg' = [arg EXCEPT ![c] = None]
  /\ ptr' = [ptr EXCEPT ![c] = None]

(* Deviation: no CleanupJail on the way.                                   *)
UndoStoragePcNoJail == "storageDel"

(* The entry of the teardown that undoes the storage.                      *)
UndoStoragePc == IF UseJailer THEN "jailDel" ELSE "storageDel"

(* Deviation: the TAP device is not undone.                                *)
AfterKillSkipsTap(c) == IF op[c] \in {"stop", "forceStop"} THEN "markStopped" ELSE UndoStoragePc

(* What follows VMProcess.Kill and VMProcess.Stop.                         *)
AfterKill(c) == IF op[c] \in {"stop", "forceStop"} THEN "markStopped" ELSE "tapDel"

Unborn == {i \in Incs : vmOf[i] = None}

(* A client issues a call; the bound on incarnations limits the creations. *)
Call(c, o, v) ==
  /\ pc[c] = "idle"
  /\ o = "create" =>
       Cardinality(Unborn) > Cardinality({d \in Calls : pc[d] = "create"})
  /\ pc' = [pc EXCEPT ![c] = IF o = "forceStop" THEN "stop" ELSE o]
  /\ op' = [op EXCEPT ![c] = o]
  /\ arg' = [arg EXCEPT ![c] = v]
  /\ UNCHANGED <<resourceVars, mu, vms, stopped, ptr, abandoned, restarts>>

----------------------------------------------------------------------------
(* Deviation: the id may be taken.                                         *)
CreateBeginUnchecked(c) ==
  /\ pc[c] = "create"
  /\ mu = None
  /\ mu' = c
  /\ \E i \in Unborn :
       /\ vmOf' = [vmOf EXCEPT ![i] = arg[c]]
       /\ ptr' = [ptr EXCEPT ![c] = i]
  /\ pc' = [pc EXCEPT ![c] = "storage"]
  /\ UNCHANGED <<op, arg, proc, sock, logOpen, tap, storageVars, vms, stopped, abandoned, restarts>>

(* CreateVM, under m.mu from here to its return.                           *)
CreateBegin(c) ==
  /\ pc[c] = "create"
  /\ mu = None
  /\ \/ /\ vms[arg[c]] # None          \* "already exists"
        /\ Return(c)
        /\ UNCHANGED <<mu, vmOf>>
     \/ /\ vms[arg[c]] = None
        /\ mu' = c
        /\ \E i \in Unborn :
             /\ vmOf' = [vmOf EXCEPT ![i] = arg[c]]
             /\ ptr' = [ptr EXCEPT ![c] = i]
        /\ pc' = [pc EXCEPT ![c] = "storage"]
        /\ UNCHANGED <<op, arg>>
  /\ UNCHANGED <<proc, sock, logOpen, tap, storageVars, vms, stopped, abandoned, restarts>>

(* Deviation: the error return keeps m.mu.                                 *)
PrepareStorageKeepsLock(c) ==
  /\ pc[c] = "storage"
  /\ \/ MakeVmDir(arg[c], ptr[c]) /\ Goto(c, "tapAdd")
     \/ UNCHANGED storageVars /\ Return(c)
  /\ UNCHANGED <<processVars, tap, mu, vms, stopped, abandoned, restarts>>

(* Nothing is on the cleanup stack yet: an error returns as things are.    *)
PrepareStorage(c) ==
  /\ pc[c] = "storage"
  /\ \/ /\ MakeVmDir(arg[c], ptr[c])
        /\ Goto(c, "tapAdd")
        /\ UNCHANGED mu
     \/ /\ IF UseJailer THEN SetupJailDirectoryFails
                        ELSE PrepareVMStorageFails(arg[c], ptr[c])
        /\ Return(c)
        /\ mu' = None
  /\ UNCHANGED <<processVars, tap, vms, stopped, abandoned, restarts>>

CreateTap(c) ==
  /\ pc[c] = "tapAdd"
  /\ \/ /\ CreateTAPDevice(arg[c], ptr[c])
        /\ Goto(c, "spawn")
        /\ UNCHANGED abandoned
     \/ /\ CreateTAPDeviceFails(arg[c])
        /\ Goto(c, UndoStoragePc)
        /\ UNCHANGED abandoned
     \/ /\ CreateTAPDeviceLeaks(arg[c], ptr[c])
        /\ Goto(c, UndoStoragePc)
        /\ abandoned' = abandoned \cup {ptr[c]}
  /\ UNCHANGED <<processVars, storageVars, mu, vms, stopped, restarts>>

FillJail(v, i) == IF UseJailer THEN PopulateJail(v, i) ELSE UNCHANGED storageVars

(* StartFirecrackerProcess or StartJailedProcess up to cmd.Start.  The     *)
(* jailer's copy of the files precedes the removal of a stale socket.      *)
Spawn(c) ==
  /\ pc[c] = "spawn"
  /\ \/ /\ StartProcess(ptr[c])
        /\ FillJail(arg[c], ptr[c])
        /\ Goto(c, IF UseJailer THEN "probe" ELSE "waitSocket")
     \/ /\ StartProcessFails(ptr[c])
        /\ FillJail(arg[c], ptr[c])
        /\ Goto(c, "tapDel")
     \/ /\ UseJailer                     \* a source file is missing
        /\ UNCHANGED <<proc, sock, logOpen, storageVars>>
        /\ Goto(c, "tapDel")
  /\ UNCHANGED <<vmOf, tap, mu, vms, stopped, abandoned, restarts>>

(* StartJailedProcess looks whether the jailer exited; the goroutine that  *)
(* waits for it starts only afterwards.                                    *)
Probe(c) ==
  /\ pc[c] = "probe"
  /\ Goto(c, IF SignalSucceeds(ptr[c]) THEN "waitSocket" ELSE "tapDel")
  /\ UNCHANGED <<resourceVars, mu, vms, stopped, abandoned, restarts>>

WaitSocket(c) ==
  /\ pc[c] = "waitSocket"
  /\ \/ /\ SocketExists(ptr[c])
        /\ Goto(c, "bootSource")
        /\ UNCHANGED processVars
     \/ /\ AbandonStart(ptr[c])        \* timeout
        /\ Goto(c, "tapDel")
        /\ UNCHANGED vmOf
  /\ UNCHANGED <<tap, storageVars, mu, vms, stopped, abandoned, restarts>>

(* The processes a client of incarnation i may reach: its own while the    *)
(* connection lasts, else the one listening on the socket file.            *)
ClientReaches(i, connected) ==
  {j \in Incs : /\ proc[j] = "running"
                /\ (connected /\ j = i) \/ sock[SockPath(vmOf[i])] = j}

(* One configuration request.  The last one, InstanceStart, is followed by *)
(* the registration of the VM, which commits.                              *)
ApiPut(c) ==
  /\ pc[c] \in ApiSteps
  /\ \/ /\ ClientReaches(ptr[c], pc[c] # "bootSource") # {}
        /\ IF pc[c] = "startInstance"
             THEN /\ vms' = [vms EXCEPT ![arg[c]] = ptr[c]]
                  /\ mu' = None
                  /\ Return(c)
             ELSE /\ Goto(c, ApiNext[pc[c]])
                  /\ UNCHANGED <<mu, vms>>
     \/ /\ Goto(c, "kill")              \* refused, timed out or cancelled
        /\ UNCHANGED <<mu, vms>>
  /\ UNCHANGED <<resourceVars, stopped, abandoned, restarts>>

----------------------------------------------------------------------------
(* DeleteVM, under m.mu from here to its return.                           *)
DeleteBegin(c) ==
  /\ pc[c] = "delete"
  /\ mu = None
  /\ \/ /\ vms[arg[c]] = None          \* "not found"
        /\ Return(c)
        /\ UNCHANGED mu
     \/ /\ vms[arg[c]] # None
        /\ mu' = c
        /\ pc' = [pc EXCEPT ![c] = "kill"]
        /\ ptr' = [ptr EXCEPT ![c] = vms[arg[c]]]
        /\ UNCHANGED <<op, arg>>
  /\ UNCHANGED <<resourceVars, vms, stopped, abandoned, restarts>>

(* VMProcess.Kill, cut at its sleep.  Killing a process that is reaped is  *)
(* an error, and Kill returns it before it closes or removes anything.     *)
Kill(c) ==
  /\ pc[c] = "kill"
  /\ SigKill(ptr[c])
  /\ Goto(c, IF SignalSucceeds(ptr[c]) THEN "unlink" ELSE AfterKill(c))
  /\ UNCHANGED <<vmOf, tap, storageVars, mu, vms, stopped, abandoned, restarts>>

(* The end of Kill, and of Stop.                                           *)
Unlink(c) ==
  /\ pc[c] = "unlink"
  /\ CloseAndRemove(ptr[c])
  /\ Goto(c, AfterKill(c))
  /\ UNCHANGED <<vmOf, tap, storageVars, mu, vms, stopped, abandoned, restarts>>

(* The rest of the teardown goes on past errors.                           *)
DeleteTap(c) ==
  /\ pc[c] = "tapDel"
  /\ \/ DeleteTAPDevice(arg[c]) /\ UNCHANGED abandoned
     \/ DeleteTAPDeviceFails(arg[c]) /\ abandoned' = abandoned \cup {ptr[c]}
  /\ Goto(c, UndoStoragePc)
  /\ UNCHANGED <<processVars, storageVars, mu, vms, stopped, restarts>>

DeleteJail(c) ==
  /\ pc[c] = "jailDel"
  /\ \/ CleanupJail(arg[c]) /\ sock' = SocketsLeft(sock) /\ UNCHANGED abandoned
     \/ CleanupFails /\ abandoned' = abandoned \cup {ptr[c]} /\ UNCHANGED sock
  /\ Goto(c, "storageDel")
  /\ UNCHANGED <<vmOf, proc, logOpen, tap, mu, vms, stopped, restarts>>

(* The last cleanup; a delete then drops the VM from m.vms.                *)
DeleteStorage(c) ==
  /\ pc[c] = "storageDel"
  /\ \/ CleanupVMStorage(arg[c]) /\ sock' = SocketsLeft(sock) /\ UNCHANGED abandoned
     \/ CleanupFails /\ abandoned' = abandoned \cup {ptr[c]} /\ UNCHANGED sock
  /\ vms' = IF op[c] = "delete" THEN [vms EXCEPT ![arg[c]] = None] ELSE vms
  /\ mu' = None
  /\ Return(c)
  /\ UNCHANGED <<vmOf, proc, logOpen, tap, stopped, restarts>>

----------------------------------------------------------------------------
(* StopVM holds m.mu to read the registry and to set the state, not in     *)
(* between: the VM it read may be deleted, and its id reused, meanwhile.   *)
StopBegin(c) ==
  /\ pc[c] = "stop"
  /\ mu = None
  /\ \/ vms[arg[c]] = None /\ Return(c)
     \/ /\ vms[arg[c]] # None
        /\ ptr' = [ptr EXCEPT ![c] = vms[arg[c]]]
        /\ pc' = [pc EXCEPT ![c] = IF op[c] = "forceStop" THEN "kill" ELSE "ctrlAltDel"]
        /\ UNCHANGED <<op, arg>>
  /\ UNCHANGED <<resourceVars, mu, vms, stopped, abandoned, restarts>>

CtrlAltDel(c) ==
  /\ pc[c] = "ctrlAltDel"
  /\ \/ ClientReaches(ptr[c], TRUE) # {} /\ Goto(c, "term")
     \/ Goto(c, "kill")
  /\ UNCHANGED <<resourceVars, mu, vms, stopped, abandoned, restarts>>

(* Deviation: Stop does not look whether the process has gone.             *)
TermOnly(c) ==
  /\ pc[c] = "term"
  /\ Goto(c, "unlink")
  /\ UNCHANGED <<resourceVars, mu, vms, stopped, abandoned, restarts>>

(* VMProcess.Stop: SIGTERM, two seconds of grace, SIGKILL, then Unlink.    *)
Term(c) ==
  /\ pc[c] = "term"
  /\ Goto(c, IF SignalSucceeds(ptr[c]) THEN "checkTerm" ELSE "unlink")
  /\ UNCHANGED <<resourceVars, mu, vms, stopped, abandoned, restarts>>

(* Deviation: no SIGKILL after the grace period.                           *)
CheckTermNoKill(c) ==
  /\ pc[c] = "checkTerm"
  /\ Goto(c, "unlink")
  /\ UNCHANGED <<resourceVars, mu, vms, stopped, abandoned, restarts>>

CheckTerm(c) ==
  /\ pc[c] = "checkTerm"
  /\ IF IsRunning(ptr[c]) THEN SigKill(ptr[c]) ELSE UNCHANGED <<proc, sock, logOpen>>
  /\ Goto(c, "unlink")
  /\ UNCHANGED <<vmOf, tap, storageVars, mu, vms, stopped, abandoned, restarts>>

(* Deviation: the VM is looked up again by its id.                         *)
MarkStoppedById(c) ==
  /\ pc[c] = "markStopped"
  /\ mu = None
  /\ stopped' = stopped \cup {vms[arg[c]]}
  /\ Return(c)
  /\ UNCHANGED <<resourceVars, mu, vms, abandoned, restarts>>

MarkStopped(c) ==
  /\ pc[c] = "markStopped"
  /\ mu = None
  /\ stopped' = stopped \cup {ptr[c]}
  /\ Return(c)
  /\ UNCHANGED <<resourceVars, mu, vms, abandoned, restarts>>

----------------------------------------------------------------------------
(* The processes' own steps.                                               *)
managerVars == <<vmOf, tap, storageVars, mu, vms, stopped, callVars, abandoned, restarts>>

Bind(i) ==
  /\ vmOf[i] # None
  /\ SocketDir[SockPath(vmOf[i])] # None
  /\ BindSocket(i)
  /\ UNCHANGED managerVars

Exit(i) == ExitProcess(i) /\ UNCHANGED managerVars

Reap(i) ==
  /\ \A c \in Calls : ~(pc[c] = "probe" /\ ptr[c] = i)
  /\ ReapProcess(i)
  /\ UNCHANGED managerVars

(* The agent dies and is started again.  NewManager starts with an empty   *)
(* registry and looks at nothing earlier agents left.  The service manager *)
(* may kill the processes of the dead agent; otherwise they live on, and   *)
(* init reaps them.                                                        *)
Restart ==
  /\ restarts < MaxRestarts
  /\ restarts' = restarts + 1
  /\ \/ proc' = proc
     \/ proc' = [i \in Incs |-> IF proc[i] \in Alive THEN "killed" ELSE proc[i]]
  /\ logOpen' = {}
  /\ mu' = None
  /\ vms' = [v \in VmIds |-> None]
  /\ stopped' = {}
  /\ pc' = [c \in Calls |-> "idle"]
  /\ op' = [c \in Calls |-> None]
  /\ arg' = [c \in Calls |-> None]
  /\ ptr' = [c \in Calls |-> None]
  /\ abandoned' = abandoned \cup (Incs \ Unborn)
  /\ UNCHANGED <<vmOf, sock, tap, storageVars>>

Acquire(c) == CreateBegin(c) \/ DeleteBegin(c) \/ StopBegin(c) \/ MarkStopped(c)

Step(c) ==
  \/ PrepareStorage(c) \/ CreateTap(c) \/ Spawn(c) \/ Probe(c) \/ WaitSocket(c) \/ ApiPut(c)
  \/ Kill(c) \/ Unlink(c) \/ DeleteTap(c) \/ DeleteJail(c) \/ DeleteStorage(c)
  \/ CtrlAltDel(c) \/ Term(c) \/ CheckTerm(c)

Next ==
  \/ \E c \in Calls : \/ \E o \in Ops, v \in VmIds : Call(c, o, v)
                     \/ Acquire(c)
                     \/ Step(c)
  \/ \E i \in Incs : Bind(i) \/ Exit(i) \/ Reap(i)
  \/ Restart

Spec == Init /\ [][Next]_vars

(* The scheduler runs every call; sync.RWMutex starves no waiter; a killed *)
(* process exits and cmd.Wait returns.  Nothing makes clients call, a VM   *)
(* exit by itself or the agent restart.                                    *)
Fairness ==
  /\ \A c \in Calls : WF_vars(Step(c)) /\ SF_vars(Acquire(c))
  /\ \A i \in Incs : WF_vars(proc[i] = "killed" /\ Exit(i)) /\ WF_vars(Reap(i))

FairSpec == Spec /\ Fairness

----------------------------------------------------------------------------
(* What GetVM and ListVMs answer for the state of a registered VM.         *)
Reported(i) == IF ~IsRunning(i) \/ i \in stopped THEN "stopped" ELSE "running"

(* The call that holds m.mu is working on incarnation i.                   *)
InProgress(i) == mu # None /\ ptr[mu] = i

(* i is the VM registered for its id.                                      *)
Registered(i) == vmOf[i] # None /\ vms[vmOf[i]] = i

HoldsLock(c) ==
  \/ pc[c] \in CreatePcs \cup TeardownPcs
  \/ pc[c] \in KillPcs /\ op[c] \in {"create", "delete"}

(* A call is inside CreateVM or DeleteVM, anywhere between their Lock and  *)
(* their deferred Unlock, exactly when it holds m.mu: two of them never    *)
(* overlap, and none returns with the lock held.                           *)
LockInv == \A c \in Calls : HoldsLock(c) <=> mu = c

(* A registered VM that no call is creating or deleting owns everything    *)
(* CreateVM set up for it: its TAP device, its directory and its jail.     *)
(* Given OwnDirs, no failed creation and no other VM's deletion takes them *)
(* away; without it they do.                                               *)
RegisteredHasResources ==
  \A v \in VmIds : LET i == vms[v] IN
    i # None /\ ~InProgress(i) =>
      /\ vmOf[i] = v
      /\ tap[TapName[v]] = i
      /\ vmDir[VmPath[v]] = i
      /\ UseJailer => jailDir[JailPath[v]] = i

(* VMs whose ids the TAP name truncation maps to one device name are never *)
(* registered together.                                                    *)
TapExclusive ==
  \A v, w \in VmIds :
    vms[v] # None /\ vms[w] # None /\ TapName[v] = TapName[w] => v = w

Accounted(i) == i = None \/ Registered(i) \/ InProgress(i) \/ i \in abandoned

(* A TAP device on the host belongs to a registered VM, or to one that is  *)
(* being created or deleted, or to one whose cleanup is known to have been *)
(* given up: the cleanup stack of CreateVM covers every point of failure.  *)
NoTapLeak == \A n \in TapNames : Accounted(tap[n])

(* The same of the VM directories and, given JailsFound, of the jails.     *)
NoDirLeak == \A p \in Paths : Accounted(vmDir[p]) /\ Accounted(jailDir[p])

(* What holds in both modes, given JailsFound: a directory left behind is  *)
(* that of a creation that failed before it started anything.              *)
LeftDirsNeverRan ==
  \A p \in Paths :
    /\ Accounted(vmDir[p]) \/ (~UseJailer /\ proc[vmDir[p]] = "none")
    /\ Accounted(jailDir[p])

(* A process that was not sent SIGKILL belongs to a VM the agent knows, so *)
(* no deleted VM and no failed creation leaves a VM running.               *)
NoStrayProcess ==
  \A i \in Incs : proc[i] \in Alive => Registered(i) \/ InProgress(i) \/ i \in abandoned

(* An open log file belongs to a VM the agent knows, or to one a call that *)
(* holds m.mu has still to close; Kill leaves open for good only the log   *)
(* of a process that ended by itself and was reaped before.                *)
LogsAccounted ==
  \A i \in logOpen : Registered(i) \/ InProgress(i) \/ proc[i] = "reaped"

(* At any time at most one process that can still run uses a TAP device,   *)
(* and so at most one serves a VM id, whatever earlier agents left behind. *)
SingleLiveProcess ==
  \A i, j \in Incs :
    /\ proc[i] \in Alive
    /\ proc[j] \in Alive
    /\ TapName[vmOf[i]] = TapName[vmOf[j]]
    => i = j

(* The requests with which CreateVM configures and boots its VM reach its  *)
(* own process or none: never that of an earlier VM of the id, an orphan   *)
(* of an earlier agent, though they go to whoever listens at the path.     *)
(* Given OwnDirs: else the path may be another id's too.                   *)
RequestsReachOwn ==
  \A c \in Calls : pc[c] \in ApiSteps =>
    ClientReaches(ptr[c], pc[c] # "bootSource") \subseteq {ptr[c]}

(* Once StopVM has set VM_STATE_STOPPED, the process has exited or cannot  *)
(* run on, whichever way through Kill and Stop the call took and whatever  *)
(* other calls did to the VM meanwhile.                                    *)
StoppedIsDead == \A i \in stopped : proc[i] \notin Alive

(* The resources of a registered VM disappear only in a DeleteVM of that   *)
(* VM: given OwnDirs, not in a creation or a deletion of any other VM.     *)
ReleasesOwnVm ==
  \A v \in VmIds :
    /\ vms[v] # None
    /\ \/ tap'[TapName[v]] # tap[TapName[v]]
       \/ vmDir'[VmPath[v]] # vmDir[VmPath[v]]
       \/ UseJailer /\ jailDir'[JailPath[v]] # jailDir[JailPath[v]]
    => mu # None /\ op[mu] = "delete" /\ arg[mu] = v

OnlyDeleteReleases == [][ReleasesOwnVm]_vars

(* The socket path GetVM reports for a VM whose process serves the API is  *)
(* that of a file the process listens on, unless the VM is being stopped   *)
(* or deleted.  Given OwnDirs and, beyond one creation, no StaleStop: with *)
(* one incarnation only the VM's own stop and deletion can take the file.  *)
SocketReachable ==
  \A i \in Incs :
    /\ Registered(i)
    /\ proc[i] = "running"
    /\ ~\E c \in Calls : ptr[c] = i
    => sock[SockPath(vmOf[i])] = i

(* A StopVM about to remove the socket file of its VM, whose id has been   *)
(* given to another VM since.                                              *)
StaleStop(c) ==
  /\ pc[c] = "unlink"
  /\ op[c] \in {"stop", "forceStop"}
  /\ \E i \in Incs : i # ptr[c] /\ vmOf[i] = arg[c] /\ (Registered(i) \/ InProgress(i))

(* A registered VM loses the socket file its process listens on before the *)
(* process is dead in one way only: to a StopVM of an earlier VM of its    *)
(* id.  Given OwnDirs, no creation, no deletion and no call on another id  *)
(* takes it.                                                               *)
OnlyStaleStopUnlinks ==
  [][\A v \in VmIds :
       LET i == vms[v] IN
         i # None /\ proc[i] = "running" /\ sock[SockPath(v)] = i /\ sock'[SockPath(v)] # i
         => \E c \in Calls : StaleStop(c) /\ arg[c] = v]_vars

(* The registry as GetVM and ListVMs show it, and what it promises.        *)
RegState ==
  [v \in VmIds |-> IF vms[v] = None THEN "absent" ELSE Reported(vms[v])]

Registry == INSTANCE VmRegistry WITH reg <- RegState

ImplementsRegistry == Registry!RegSpec

(* Every call that was issued returns.                                     *)
CallsReturn == \A c \in Calls : pc[c] # "idle" ~> pc[c] = "idle"

(* The process of a stopped VM does not stay a zombie.                     *)
StoppedIsReaped == \A i \in Incs : i \in stopped ~> proc[i] = "reaped"
=============================================================================
