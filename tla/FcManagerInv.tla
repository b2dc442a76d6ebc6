----------------------------- MODULE FcManagerInv ----------------------------
(***************************************************************************)
(* The inductive invariant behind the safety properties of FcManager: what *)
(* holds at each point of each operation, of the call's own data and of    *)
(* the resources it works on.                                              *)
(***************************************************************************)
EXTENDS FcManager

(* A process that was started and can run no more.                         *)
Dead(i) == proc[i] \in {"killed", "zombie", "reaped"}

StopOps == {"stop", "forceStop"}
LockOps == {"create", "delete"}

(* A call has an argument, and past its lookup an incarnation to work on.  *)
CallTyped ==
  \A c \in Calls :
    /\ pc[c] # "idle" => arg[c] \in VmIds
    /\ pc[c] \notin {"idle"} \cup BeginPcs => ptr[c] \in Incs

(* The program counter and the operation agree, and the incarnation is one *)
(* of the VM id the call was given.                                        *)
CallInv ==
  \A c \in Calls :
    /\ pc[c] \in {"create"} \cup CreatePcs => op[c] = "create"
    /\ pc[c] = "delete" => op[c] = "delete"
    /\ pc[c] \in TeardownPcs => op[c] \in LockOps
    /\ pc[c] \in {"stop"} \cup StopPcs => op[c] \in StopOps
    /\ pc[c] \in KillPcs => op[c] \in Ops
    /\ pc[c] \in {"idle"} \cup BeginPcs => ptr[c] = None
    /\ pc[c] \notin {"idle"} \cup BeginPcs => vmOf[ptr[c]] = arg[c]

(* Where CreateVM stands: what it has set up so far is its own.            *)
CreateInv ==
  \A c \in Calls : HoldsLock(c) /\ op[c] = "create" =>
    /\ vms[arg[c]] = None
    /\ pc[c] \in {"storage", "tapAdd", "spawn"} => proc[ptr[c]] = "none"
    /\ pc[c] \in {"storage", "tapAdd"} => \A n \in TapNames : tap[n] # ptr[c]
    /\ pc[c] = "storage" => \A p \in Paths : vmDir[p] # ptr[c] /\ jailDir[p] # ptr[c]
    /\ pc[c] \in {"probe", "waitSocket"} \cup ApiSteps => proc[ptr[c]] # "none"
    /\ pc[c] \in {"spawn", "probe", "waitSocket", "tapDel"} \cup ApiSteps \cup KillPcs
         => tap[TapName[arg[c]]] = ptr[c]
    /\ pc[c] \notin {"storage", "storageDel"} => vmDir[VmPath[arg[c]]] = ptr[c]
    /\ UseJailer /\ pc[c] \in {"probe", "waitSocket"} \cup ApiSteps
         => jailDir[JailPath[arg[c]]] = ptr[c]

(* Where DeleteVM stands: what it has not removed yet is the VM's.         *)
DeleteInv ==
  \A c \in Calls : HoldsLock(c) /\ op[c] = "delete" =>
    /\ vms[arg[c]] = ptr[c]
    /\ pc[c] \in KillPcs \cup {"tapDel"} => tap[TapName[arg[c]]] = ptr[c]

(* A teardown past the removal of the TAP device, and of the jail.         *)
TeardownInv ==
  \A c \in Calls :
    /\ pc[c] = "jailDel" => UseJailer
    /\ pc[c] \in TeardownPcs => proc[ptr[c]] \notin Alive
    /\ pc[c] \in {"jailDel", "storageDel"} =>
         tap[TapName[arg[c]]] # ptr[c] \/ ptr[c] \in abandoned
    /\ pc[c] = "storageDel" /\ JailsFound =>
         jailDir[JailPath[arg[c]]] # ptr[c] \/ ptr[c] \in abandoned

(* The process a StopVM works on was started; once it is through with the  *)
(* signals the process is dead.                                            *)
StopInv ==
  /\ \A c \in Calls :
       /\ pc[c] \in KillPcs \cup StopPcs => proc[ptr[c]] # "none"
       /\ pc[c] \in {"unlink", "markStopped"} => Dead(ptr[c])
  /\ \A i \in stopped : Dead(i)

(* The registry holds each VM under its own id.                            *)
VmsInv ==
  \A v \in VmIds : vms[v] # None => vmOf[vms[v]] = v /\ proc[vms[v]] # "none"

(* The part of RegisteredHasResources that holds without OwnDirs.          *)
RegisteredHasTap ==
  \A v \in VmIds : vms[v] # None /\ ~InProgress(vms[v]) => tap[TapName[v]] = vms[v]

(* A process that can run has the TAP device of its VM, and is accounted   *)
(* for.  Nothing unborn has a process.                                     *)
ProcInv ==
  \A i \in Incs :
    /\ vmOf[i] = None => proc[i] = "none"
    /\ proc[i] \in Alive =>
         /\ vmOf[i] # None
         /\ tap[TapName[vmOf[i]]] = i
         /\ Accounted(i)

TapInv ==
  \A n \in TapNames : tap[n] # None =>
    /\ vmOf[tap[n]] # None
    /\ TapName[vmOf[tap[n]]] = n
    /\ Accounted(tap[n])

(* Directories and jails hold files of a VM whose id names them; with the  *)
(* jailer they are accounted for too.                                      *)
DirInv ==
  \A p \in Paths :
    /\ vmDir[p] # None =>
         /\ vmOf[vmDir[p]] # None
         /\ VmPath[vmOf[vmDir[p]]] = p
         /\ UseJailer => Accounted(vmDir[p])
    /\ jailDir[p] # None =>
         /\ UseJailer
         /\ vmOf[jailDir[p]] # None
         /\ JailPath[vmOf[jailDir[p]]] = p
         /\ JailsFound => Accounted(jailDir[p])

(* An open log belongs to a process that was started; a teardown past the  *)
(* end of Kill left it open only when the process was already reaped.      *)
LogInv ==
  /\ \A i \in logOpen :
       /\ vmOf[i] # None
       /\ proc[i] # "none"
  /\ \A c \in Calls :
       pc[c] \in TeardownPcs => ptr[c] \notin logOpen \/ proc[ptr[c]] = "reaped"
  /\ LogsAccounted

(* A socket file was bound by a process whose id names its directory,      *)
(* which exists.                                                           *)
SocketInv ==
  \A p \in Paths : sock[p] # None =>
    /\ vmOf[sock[p]] # None
    /\ SockPath(vmOf[sock[p]]) = p
    /\ SocketDir[p] # None

(* What was given up exists, is not being set up, and does not serve.      *)
AbandonInv ==
  /\ \A i \in abandoned : vmOf[i] # None /\ (Registered(i) => proc[i] \notin Alive)
  /\ \A c \in Calls : pc[c] \in CreatePcs => ptr[c] \notin abandoned

(* A running process of this agent has its socket file.                    *)
ServeInv ==
  \A i \in Incs \ abandoned : proc[i] = "running" => sock[SockPath(vmOf[i])] = i

(* A lone StopVM works on the VM that is registered.                       *)
FreshStop ==
  \A c \in Calls :
    op[c] \in StopOps /\ pc[c] \in KillPcs \cup StopPcs => vms[arg[c]] = ptr[c]

NoStaleStop == \A c \in Calls : ~StaleStop(c)

(* A directory whose VM is not accounted for: its preparation failed.      *)
LeftDirInv ==
  \A p \in Paths :
    vmDir[p] # None => Accounted(vmDir[p]) \/ (~UseJailer /\ proc[vmDir[p]] = "none")

TypeInv == TypeOK /\ CallTyped

(* All of it, with the invariants of FcManager that are part of it.        *)
IInv ==
  /\ TypeInv
  /\ LockInv
  /\ CallInv
  /\ CreateInv
  /\ DeleteInv
  /\ TeardownInv
  /\ StopInv
  /\ VmsInv
  /\ RegisteredHasTap
  /\ TapExclusive
  /\ ProcInv
  /\ TapInv
  /\ DirInv
=============================================================================
