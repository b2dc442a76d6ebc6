--------------------------- MODULE FcRegistryProofs --------------------------
(***************************************************************************)
(* Proofs about what FcManager shows its clients: it implements VmRegistry, *)
(* a registered VM's resources go only in a deletion of that VM, and open   *)
(* log files have owners.                                                   *)
(***************************************************************************)
EXTENDS FcManagerProofs

USE NoneAssumption, ModeAssumption, TapNameAssumption, NoCallAssumption

----------------------------------------------------------------------------
(* The steps that change a TAP device or a directory.                      *)
LEMMA ResourceSteps ==
  ASSUME TypeInv, [Next]_vars
  PROVE  \/ \E c \in Calls : \/ PrepareStorage(c) \/ CreateTap(c) \/ Spawn(c)
                            \/ DeleteTap(c) \/ DeleteJail(c) \/ DeleteStorage(c)
         \/ UNCHANGED <<tap, vmDir, jailDir>>
<1>1. ASSUME NEW c \in Calls, NEW o \in Ops, NEW v \in VmIds, Call(c, o, v)
      PROVE  UNCHANGED <<tap, vmDir, jailDir>>
      BY <1>1 DEF Call, resourceVars, storageVars
<1>2. ASSUME NEW c \in Calls, CreateBegin(c) PROVE UNCHANGED <<tap, vmDir, jailDir>>
      BY <1>2 DEF CreateBegin, resourceVars, storageVars
<1>3. ASSUME NEW c \in Calls, DeleteBegin(c) PROVE UNCHANGED <<tap, vmDir, jailDir>>
      BY <1>3 DEF DeleteBegin, resourceVars, storageVars
<1>4. ASSUME NEW c \in Calls, StopBegin(c) PROVE UNCHANGED <<tap, vmDir, jailDir>>
      BY <1>4 DEF StopBegin, resourceVars, storageVars
<1>5. ASSUME NEW c \in Calls, MarkStopped(c) PROVE UNCHANGED <<tap, vmDir, jailDir>>
      BY <1>5 DEF MarkStopped, resourceVars, storageVars
<1>6. ASSUME NEW c \in Calls, Probe(c) PROVE UNCHANGED <<tap, vmDir, jailDir>>
      BY <1>6 DEF Probe, resourceVars, storageVars
<1>7. ASSUME NEW c \in Calls, WaitSocket(c) PROVE UNCHANGED <<tap, vmDir, jailDir>>
      BY <1>7 DEF WaitSocket, resourceVars, storageVars
<1>8. ASSUME NEW c \in Calls, ApiPut(c) PROVE UNCHANGED <<tap, vmDir, jailDir>>
      BY <1>8 DEF ApiPut, resourceVars, storageVars
<1>9. ASSUME NEW c \in Calls, Kill(c) PROVE UNCHANGED <<tap, vmDir, jailDir>>
      BY <1>9 DEF Kill, resourceVars, storageVars
<1>10. ASSUME NEW c \in Calls, Unlink(c) PROVE UNCHANGED <<tap, vmDir, jailDir>>
      BY <1>10 DEF Unlink, resourceVars, storageVars
<1>11. ASSUME NEW c \in Calls, CtrlAltDel(c) PROVE UNCHANGED <<tap, vmDir, jailDir>>
      BY <1>11, CtrlAltDelStep DEF resourceVars, storageVars
<1>12. ASSUME NEW c \in Calls, Term(c) PROVE UNCHANGED <<tap, vmDir, jailDir>>
      BY <1>12 DEF Term, resourceVars, storageVars
<1>13. ASSUME NEW c \in Calls, CheckTerm(c) PROVE UNCHANGED <<tap, vmDir, jailDir>>
      BY <1>13 DEF CheckTerm, resourceVars, storageVars
<1>14. ASSUME NEW i \in Incs, Bind(i) PROVE UNCHANGED <<tap, vmDir, jailDir>>
      BY <1>14 DEF Bind, managerVars, storageVars
<1>15. ASSUME NEW i \in Incs, Exit(i) PROVE UNCHANGED <<tap, vmDir, jailDir>>
      BY <1>15 DEF Exit, managerVars, storageVars
<1>16. ASSUME NEW i \in Incs, Reap(i) PROVE UNCHANGED <<tap, vmDir, jailDir>>
      BY <1>16 DEF Reap, managerVars, storageVars
<1>17. CASE Restart
      BY <1>17 DEF Restart, storageVars
<1>18. CASE UNCHANGED vars
      BY <1>18 DEF vars, resourceVars, storageVars
<1> QED
    BY <1>1, <1>2, <1>3, <1>4, <1>5, <1>6, <1>7, <1>8, <1>9, <1>10, <1>11, <1>12, <1>13,
       <1>14, <1>15, <1>16, <1>17, <1>18 DEF Next, Acquire, Step

LEMMA ResourcesReleased ==
  ASSUME IInv, RegisteredHasResources, OwnDirs, [Next]_vars
  PROVE  ReleasesOwnVm
<1> USE DEF IInv, TypeInv, TypeOK, ProcessTypeOK, TapTypeOK, StorageTypeOK, CallTyped,
            LockInv, HoldsLock, CallInv, CreateInv, VmsInv, RegisteredHasTap, InProgress,
            CreatePcs, ApiSteps, KillPcs, TeardownPcs, BeginPcs, LockOps, ReleasesOwnVm
<1>1. ASSUME NEW c \in Calls, PrepareStorage(c) PROVE ReleasesOwnVm
      BY <1>1, PathAssumption, OwnDirsApart DEF PrepareStorage, Goto, Return, MakeVmDir,
         PrepareVMStorageFails, SetupJailDirectoryFails, processVars, storageVars
<1>2. ASSUME NEW c \in Calls, CreateTap(c) PROVE ReleasesOwnVm
      BY <1>2 DEF CreateTap, Goto, CreateTAPDevice, CreateTAPDeviceFails,
         CreateTAPDeviceLeaks, UndoStoragePc, processVars, storageVars
<1>3. ASSUME NEW c \in Calls, Spawn(c) PROVE ReleasesOwnVm
      BY <1>3, PathAssumption, OwnDirsApart DEF Spawn, Goto, StartProcess,
         StartProcessFails, FillJail, PopulateJail, storageVars
<1>4. ASSUME NEW c \in Calls, DeleteTap(c) PROVE ReleasesOwnVm
      <2>1. mu = c /\ mu # None /\ op[c] \in LockOps /\ arg[c] \in VmIds
            BY <1>4 DEF DeleteTap
      <2>2. SUFFICES ASSUME NEW v \in VmIds, vms[v] # None, tap'[TapName[v]] # tap[TapName[v]]
                     PROVE  op[c] = "delete" /\ arg[c] = v
            BY <1>4, <2>1 DEF DeleteTap, storageVars
      <2>3. TapName[v] = TapName[arg[c]]
            BY <1>4, <2>1, <2>2 DEF DeleteTap, DeleteTAPDevice, DeleteTAPDeviceFails
      <2>4. CASE op[c] = "delete"
            BY <1>4, <2>1, <2>2, <2>3, <2>4 DEF DeleteTap, DeleteInv, TapExclusive
      <2>5. CASE op[c] = "create"
            <3>1. vms[arg[c]] = None /\ tap[TapName[arg[c]]] = ptr[c] /\ vmOf[ptr[c]] = arg[c]
                  BY <1>4, <2>1, <2>5 DEF DeleteTap
            <3>2. vms[v] # ptr[c]
                  BY <2>2, <3>1
            <3>3. tap[TapName[v]] = vms[v]
                  BY <2>1, <2>2, <3>2
            <3> QED
                BY <2>3, <3>1, <3>2, <3>3
      <2> QED
          BY <2>1, <2>4, <2>5
<1>5. ASSUME NEW c \in Calls, DeleteJail(c) PROVE ReleasesOwnVm
      BY <1>5, PathAssumption, OwnDirsApart DEF DeleteJail, Goto, CleanupJail,
         RemoveAll, CleanupFails, TeardownInv, storageVars
<1>6. ASSUME NEW c \in Calls, DeleteStorage(c) PROVE ReleasesOwnVm
      BY <1>6, PathAssumption, OwnDirsApart DEF DeleteStorage, Return, CleanupVMStorage,
         RemoveAll, CleanupFails, storageVars
<1>7. CASE UNCHANGED <<tap, vmDir, jailDir>>
      BY <1>7
<1> QED
    BY ResourceSteps, <1>1, <1>2, <1>3, <1>4, <1>5, <1>6, <1>7

(* Of VMs with directories of their own: a registered one loses its TAP    *)
(* device, its directory or its jail only in a step of a DeleteVM of it.   *)
THEOREM ReleasedByDelete ==
  ASSUME OwnDirs
  PROVE  Spec => OnlyDeleteReleases
<1>1. IInv /\ RegisteredHasResources /\ [Next]_vars => [ReleasesOwnVm]_vars
      BY ResourcesReleased
<1> QED
    BY <1>1, Invariant, ResourcesKept, PTL DEF Spec, OnlyDeleteReleases

----------------------------------------------------------------------------
(* An open log keeps an owner, or its process is reaped.                   *)
LEMMA NextLogInv == IInv /\ LogInv /\ [Next]_vars => LogInv'
<1> SUFFICES ASSUME IInv, LogInv, [Next]_vars
             PROVE  LogInv'
    OBVIOUS
<1> USE DEF IInv, TypeInv, TypeOK, ProcessTypeOK, TapTypeOK, StorageTypeOK, CallTyped,
            CallInv, BeginPcs, CreatePcs, ApiSteps, KillPcs, TeardownPcs, StopPcs,
            LockOps, StopOps, Ops, LogInv, LogsAccounted, CreateInv, StopInv, VmsInv,
            Registered, InProgress, LockInv, HoldsLock, SignalSucceeds, IsRunning, Alive,
            ProcStates
<1>1. ASSUME NEW c \in Calls, NEW o \in Ops, NEW v \in VmIds, Call(c, o, v)
      PROVE  LogInv'
      BY <1>1 DEF Call, resourceVars, processVars, storageVars
<1>2. ASSUME NEW c \in Calls, CreateBegin(c) PROVE LogInv'
      BY <1>2 DEF CreateBegin, Return, Unborn, storageVars
<1>3. ASSUME NEW c \in Calls, DeleteBegin(c) PROVE LogInv'
      BY <1>3 DEF DeleteBegin, Return, resourceVars, processVars, storageVars
<1>4. ASSUME NEW c \in Calls, StopBegin(c) PROVE LogInv'
      BY <1>4 DEF StopBegin, Return, resourceVars, processVars, storageVars
<1>5. ASSUME NEW c \in Calls, MarkStopped(c) PROVE LogInv'
      BY <1>5 DEF MarkStopped, Return, resourceVars, processVars, storageVars
<1>6. ASSUME NEW c \in Calls, PrepareStorage(c) PROVE LogInv'
      BY <1>6 DEF PrepareStorage, Goto, Return, MakeVmDir, PrepareVMStorageFails,
         SetupJailDirectoryFails, processVars, storageVars
<1>7. ASSUME NEW c \in Calls, CreateTap(c) PROVE LogInv'
      BY <1>7 DEF CreateTap, Goto, CreateTAPDevice, CreateTAPDeviceFails,
         CreateTAPDeviceLeaks, UndoStoragePc, processVars, storageVars
<1>8. ASSUME NEW c \in Calls, Spawn(c) PROVE LogInv'
      BY <1>8 DEF Spawn, Goto, StartProcess, StartProcessFails, FillJail, PopulateJail,
         storageVars
<1>9. ASSUME NEW c \in Calls, Probe(c) PROVE LogInv'
      BY <1>9 DEF Probe, Goto, resourceVars, processVars, storageVars
<1>10. ASSUME NEW c \in Calls, WaitSocket(c) PROVE LogInv'
      BY <1>10 DEF WaitSocket, Goto, AbandonStart, processVars, storageVars
<1>11. ASSUME NEW c \in Calls, ApiPut(c) PROVE LogInv'
      BY <1>11 DEF ApiPut, Goto, Return, ApiNext, resourceVars, processVars, storageVars
<1>12. ASSUME NEW c \in Calls, Kill(c) PROVE LogInv'
      BY <1>12 DEF Kill, Goto, SigKill, AfterKill, storageVars
<1>13. ASSUME NEW c \in Calls, Unlink(c) PROVE LogInv'
      BY <1>13 DEF Unlink, Goto, CloseAndRemove, AfterKill, storageVars
<1>14. ASSUME NEW c \in Calls, DeleteTap(c) PROVE LogInv'
      BY <1>14 DEF DeleteTap, Goto, DeleteTAPDevice, DeleteTAPDeviceFails,
         UndoStoragePc, processVars, storageVars
<1>15. ASSUME NEW c \in Calls, DeleteJail(c) PROVE LogInv'
      BY <1>15 DEF DeleteJail, Goto, CleanupJail, CleanupFails, SocketsLeft, storageVars
<1>16. ASSUME NEW c \in Calls, DeleteStorage(c) PROVE LogInv'
      <2>1. /\ mu = c /\ mu' = None
            /\ UNCHANGED <<vmOf, proc, logOpen>>
            /\ ptr[c] \notin logOpen \/ proc[ptr[c]] = "reaped"
            /\ pc' = [pc EXCEPT ![c] = "idle"]
            /\ ptr' = [ptr EXCEPT ![c] = None]
            BY <1>16 DEF DeleteStorage, Return
      <2>2. \A i \in logOpen : Registered(i)' \/ proc[i] = "reaped"
            <3> SUFFICES ASSUME NEW i \in logOpen, proc[i] # "reaped"
                         PROVE  Registered(i)'
                BY <2>1
            <3>1. i # ptr[c] /\ vmOf[i] # None /\ vms[vmOf[i]] = i
                  BY <2>1
            <3>2. op[c] = "delete" => vms[arg[c]] = ptr[c]
                  BY <1>16, <2>1 DEF DeleteStorage, DeleteInv
            <3> QED
                BY <1>16, <2>1, <3>1, <3>2 DEF DeleteStorage
      <2> QED
          BY <2>1, <2>2
<1>17. ASSUME NEW c \in Calls, CtrlAltDel(c) PROVE LogInv'
      BY <1>17, CtrlAltDelStep DEF Goto, resourceVars, processVars, storageVars
<1>18. ASSUME NEW c \in Calls, Term(c) PROVE LogInv'
      BY <1>18 DEF Term, Goto, resourceVars, processVars, storageVars
<1>19. ASSUME NEW c \in Calls, CheckTerm(c) PROVE LogInv'
      BY <1>19 DEF CheckTerm, Goto, SigKill, storageVars
<1>20. ASSUME NEW i \in Incs, Bind(i) PROVE LogInv'
      BY <1>20 DEF Bind, BindSocket, managerVars, storageVars, callVars
<1>21. ASSUME NEW i \in Incs, Exit(i) PROVE LogInv'
      BY <1>21 DEF Exit, ExitProcess, managerVars, storageVars, callVars
<1>22. ASSUME NEW i \in Incs, Reap(i) PROVE LogInv'
      BY <1>22 DEF Reap, ReapProcess, managerVars, storageVars, callVars
<1>23. CASE Restart
      BY <1>23 DEF Restart, Unborn, storageVars
<1>24. CASE UNCHANGED vars
      BY <1>24 DEF vars, resourceVars, processVars, storageVars, callVars
<1> HIDE DEF IInv, TypeInv, TypeOK, ProcessTypeOK, TapTypeOK, StorageTypeOK, CallTyped,
             CallInv, BeginPcs, CreatePcs, ApiSteps, KillPcs, TeardownPcs, StopPcs,
             LockOps, StopOps, Ops, LogInv, LogsAccounted, CreateInv, StopInv, VmsInv,
             Registered, InProgress, LockInv, HoldsLock, SignalSucceeds, IsRunning, Alive,
             ProcStates
<1> QED
    BY <1>1, <1>2, <1>3, <1>4, <1>5, <1>6, <1>7, <1>8, <1>9, <1>10, <1>11, <1>12, <1>13,
       <1>14, <1>15, <1>16, <1>17, <1>18, <1>19, <1>20, <1>21, <1>22, <1>23, <1>24 DEF
       Next, Acquire, Step

(* Whatever calls, failures and process exits come, a log file the agent   *)
(* holds open is one of a VM it knows or works on, or of a process that    *)
(* was reaped before Kill looked.                                          *)
THEOREM LogsKept == Spec => []LogsAccounted
<1>1. Init => LogInv
      BY DEF Init, ProcessInit, LogInv, LogsAccounted, TeardownPcs
<1>2. LogInv => LogsAccounted
      BY DEF LogInv
<1> QED
    BY <1>1, <1>2, NextLogInv, Invariant, PTL DEF Spec

----------------------------------------------------------------------------
(* The refinement of VmRegistry.                                           *)

LEMMA InitRegistry == Init => Registry!RegInit
  BY DEF Init, Registry!RegInit, RegState

(* A step that changes what is reported of one id.                         *)
LEMMA ReportedUpdate ==
  ASSUME NEW v \in VmIds, NEW s, RegState'[v] = s,
         \A w \in VmIds : w # v => RegState'[w] = RegState[w]
  PROVE  RegState' = [RegState EXCEPT ![v] = s]
  BY DEF RegState

LEMMA StepRegistry == IInv /\ [Next]_vars => [Registry!RegNext]_RegState
<1> SUFFICES ASSUME IInv, [Next]_vars
             PROVE  [Registry!RegNext]_RegState
    OBVIOUS
<1> USE DEF IInv, TypeInv, TypeOK, ProcessTypeOK, TapTypeOK, StorageTypeOK, CallTyped,
            RegState, Reported, IsRunning, SignalSucceeds, VmsInv
<1>1. ASSUME NEW c \in Calls, NEW o \in Ops, NEW v \in VmIds, Call(c, o, v)
      PROVE  UNCHANGED RegState
      BY <1>1 DEF Call, resourceVars, processVars, storageVars
<1>2. ASSUME NEW c \in Calls, CreateBegin(c) PROVE UNCHANGED RegState
      BY <1>2 DEF CreateBegin, Return, Unborn, storageVars
<1>3. ASSUME NEW c \in Calls, DeleteBegin(c) PROVE UNCHANGED RegState
      BY <1>3 DEF DeleteBegin, Return, resourceVars, processVars, storageVars
<1>4. ASSUME NEW c \in Calls, StopBegin(c) PROVE UNCHANGED RegState
      BY <1>4 DEF StopBegin, Return, resourceVars, processVars, storageVars
<1>5. ASSUME NEW c \in Calls, PrepareStorage(c) PROVE UNCHANGED RegState
      BY <1>5 DEF PrepareStorage, Goto, Return, MakeVmDir, PrepareVMStorageFails,
         SetupJailDirectoryFails, processVars, storageVars
<1>6. ASSUME NEW c \in Calls, CreateTap(c) PROVE UNCHANGED RegState
      BY <1>6 DEF CreateTap, Goto, CreateTAPDevice, CreateTAPDeviceFails,
         CreateTAPDeviceLeaks, UndoStoragePc, processVars, storageVars
<1>7. ASSUME NEW c \in Calls, Spawn(c) PROVE UNCHANGED RegState
      BY <1>7 DEF Spawn, Goto, StartProcess, StartProcessFails, FillJail, PopulateJail,
         storageVars, CreateInv, LockInv, HoldsLock, CallInv, CreatePcs, ApiSteps
<1>8. ASSUME NEW c \in Calls, Probe(c) PROVE UNCHANGED RegState
      BY <1>8 DEF Probe, Goto, resourceVars, processVars, storageVars
<1>9. ASSUME NEW c \in Calls, WaitSocket(c) PROVE UNCHANGED RegState
      BY <1>9 DEF WaitSocket, Goto, AbandonStart, processVars, storageVars, Alive,
         ProcStates
<1>10. ASSUME NEW c \in Calls, Kill(c) PROVE UNCHANGED RegState
      BY <1>10 DEF Kill, Goto, SigKill, AfterKill, storageVars, Alive, ProcStates
<1>11. ASSUME NEW c \in Calls, Unlink(c) PROVE UNCHANGED RegState
      BY <1>11 DEF Unlink, Goto, CloseAndRemove, AfterKill, storageVars
<1>12. ASSUME NEW c \in Calls, DeleteTap(c) PROVE UNCHANGED RegState
      BY <1>12 DEF DeleteTap, Goto, DeleteTAPDevice, DeleteTAPDeviceFails,
         UndoStoragePc, processVars, storageVars
<1>13. ASSUME NEW c \in Calls, DeleteJail(c) PROVE UNCHANGED RegState
      BY <1>13 DEF DeleteJail, Goto, CleanupJail, CleanupFails, SocketsLeft, storageVars
<1>14. ASSUME NEW c \in Calls, CtrlAltDel(c) PROVE UNCHANGED RegState
      BY <1>14, CtrlAltDelStep DEF Goto, resourceVars, processVars, storageVars
<1>15. ASSUME NEW c \in Calls, Term(c) PROVE UNCHANGED RegState
      BY <1>15 DEF Term, Goto, resourceVars, processVars, storageVars
<1>16. ASSUME NEW c \in Calls, CheckTerm(c) PROVE UNCHANGED RegState
      BY <1>16 DEF CheckTerm, Goto, SigKill, storageVars, Alive, ProcStates
<1>17. ASSUME NEW i \in Incs, Bind(i) PROVE UNCHANGED RegState
      BY <1>17 DEF Bind, BindSocket, managerVars, storageVars, callVars, Alive
<1>18. ASSUME NEW i \in Incs, Exit(i) PROVE UNCHANGED RegState
      BY <1>18 DEF Exit, ExitProcess, managerVars, storageVars, callVars, Alive
<1>19. CASE UNCHANGED vars
      BY <1>19 DEF vars, resourceVars, processVars
<1>20. ASSUME NEW i \in Incs, Reap(i) PROVE [Registry!RegNext]_RegState
      <2>1. CASE \E v \in VmIds : vms[v] = i /\ i \notin stopped
            <3>1. PICK v \in VmIds : vms[v] = i /\ i \notin stopped
                  BY <2>1
            <3>2. /\ proc[i] = "zombie" /\ proc' = [proc EXCEPT ![i] = "reaped"]
                  /\ vms' = vms /\ stopped' = stopped
                  BY <1>20 DEF Reap, ReapProcess, managerVars
            <3>3. RegState[v] = "running" /\ RegState'[v] = "stopped"
                  BY <3>1, <3>2
            <3>4. \A w \in VmIds : w # v => RegState'[w] = RegState[w]
                  BY <3>1, <3>2
            <3>5. RegState' = [RegState EXCEPT ![v] = "stopped"]
                  <4> HIDE DEF RegState
                  <4> QED
                      BY <3>3, <3>4, ReportedUpdate
            <3> QED
                BY <3>1, <3>3, <3>5 DEF Registry!RegNext, Registry!Stop
      <2>2. CASE ~\E v \in VmIds : vms[v] = i /\ i \notin stopped
            BY <1>20, <2>2 DEF Reap, ReapProcess, managerVars
      <2> QED
          BY <2>1, <2>2
<1>21. ASSUME NEW c \in Calls, MarkStopped(c) PROVE [Registry!RegNext]_RegState
      <2> DEFINE v == arg[c]
                 i == ptr[c]
      <2>1. i \in Incs /\ v \in VmIds /\ vmOf[i] = v
            BY <1>21 DEF MarkStopped, BeginPcs, CallInv
      <2>2. vms' = vms /\ proc' = proc /\ stopped' = stopped \cup {i}
            BY <1>21 DEF MarkStopped, resourceVars, processVars
      <2>3. CASE vms[v] = i /\ RegState[v] = "running"
            <3>1. RegState'[v] = "stopped"
                  BY <2>1, <2>2, <2>3
            <3>2. \A w \in VmIds : w # v => RegState'[w] = RegState[w]
                  BY <2>1, <2>2
            <3>3. RegState' = [RegState EXCEPT ![v] = "stopped"]
                  <4> HIDE DEF RegState
                  <4> QED
                      BY <2>1, <3>1, <3>2, ReportedUpdate
            <3> QED
                BY <2>1, <2>3, <3>3 DEF Registry!RegNext, Registry!Stop
      <2>4. CASE ~(vms[v] = i /\ RegState[v] = "running")
            BY <2>1, <2>2, <2>4
      <2> QED
          BY <2>3, <2>4
<1>22. ASSUME NEW c \in Calls, ApiPut(c) PROVE [Registry!RegNext]_RegState
      <2> DEFINE v == arg[c]
                 i == ptr[c]
      <2>1. CASE vms' = vms
            BY <1>22, <2>1 DEF ApiPut, resourceVars, processVars
      <2>2. CASE vms' # vms
            <3>1. /\ pc[c] = "startInstance"
                  /\ vms' = [vms EXCEPT ![v] = i]
                  /\ proc' = proc /\ stopped' = stopped
                  BY <1>22, <2>2 DEF ApiPut, resourceVars, processVars
            <3>2. v \in VmIds /\ i \in Incs /\ mu = c /\ vms[v] = None /\ tap[TapName[v]] = i
                  BY <3>1 DEF BeginPcs, ApiSteps, CreatePcs, LockInv, HoldsLock,
                     CallInv, CreateInv
            <3>3. \A w \in VmIds : TapName[w] = TapName[v] => vms[w] = None
                  BY <3>1, <3>2 DEF RegisteredHasTap, InProgress, BeginPcs, CallInv
            <3>4. RegState' = [RegState EXCEPT ![v] = IF ~IsRunning(i) \/ i \in stopped
                                                      THEN "stopped" ELSE "running"]
                  BY <3>1, <3>2
            <3>5. PICK w \in VmIds : w = v
                  BY <3>2
            <3>6. Registry!Create(w)
                  BY <3>2, <3>3, <3>4, <3>5 DEF Registry!Create
            <3> QED
                BY <3>6 DEF Registry!RegNext
      <2> QED
          BY <2>1, <2>2
<1>23. ASSUME NEW c \in Calls, DeleteStorage(c) PROVE [Registry!RegNext]_RegState
      <2> DEFINE v == arg[c]
      <2>1. v \in VmIds /\ proc' = proc /\ stopped' = stopped
            BY <1>23 DEF DeleteStorage
      <2>2. CASE op[c] = "delete"
            <3>1. RegState[v] # "absent"
                  BY <1>23, <2>1, <2>2 DEF DeleteStorage, LockInv, HoldsLock,
                     TeardownPcs, BeginPcs, DeleteInv
            <3>2. RegState' = [RegState EXCEPT ![v] = "absent"]
                  BY <1>23, <2>1, <2>2 DEF DeleteStorage
            <3> QED
                BY <2>1, <3>1, <3>2 DEF Registry!RegNext, Registry!Delete
      <2>3. CASE op[c] # "delete"
            BY <1>23, <2>1, <2>3 DEF DeleteStorage
      <2> QED
          BY <2>2, <2>3
<1>24. CASE Restart
      BY <1>24 DEF Restart, Registry!RegNext, Registry!LoseAgent
<1> QED
    BY <1>1, <1>2, <1>3, <1>4, <1>5, <1>6, <1>7, <1>8, <1>9, <1>10, <1>11, <1>12, <1>13,
       <1>14, <1>15, <1>16, <1>17, <1>18, <1>19, <1>20, <1>21, <1>22, <1>23, <1>24 DEF
       Next, Acquire, Step

(* The VM manager keeps the promise of VmRegistry: whatever the calls in   *)
(* flight, their failures and the exits of processes, a client sees a VM   *)
(* appear only under a free id and a free TAP name, and a VM reported      *)
(* stopped is never reported running again.                                *)
THEOREM Refinement == Spec => ImplementsRegistry
  BY InitRegistry, StepRegistry, Invariant, PTL DEF Spec, ImplementsRegistry,
     Registry!RegSpec
=============================================================================
