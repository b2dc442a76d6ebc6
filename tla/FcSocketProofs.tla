---------------------------- MODULE FcSocketProofs ---------------------------
(***************************************************************************)
(* Proofs about the socket files of FcManager: whose requests reach which  *)
(* process, and how a running VM can lose its socket file.  And about the  *)
(* directories that are left behind.                                       *)
(***************************************************************************)
EXTENDS FcManagerProofs

USE NoneAssumption, ModeAssumption, TapNameAssumption, NoCallAssumption

(* The socket file of a VM is where its directories are.                  *)
LEMMA SocketsApart ==
  ASSUME OwnDirs, NEW v \in VmIds, NEW w \in VmIds, v # w
  PROVE  /\ SockPath(v) # SockPath(w)
         /\ SockPath(v) \notin Under[VmPath[w]]
         /\ UseJailer => SockPath(v) \notin Under[JailCleanupPath[w]]
  BY OwnDirsApart DEF SockPath

LEMMA SockPathType == \A v \in VmIds : SockPath(v) \in Paths
  BY PathAssumption DEF SockPath

----------------------------------------------------------------------------
(* A bind is the only step that puts a socket file at a path.             *)
LEMMA NextSocketInv ==
  ASSUME IInv, SocketInv, [Next]_vars
  PROVE  SocketInv'
<1> USE DEF IInv, TypeInv, TypeOK, ProcessTypeOK, TapTypeOK, StorageTypeOK, CallTyped,
            CallInv, BeginPcs, CreatePcs, ApiSteps, KillPcs, TeardownPcs, StopPcs,
            LockOps, StopOps, Ops, LockInv, HoldsLock, SocketInv, SocketDir, CreateInv
<1>1. ASSUME NEW c \in Calls, NEW o \in Ops, NEW v \in VmIds, Call(c, o, v)
      PROVE  SocketInv'
      BY <1>1 DEF Call, resourceVars, processVars, storageVars
<1>2. ASSUME NEW c \in Calls, CreateBegin(c) PROVE SocketInv'
      BY <1>2 DEF CreateBegin, Return, Unborn, storageVars
<1>3. ASSUME NEW c \in Calls, DeleteBegin(c) PROVE SocketInv'
      BY <1>3 DEF DeleteBegin, Return, resourceVars, processVars, storageVars
<1>4. ASSUME NEW c \in Calls, StopBegin(c) PROVE SocketInv'
      BY <1>4 DEF StopBegin, Return, resourceVars, processVars, storageVars
<1>5. ASSUME NEW c \in Calls, MarkStopped(c) PROVE SocketInv'
      BY <1>5 DEF MarkStopped, Return, resourceVars, processVars, storageVars
<1>6. ASSUME NEW c \in Calls, PrepareStorage(c) PROVE SocketInv'
      BY <1>6 DEF PrepareStorage, Goto, Return, MakeVmDir, PrepareVMStorageFails,
         SetupJailDirectoryFails, processVars, storageVars
<1>7. ASSUME NEW c \in Calls, CreateTap(c) PROVE SocketInv'
      BY <1>7 DEF CreateTap, Goto, CreateTAPDevice, CreateTAPDeviceFails,
         CreateTAPDeviceLeaks, UndoStoragePc, processVars, storageVars
<1>8. ASSUME NEW c \in Calls, Spawn(c) PROVE SocketInv'
      BY <1>8 DEF Spawn, Goto, StartProcess, StartProcessFails, FillJail, PopulateJail,
         storageVars
<1>9. ASSUME NEW c \in Calls, Probe(c) PROVE SocketInv'
      BY <1>9 DEF Probe, Goto, resourceVars, processVars, storageVars
<1>10. ASSUME NEW c \in Calls, WaitSocket(c) PROVE SocketInv'
      BY <1>10 DEF WaitSocket, Goto, AbandonStart, processVars, storageVars
<1>11. ASSUME NEW c \in Calls, ApiPut(c) PROVE SocketInv'
      BY <1>11 DEF ApiPut, Goto, Return, ApiNext, resourceVars, processVars, storageVars
<1>12. ASSUME NEW c \in Calls, Kill(c) PROVE SocketInv'
      BY <1>12 DEF Kill, Goto, SigKill, AfterKill, storageVars
<1>13. ASSUME NEW c \in Calls, Unlink(c) PROVE SocketInv'
      BY <1>13 DEF Unlink, Goto, CloseAndRemove, AfterKill, storageVars
<1>14. ASSUME NEW c \in Calls, DeleteTap(c) PROVE SocketInv'
      BY <1>14 DEF DeleteTap, Goto, DeleteTAPDevice, DeleteTAPDeviceFails,
         UndoStoragePc, processVars, storageVars
<1>15. ASSUME NEW c \in Calls, DeleteJail(c) PROVE SocketInv'
      BY <1>15 DEF DeleteJail, Goto, CleanupJail, RemoveAll, CleanupFails, SocketsLeft,
         storageVars
<1>16. ASSUME NEW c \in Calls, DeleteStorage(c) PROVE SocketInv'
      BY <1>16 DEF DeleteStorage, Return, CleanupVMStorage, RemoveAll, CleanupFails,
         SocketsLeft, storageVars
<1>17. ASSUME NEW c \in Calls, CtrlAltDel(c) PROVE SocketInv'
      BY <1>17, CtrlAltDelStep DEF Goto, resourceVars, processVars, storageVars
<1>18. ASSUME NEW c \in Calls, Term(c) PROVE SocketInv'
      BY <1>18 DEF Term, Goto, resourceVars, processVars, storageVars
<1>19. ASSUME NEW c \in Calls, CheckTerm(c) PROVE SocketInv'
      BY <1>19 DEF CheckTerm, Goto, SigKill, storageVars
<1>20. ASSUME NEW i \in Incs, Bind(i) PROVE SocketInv'
      BY <1>20 DEF Bind, BindSocket, managerVars, storageVars, callVars
<1>21. ASSUME NEW i \in Incs, Exit(i) PROVE SocketInv'
      BY <1>21 DEF Exit, ExitProcess, managerVars, storageVars, callVars
<1>22. ASSUME NEW i \in Incs, Reap(i) PROVE SocketInv'
      BY <1>22 DEF Reap, ReapProcess, managerVars, storageVars, callVars
<1>23. CASE Restart
      BY <1>23 DEF Restart, Unborn, storageVars
<1>24. CASE UNCHANGED vars
      BY <1>24 DEF vars, resourceVars, processVars, storageVars, callVars
<1> HIDE DEF IInv, TypeInv, TypeOK, ProcessTypeOK, TapTypeOK, StorageTypeOK, CallTyped,
             CallInv, BeginPcs, CreatePcs, ApiSteps, KillPcs, TeardownPcs, StopPcs,
             LockOps, StopOps, Ops, LockInv, HoldsLock, SocketInv, SocketDir, CreateInv
<1> QED
    BY <1>1, <1>2, <1>3, <1>4, <1>5, <1>6, <1>7, <1>8, <1>9, <1>10, <1>11, <1>12, <1>13,
       <1>14, <1>15, <1>16, <1>17, <1>18, <1>19, <1>20, <1>21, <1>22, <1>23, <1>24 DEF
       Next, Acquire, Step

(* What a call gives up is past its kill, or was never started.            *)
LEMMA NextAbandonInv ==
  ASSUME IInv, AbandonInv, [Next]_vars
  PROVE  AbandonInv'
<1> USE DEF IInv, TypeInv, TypeOK, ProcessTypeOK, TapTypeOK, StorageTypeOK, CallTyped,
            CallInv, BeginPcs, CreatePcs, ApiSteps, KillPcs, TeardownPcs, StopPcs,
            LockOps, StopOps, Ops, LockInv, HoldsLock, AbandonInv, Registered, Alive,
            CreateInv, DeleteInv, TeardownInv, VmsInv
<1>1. ASSUME NEW c \in Calls, NEW o \in Ops, NEW v \in VmIds, Call(c, o, v)
      PROVE  AbandonInv'
      BY <1>1 DEF Call, resourceVars, processVars, storageVars
<1>2. ASSUME NEW c \in Calls, CreateBegin(c) PROVE AbandonInv'
      BY <1>2 DEF CreateBegin, Return, Unborn, storageVars
<1>3. ASSUME NEW c \in Calls, DeleteBegin(c) PROVE AbandonInv'
      BY <1>3 DEF DeleteBegin, Return, resourceVars, processVars, storageVars
<1>4. ASSUME NEW c \in Calls, StopBegin(c) PROVE AbandonInv'
      BY <1>4 DEF StopBegin, Return, resourceVars, processVars, storageVars
<1>5. ASSUME NEW c \in Calls, MarkStopped(c) PROVE AbandonInv'
      BY <1>5 DEF MarkStopped, Return, resourceVars, processVars, storageVars
<1>6. ASSUME NEW c \in Calls, PrepareStorage(c) PROVE AbandonInv'
      BY <1>6 DEF PrepareStorage, Goto, Return, MakeVmDir, PrepareVMStorageFails,
         SetupJailDirectoryFails, processVars, storageVars
<1>7. ASSUME NEW c \in Calls, CreateTap(c) PROVE AbandonInv'
      BY <1>7 DEF CreateTap, Goto, CreateTAPDevice, CreateTAPDeviceFails,
         CreateTAPDeviceLeaks, UndoStoragePc, processVars, storageVars
<1>8. ASSUME NEW c \in Calls, Spawn(c) PROVE AbandonInv'
      BY <1>8 DEF Spawn, Goto, StartProcess, StartProcessFails, FillJail, PopulateJail,
         storageVars
<1>9. ASSUME NEW c \in Calls, Probe(c) PROVE AbandonInv'
      BY <1>9 DEF Probe, Goto, resourceVars, processVars, storageVars
<1>10. ASSUME NEW c \in Calls, WaitSocket(c) PROVE AbandonInv'
      BY <1>10 DEF WaitSocket, Goto, AbandonStart, processVars, storageVars
<1>11. ASSUME NEW c \in Calls, ApiPut(c) PROVE AbandonInv'
      BY <1>11 DEF ApiPut, Goto, Return, ApiNext, resourceVars, processVars, storageVars
<1>12. ASSUME NEW c \in Calls, Kill(c) PROVE AbandonInv'
      BY <1>12 DEF Kill, Goto, SigKill, AfterKill, storageVars
<1>13. ASSUME NEW c \in Calls, Unlink(c) PROVE AbandonInv'
      BY <1>13 DEF Unlink, Goto, CloseAndRemove, AfterKill, storageVars
<1>14. ASSUME NEW c \in Calls, DeleteTap(c) PROVE AbandonInv'
      BY <1>14 DEF DeleteTap, Goto, DeleteTAPDevice, DeleteTAPDeviceFails,
         UndoStoragePc, processVars, storageVars
<1>15. ASSUME NEW c \in Calls, DeleteJail(c) PROVE AbandonInv'
      BY <1>15 DEF DeleteJail, Goto, CleanupJail, RemoveAll, CleanupFails, SocketsLeft,
         storageVars
<1>16. ASSUME NEW c \in Calls, DeleteStorage(c) PROVE AbandonInv'
      BY <1>16 DEF DeleteStorage, Return, CleanupVMStorage, RemoveAll, CleanupFails,
         SocketsLeft, storageVars
<1>17. ASSUME NEW c \in Calls, CtrlAltDel(c) PROVE AbandonInv'
      BY <1>17, CtrlAltDelStep DEF Goto, resourceVars, processVars, storageVars
<1>18. ASSUME NEW c \in Calls, Term(c) PROVE AbandonInv'
      BY <1>18 DEF Term, Goto, resourceVars, processVars, storageVars
<1>19. ASSUME NEW c \in Calls, CheckTerm(c) PROVE AbandonInv'
      BY <1>19 DEF CheckTerm, Goto, SigKill, storageVars
<1>20. ASSUME NEW i \in Incs, Bind(i) PROVE AbandonInv'
      BY <1>20 DEF Bind, BindSocket, managerVars, storageVars, callVars
<1>21. ASSUME NEW i \in Incs, Exit(i) PROVE AbandonInv'
      BY <1>21 DEF Exit, ExitProcess, managerVars, storageVars, callVars
<1>22. ASSUME NEW i \in Incs, Reap(i) PROVE AbandonInv'
      BY <1>22 DEF Reap, ReapProcess, managerVars, storageVars, callVars
<1>23. CASE Restart
      BY <1>23 DEF Restart, Unborn, storageVars
<1>24. CASE UNCHANGED vars
      BY <1>24 DEF vars, resourceVars, processVars, storageVars, callVars
<1> HIDE DEF IInv, TypeInv, TypeOK, ProcessTypeOK, TapTypeOK, StorageTypeOK, CallTyped,
             CallInv, BeginPcs, CreatePcs, ApiSteps, KillPcs, TeardownPcs, StopPcs,
             LockOps, StopOps, Ops, LockInv, HoldsLock, AbandonInv, Registered, Alive,
             CreateInv, DeleteInv, TeardownInv, VmsInv
<1> QED
    BY <1>1, <1>2, <1>3, <1>4, <1>5, <1>6, <1>7, <1>8, <1>9, <1>10, <1>11, <1>12, <1>13,
       <1>14, <1>15, <1>16, <1>17, <1>18, <1>19, <1>20, <1>21, <1>22, <1>23, <1>24 DEF
       Next, Acquire, Step

(* A directory loses its owner in a preparation that fails, or is removed. *)
LEMMA NextLeftDirInv ==
  ASSUME IInv, LeftDirInv, [Next]_vars
  PROVE  LeftDirInv'
<1> USE DEF IInv, TypeInv, TypeOK, ProcessTypeOK, TapTypeOK, StorageTypeOK, CallTyped,
            CallInv, BeginPcs, CreatePcs, ApiSteps, KillPcs, TeardownPcs, StopPcs,
            LockOps, StopOps, Ops, LockInv, HoldsLock, LeftDirInv, Alive, DirInv,
            Accounted, Registered, InProgress, CreateInv, DeleteInv, VmsInv
<1>1. ASSUME NEW c \in Calls, NEW o \in Ops, NEW v \in VmIds, Call(c, o, v)
      PROVE  LeftDirInv'
      BY <1>1 DEF Call, resourceVars, processVars, storageVars
<1>2. ASSUME NEW c \in Calls, CreateBegin(c) PROVE LeftDirInv'
      BY <1>2 DEF CreateBegin, Return, Unborn, storageVars
<1>3. ASSUME NEW c \in Calls, DeleteBegin(c) PROVE LeftDirInv'
      BY <1>3 DEF DeleteBegin, Return, resourceVars, processVars, storageVars
<1>4. ASSUME NEW c \in Calls, StopBegin(c) PROVE LeftDirInv'
      BY <1>4 DEF StopBegin, Return, resourceVars, processVars, storageVars
<1>5. ASSUME NEW c \in Calls, MarkStopped(c) PROVE LeftDirInv'
      BY <1>5 DEF MarkStopped, Return, resourceVars, processVars, storageVars
<1>6. ASSUME NEW c \in Calls, PrepareStorage(c) PROVE LeftDirInv'
      BY <1>6 DEF PrepareStorage, Goto, Return, MakeVmDir, PrepareVMStorageFails,
         SetupJailDirectoryFails, processVars, storageVars
<1>7. ASSUME NEW c \in Calls, CreateTap(c) PROVE LeftDirInv'
      BY <1>7 DEF CreateTap, Goto, CreateTAPDevice, CreateTAPDeviceFails,
         CreateTAPDeviceLeaks, UndoStoragePc, processVars, storageVars
<1>8. ASSUME NEW c \in Calls, Spawn(c) PROVE LeftDirInv'
      BY <1>8 DEF Spawn, Goto, StartProcess, StartProcessFails, FillJail, PopulateJail,
         storageVars
<1>9. ASSUME NEW c \in Calls, Probe(c) PROVE LeftDirInv'
      BY <1>9 DEF Probe, Goto, resourceVars, processVars, storageVars
<1>10. ASSUME NEW c \in Calls, WaitSocket(c) PROVE LeftDirInv'
      BY <1>10 DEF WaitSocket, Goto, AbandonStart, processVars, storageVars
<1>11. ASSUME NEW c \in Calls, ApiPut(c) PROVE LeftDirInv'
      BY <1>11 DEF ApiPut, Goto, Return, ApiNext, resourceVars, processVars, storageVars
<1>12. ASSUME NEW c \in Calls, Kill(c) PROVE LeftDirInv'
      BY <1>12 DEF Kill, Goto, SigKill, AfterKill, storageVars
<1>13. ASSUME NEW c \in Calls, Unlink(c) PROVE LeftDirInv'
      BY <1>13 DEF Unlink, Goto, CloseAndRemove, AfterKill, storageVars
<1>14. ASSUME NEW c \in Calls, DeleteTap(c) PROVE LeftDirInv'
      BY <1>14 DEF DeleteTap, Goto, DeleteTAPDevice, DeleteTAPDeviceFails,
         UndoStoragePc, processVars, storageVars
<1>15. ASSUME NEW c \in Calls, DeleteJail(c) PROVE LeftDirInv'
      BY <1>15 DEF DeleteJail, Goto, CleanupJail, RemoveAll, CleanupFails, SocketsLeft,
         storageVars
<1>16. ASSUME NEW c \in Calls, DeleteStorage(c) PROVE LeftDirInv'
      BY <1>16, PathAssumption, RemovalAssumption DEF DeleteStorage, Return,
         CleanupVMStorage, RemoveAll, CleanupFails, SocketsLeft, storageVars
<1>17. ASSUME NEW c \in Calls, CtrlAltDel(c) PROVE LeftDirInv'
      BY <1>17, CtrlAltDelStep DEF Goto, resourceVars, processVars, storageVars
<1>18. ASSUME NEW c \in Calls, Term(c) PROVE LeftDirInv'
      BY <1>18 DEF Term, Goto, resourceVars, processVars, storageVars
<1>19. ASSUME NEW c \in Calls, CheckTerm(c) PROVE LeftDirInv'
      BY <1>19 DEF CheckTerm, Goto, SigKill, storageVars
<1>20. ASSUME NEW i \in Incs, Bind(i) PROVE LeftDirInv'
      BY <1>20 DEF Bind, BindSocket, managerVars, storageVars, callVars
<1>21. ASSUME NEW i \in Incs, Exit(i) PROVE LeftDirInv'
      BY <1>21 DEF Exit, ExitProcess, managerVars, storageVars, callVars
<1>22. ASSUME NEW i \in Incs, Reap(i) PROVE LeftDirInv'
      BY <1>22 DEF Reap, ReapProcess, managerVars, storageVars, callVars
<1>23. CASE Restart
      BY <1>23 DEF Restart, Unborn, storageVars
<1>24. CASE UNCHANGED vars
      BY <1>24 DEF vars, resourceVars, processVars, storageVars, callVars
<1> HIDE DEF IInv, TypeInv, TypeOK, ProcessTypeOK, TapTypeOK, StorageTypeOK, CallTyped,
             CallInv, BeginPcs, CreatePcs, ApiSteps, KillPcs, TeardownPcs, StopPcs,
             LockOps, StopOps, Ops, LockInv, HoldsLock, LeftDirInv, Alive, DirInv,
             Accounted, Registered, InProgress, CreateInv, DeleteInv, VmsInv
<1> QED
    BY <1>1, <1>2, <1>3, <1>4, <1>5, <1>6, <1>7, <1>8, <1>9, <1>10, <1>11, <1>12, <1>13,
       <1>14, <1>15, <1>16, <1>17, <1>18, <1>19, <1>20, <1>21, <1>22, <1>23, <1>24 DEF
       Next, Acquire, Step

(* While no StopVM is stale, nothing removes the socket file of a process  *)
(* that runs.                                                              *)
LEMMA NextServeInv ==
  ASSUME IInv, AbandonInv, SocketInv, ServeInv, NoStaleStop, OwnDirs, [Next]_vars
  PROVE  ServeInv'
<1> USE DEF IInv, TypeInv, TypeOK, ProcessTypeOK, TapTypeOK, StorageTypeOK, CallTyped,
            CallInv, BeginPcs, CreatePcs, ApiSteps, KillPcs, TeardownPcs, StopPcs,
            LockOps, StopOps, Ops, LockInv, HoldsLock, ServeInv, AbandonInv, SocketInv,
            NoStaleStop, StaleStop, Alive, ProcInv, Accounted, Registered, InProgress,
            CreateInv, DeleteInv, TeardownInv, StopInv, Dead, VmsInv
<1>1. ASSUME NEW c \in Calls, NEW o \in Ops, NEW v \in VmIds, Call(c, o, v)
      PROVE  ServeInv'
      BY <1>1 DEF Call, resourceVars, processVars, storageVars
<1>2. ASSUME NEW c \in Calls, CreateBegin(c) PROVE ServeInv'
      BY <1>2 DEF CreateBegin, Return, Unborn, storageVars
<1>3. ASSUME NEW c \in Calls, DeleteBegin(c) PROVE ServeInv'
      BY <1>3 DEF DeleteBegin, Return, resourceVars, processVars, storageVars
<1>4. ASSUME NEW c \in Calls, StopBegin(c) PROVE ServeInv'
      BY <1>4 DEF StopBegin, Return, resourceVars, processVars, storageVars
<1>5. ASSUME NEW c \in Calls, MarkStopped(c) PROVE ServeInv'
      BY <1>5 DEF MarkStopped, Return, resourceVars, processVars, storageVars
<1>6. ASSUME NEW c \in Calls, PrepareStorage(c) PROVE ServeInv'
      BY <1>6 DEF PrepareStorage, Goto, Return, MakeVmDir, PrepareVMStorageFails,
         SetupJailDirectoryFails, processVars, storageVars
<1>7. ASSUME NEW c \in Calls, CreateTap(c) PROVE ServeInv'
      BY <1>7 DEF CreateTap, Goto, CreateTAPDevice, CreateTAPDeviceFails,
         CreateTAPDeviceLeaks, UndoStoragePc, processVars, storageVars
<1>8. ASSUME NEW c \in Calls, Spawn(c) PROVE ServeInv'
      BY <1>8, SockPathType, SocketsApart DEF Spawn, Goto, StartProcess,
         StartProcessFails, FillJail, PopulateJail, storageVars
<1>9. ASSUME NEW c \in Calls, Probe(c) PROVE ServeInv'
      BY <1>9 DEF Probe, Goto, resourceVars, processVars, storageVars
<1>10. ASSUME NEW c \in Calls, WaitSocket(c) PROVE ServeInv'
      BY <1>10 DEF WaitSocket, Goto, AbandonStart, processVars, storageVars
<1>11. ASSUME NEW c \in Calls, ApiPut(c) PROVE ServeInv'
      BY <1>11 DEF ApiPut, Goto, Return, ApiNext, resourceVars, processVars, storageVars
<1>12. ASSUME NEW c \in Calls, Kill(c) PROVE ServeInv'
      BY <1>12 DEF Kill, Goto, SigKill, AfterKill, storageVars
<1>13. ASSUME NEW c \in Calls, Unlink(c) PROVE ServeInv'
      BY <1>13, SockPathType, SocketsApart DEF Unlink, Goto, CloseAndRemove, AfterKill,
         storageVars
<1>14. ASSUME NEW c \in Calls, DeleteTap(c) PROVE ServeInv'
      BY <1>14 DEF DeleteTap, Goto, DeleteTAPDevice, DeleteTAPDeviceFails,
         UndoStoragePc, processVars, storageVars
<1>15. ASSUME NEW c \in Calls, DeleteJail(c) PROVE ServeInv'
      <2>1. /\ mu = c /\ UNCHANGED <<vmOf, proc>> /\ abandoned \subseteq abandoned'
            /\ arg[c] \in VmIds /\ ptr[c] \in Incs /\ ptr[c] # None
            BY <1>15 DEF DeleteJail
      <2>2. \A v \in VmIds : v # arg[c] => sock'[SockPath(v)] = sock[SockPath(v)]
            BY <1>15, <2>1, SockPathType, SocketsApart DEF DeleteJail, CleanupJail,
               RemoveAll, CleanupFails, SocketsLeft, SocketDir, storageVars
      <2>3. \A i \in Incs \ abandoned : proc[i] = "running" => vmOf[i] # arg[c]
            <3> SUFFICES ASSUME NEW i \in Incs \ abandoned, proc[i] = "running", vmOf[i] = arg[c]
                         PROVE  FALSE
                OBVIOUS
            <3>1. i # ptr[c]
                  BY <1>15 DEF DeleteJail
            <3>2. vms[arg[c]] = i
                  BY <2>1, <3>1
            <3>3. op[c] = "delete" \/ op[c] = "create"
                  BY <1>15 DEF DeleteJail
            <3> QED
                BY <2>1, <3>1, <3>2, <3>3
      <2> QED
          BY <2>1, <2>2, <2>3
<1>16. ASSUME NEW c \in Calls, DeleteStorage(c) PROVE ServeInv'
      <2>1. /\ mu = c /\ UNCHANGED <<vmOf, proc>> /\ abandoned \subseteq abandoned'
            /\ arg[c] \in VmIds /\ ptr[c] \in Incs /\ ptr[c] # None
            BY <1>16 DEF DeleteStorage
      <2>2. \A v \in VmIds : v # arg[c] => sock'[SockPath(v)] = sock[SockPath(v)]
            BY <1>16, <2>1, SockPathType, SocketsApart DEF DeleteStorage,
               CleanupVMStorage, RemoveAll, CleanupFails, SocketsLeft, SocketDir,
               storageVars
      <2>3. \A i \in Incs \ abandoned : proc[i] = "running" => vmOf[i] # arg[c]
            <3> SUFFICES ASSUME NEW i \in Incs \ abandoned, proc[i] = "running", vmOf[i] = arg[c]
                         PROVE  FALSE
                OBVIOUS
            <3>1. i # ptr[c]
                  BY <1>16 DEF DeleteStorage
            <3>2. vms[arg[c]] = i
                  BY <2>1, <3>1
            <3>3. op[c] = "delete" \/ op[c] = "create"
                  BY <1>16 DEF DeleteStorage
            <3> QED
                BY <2>1, <3>1, <3>2, <3>3
      <2> QED
          BY <2>1, <2>2, <2>3
<1>17. ASSUME NEW c \in Calls, CtrlAltDel(c) PROVE ServeInv'
      BY <1>17, CtrlAltDelStep DEF Goto, resourceVars, processVars, storageVars
<1>18. ASSUME NEW c \in Calls, Term(c) PROVE ServeInv'
      BY <1>18 DEF Term, Goto, resourceVars, processVars, storageVars
<1>19. ASSUME NEW c \in Calls, CheckTerm(c) PROVE ServeInv'
      BY <1>19 DEF CheckTerm, Goto, SigKill, storageVars
<1>20. ASSUME NEW i \in Incs, Bind(i) PROVE ServeInv'
      BY <1>20, SockPathType, SocketsApart DEF Bind, BindSocket, managerVars,
         storageVars, callVars
<1>21. ASSUME NEW i \in Incs, Exit(i) PROVE ServeInv'
      BY <1>21 DEF Exit, ExitProcess, managerVars, storageVars, callVars
<1>22. ASSUME NEW i \in Incs, Reap(i) PROVE ServeInv'
      BY <1>22 DEF Reap, ReapProcess, managerVars, storageVars, callVars
<1>23. CASE Restart
      BY <1>23 DEF Restart, Unborn, storageVars
<1>24. CASE UNCHANGED vars
      BY <1>24 DEF vars, resourceVars, processVars, storageVars, callVars
<1> HIDE DEF IInv, TypeInv, TypeOK, ProcessTypeOK, TapTypeOK, StorageTypeOK, CallTyped,
             CallInv, BeginPcs, CreatePcs, ApiSteps, KillPcs, TeardownPcs, StopPcs,
             LockOps, StopOps, Ops, LockInv, HoldsLock, ServeInv, AbandonInv, SocketInv,
             NoStaleStop, StaleStop, Alive, ProcInv, Accounted, Registered, InProgress,
             CreateInv, DeleteInv, TeardownInv, StopInv, Dead, VmsInv
<1> QED
    BY <1>1, <1>2, <1>3, <1>4, <1>5, <1>6, <1>7, <1>8, <1>9, <1>10, <1>11, <1>12, <1>13,
       <1>14, <1>15, <1>16, <1>17, <1>18, <1>19, <1>20, <1>21, <1>22, <1>23, <1>24 DEF
       Next, Acquire, Step

(* No other call comes between the steps of a lone StopVM.                 *)
LEMMA NextFreshStop ==
  ASSUME IInv, FreshStop, \A c, d \in Calls : c = d, [Next]_vars
  PROVE  FreshStop'
<1> USE DEF IInv, TypeInv, TypeOK, ProcessTypeOK, TapTypeOK, StorageTypeOK, CallTyped,
            CallInv, BeginPcs, CreatePcs, ApiSteps, KillPcs, TeardownPcs, StopPcs,
            LockOps, StopOps, Ops, LockInv, HoldsLock, FreshStop
<1>1. ASSUME NEW c \in Calls, NEW o \in Ops, NEW v \in VmIds, Call(c, o, v)
      PROVE  FreshStop'
      BY <1>1 DEF Call, resourceVars, processVars, storageVars
<1>2. ASSUME NEW c \in Calls, CreateBegin(c) PROVE FreshStop'
      BY <1>2 DEF CreateBegin, Return, Unborn, storageVars
<1>3. ASSUME NEW c \in Calls, DeleteBegin(c) PROVE FreshStop'
      BY <1>3 DEF DeleteBegin, Return, resourceVars, processVars, storageVars
<1>4. ASSUME NEW c \in Calls, StopBegin(c) PROVE FreshStop'
      BY <1>4 DEF StopBegin, Return, resourceVars, processVars, storageVars
<1>5. ASSUME NEW c \in Calls, MarkStopped(c) PROVE FreshStop'
      BY <1>5 DEF MarkStopped, Return, resourceVars, processVars, storageVars
<1>6. ASSUME NEW c \in Calls, PrepareStorage(c) PROVE FreshStop'
      BY <1>6 DEF PrepareStorage, Goto, Return, MakeVmDir, PrepareVMStorageFails,
         SetupJailDirectoryFails, processVars, storageVars
<1>7. ASSUME NEW c \in Calls, CreateTap(c) PROVE FreshStop'
      BY <1>7 DEF CreateTap, Goto, CreateTAPDevice, CreateTAPDeviceFails,
         CreateTAPDeviceLeaks, UndoStoragePc, processVars, storageVars
<1>8. ASSUME NEW c \in Calls, Spawn(c) PROVE FreshStop'
      BY <1>8 DEF Spawn, Goto, StartProcess, StartProcessFails, FillJail, PopulateJail,
         storageVars
<1>9. ASSUME NEW c \in Calls, Probe(c) PROVE FreshStop'
      BY <1>9 DEF Probe, Goto, resourceVars, processVars, storageVars
<1>10. ASSUME NEW c \in Calls, WaitSocket(c) PROVE FreshStop'
      BY <1>10 DEF WaitSocket, Goto, AbandonStart, processVars, storageVars
<1>11. ASSUME NEW c \in Calls, ApiPut(c) PROVE FreshStop'
      BY <1>11 DEF ApiPut, Goto, Return, ApiNext, resourceVars, processVars, storageVars
<1>12. ASSUME NEW c \in Calls, Kill(c) PROVE FreshStop'
      BY <1>12 DEF Kill, Goto, SigKill, AfterKill, storageVars
<1>13. ASSUME NEW c \in Calls, Unlink(c) PROVE FreshStop'
      BY <1>13 DEF Unlink, Goto, CloseAndRemove, AfterKill, storageVars
<1>14. ASSUME NEW c \in Calls, DeleteTap(c) PROVE FreshStop'
      BY <1>14 DEF DeleteTap, Goto, DeleteTAPDevice, DeleteTAPDeviceFails,
         UndoStoragePc, processVars, storageVars
<1>15. ASSUME NEW c \in Calls, DeleteJail(c) PROVE FreshStop'
      BY <1>15 DEF DeleteJail, Goto, CleanupJail, RemoveAll, CleanupFails, SocketsLeft,
         storageVars
<1>16. ASSUME NEW c \in Calls, DeleteStorage(c) PROVE FreshStop'
      BY <1>16 DEF DeleteStorage, Return, CleanupVMStorage, RemoveAll, CleanupFails,
         SocketsLeft, storageVars
<1>17. ASSUME NEW c \in Calls, CtrlAltDel(c) PROVE FreshStop'
      BY <1>17, CtrlAltDelStep DEF Goto, resourceVars, processVars, storageVars
<1>18. ASSUME NEW c \in Calls, Term(c) PROVE FreshStop'
      BY <1>18 DEF Term, Goto, resourceVars, processVars, storageVars
<1>19. ASSUME NEW c \in Calls, CheckTerm(c) PROVE FreshStop'
      BY <1>19 DEF CheckTerm, Goto, SigKill, storageVars
<1>20. ASSUME NEW i \in Incs, Bind(i) PROVE FreshStop'
      BY <1>20 DEF Bind, BindSocket, managerVars, storageVars, callVars
<1>21. ASSUME NEW i \in Incs, Exit(i) PROVE FreshStop'
      BY <1>21 DEF Exit, ExitProcess, managerVars, storageVars, callVars
<1>22. ASSUME NEW i \in Incs, Reap(i) PROVE FreshStop'
      BY <1>22 DEF Reap, ReapProcess, managerVars, storageVars, callVars
<1>23. CASE Restart
      BY <1>23 DEF Restart, Unborn, storageVars
<1>24. CASE UNCHANGED vars
      BY <1>24 DEF vars, resourceVars, processVars, storageVars, callVars
<1> HIDE DEF IInv, TypeInv, TypeOK, ProcessTypeOK, TapTypeOK, StorageTypeOK, CallTyped,
             CallInv, BeginPcs, CreatePcs, ApiSteps, KillPcs, TeardownPcs, StopPcs,
             LockOps, StopOps, Ops, LockInv, HoldsLock, FreshStop
<1> QED
    BY <1>1, <1>2, <1>3, <1>4, <1>5, <1>6, <1>7, <1>8, <1>9, <1>10, <1>11, <1>12, <1>13,
       <1>14, <1>15, <1>16, <1>17, <1>18, <1>19, <1>20, <1>21, <1>22, <1>23, <1>24 DEF
       Next, Acquire, Step

----------------------------------------------------------------------------
SocketTypes == IInv /\ SocketInv /\ AbandonInv

LEMMA InitSockets == Init => SocketTypes /\ ServeInv /\ FreshStop /\ LeftDirInv
<1> SUFFICES ASSUME Init
             PROVE  SocketTypes /\ ServeInv /\ FreshStop /\ LeftDirInv
    OBVIOUS
<1>1. IInv
      BY InitIInv
<1>2. SocketInv /\ AbandonInv /\ ServeInv
      BY DEF Init, ProcessInit, SocketInv, AbandonInv, ServeInv, CreatePcs, ApiSteps
<1>3. FreshStop /\ LeftDirInv
      BY DEF Init, StorageInit, FreshStop, LeftDirInv, KillPcs, StopPcs
<1> QED
    BY <1>1, <1>2, <1>3 DEF SocketTypes

(* Socket files belong to VMs of their id, and nothing given up serves.    *)
THEOREM SocketsOwned == Spec => []SocketTypes
<1>1. Init => SocketTypes
      BY InitSockets
<1>2. SocketTypes /\ [Next]_vars => SocketTypes'
      BY NextIInv, NextSocketInv, NextAbandonInv DEF SocketTypes
<1> QED
    BY <1>1, <1>2, PTL DEF Spec

(* Of VMs with directories of their own: the PUT requests of CreateVM      *)
(* (manager.go, configureVM and InstanceStart) are answered by the process *)
(* this CreateVM started, or by none.                                      *)
THEOREM OwnRequests ==
  ASSUME OwnDirs
  PROVE  Spec => []RequestsReachOwn
<1>1. SocketTypes => RequestsReachOwn
      <2> SUFFICES ASSUME SocketTypes, NEW c \in Calls, pc[c] \in ApiSteps,
                          NEW j \in ClientReaches(ptr[c], pc[c] # "bootSource")
                   PROVE  j = ptr[c]
          BY DEF RequestsReachOwn
      <2>1. /\ j \in Incs /\ proc[j] = "running"
            /\ j = ptr[c] \/ sock[SockPath(vmOf[ptr[c]])] = j
            BY DEF ClientReaches
      <2>2. /\ arg[c] \in VmIds /\ vmOf[ptr[c]] = arg[c] /\ op[c] = "create" /\ HoldsLock(c)
            /\ j # None
            BY <2>1 DEF SocketTypes, IInv, TypeInv, CallTyped, CallInv, BeginPcs,
               CreatePcs, ApiSteps, HoldsLock
      <2>3. tap[TapName[arg[c]]] = ptr[c]
            BY <2>2 DEF SocketTypes, IInv, CreateInv
      <2>4. CASE sock[SockPath(arg[c])] = j
            <3>1. vmOf[j] # None /\ SockPath(vmOf[j]) = SockPath(arg[c])
                  BY <2>2, <2>4, SockPathType DEF SocketTypes, SocketInv
            <3>2. vmOf[j] \in VmIds
                  BY <2>1, <3>1 DEF SocketTypes, IInv, TypeInv, TypeOK, ProcessTypeOK
            <3>3. vmOf[j] = arg[c]
                  BY <2>2, <3>1, <3>2, SocketsApart
            <3>4. tap[TapName[vmOf[j]]] = j
                  BY <2>1 DEF SocketTypes, IInv, ProcInv, Alive
            <3> QED
                BY <2>3, <3>3, <3>4
      <2> QED
          BY <2>1, <2>2, <2>4
<1> QED
    BY <1>1, SocketsOwned, PTL

(* A directory that is left behind is that of a creation that failed in    *)
(* PrepareVMStorage, before anything was started, if CleanupJail looks for *)
(* the jails where they are.                                               *)
THEOREM LeftDirsOfFailedStarts ==
  ASSUME JailsFound
  PROVE  Spec => []LeftDirsNeverRan
<1>1. Init => LeftDirInv
      BY InitSockets
<1>2. IInv /\ LeftDirInv /\ [Next]_vars => LeftDirInv'
      BY NextLeftDirInv
<1>3. IInv /\ LeftDirInv => LeftDirsNeverRan
      <2> SUFFICES ASSUME IInv, LeftDirInv, NEW p \in Paths
                   PROVE  /\ Accounted(vmDir[p]) \/ (~UseJailer /\ proc[vmDir[p]] = "none")
                          /\ Accounted(jailDir[p])
          BY DEF LeftDirsNeverRan
      <2>1. Accounted(None)
            BY DEF Accounted
      <2>2. Accounted(jailDir[p])
            BY <2>1 DEF IInv, DirInv
      <2>3. Accounted(vmDir[p]) \/ (~UseJailer /\ proc[vmDir[p]] = "none")
            BY <2>1 DEF LeftDirInv
      <2> QED
          BY <2>2, <2>3
<1> QED
    BY <1>1, <1>2, <1>3, Invariant, PTL DEF Spec

----------------------------------------------------------------------------
(* The steps that change what is at a socket path.                         *)
LEMMA SocketSteps ==
  ASSUME TypeInv, [Next]_vars
  PROVE  \/ \E c \in Calls : Spawn(c) \/ Unlink(c) \/ DeleteJail(c) \/ DeleteStorage(c)
         \/ \E i \in Incs : Bind(i)
         \/ UNCHANGED sock
<1>1. ASSUME NEW c \in Calls, NEW o \in Ops, NEW v \in VmIds, Call(c, o, v)
      PROVE  UNCHANGED sock
      BY <1>1 DEF Call, resourceVars, processVars
<1>2. ASSUME NEW c \in Calls, CreateBegin(c) PROVE UNCHANGED sock
      BY <1>2 DEF CreateBegin, resourceVars, processVars
<1>3. ASSUME NEW c \in Calls, DeleteBegin(c) PROVE UNCHANGED sock
      BY <1>3 DEF DeleteBegin, resourceVars, processVars
<1>4. ASSUME NEW c \in Calls, StopBegin(c) PROVE UNCHANGED sock
      BY <1>4 DEF StopBegin, resourceVars, processVars
<1>5. ASSUME NEW c \in Calls, MarkStopped(c) PROVE UNCHANGED sock
      BY <1>5 DEF MarkStopped, resourceVars, processVars
<1>6. ASSUME NEW c \in Calls, PrepareStorage(c) PROVE UNCHANGED sock
      BY <1>6 DEF PrepareStorage, resourceVars, processVars
<1>7. ASSUME NEW c \in Calls, CreateTap(c) PROVE UNCHANGED sock
      BY <1>7 DEF CreateTap, resourceVars, processVars
<1>8. ASSUME NEW c \in Calls, Probe(c) PROVE UNCHANGED sock
      BY <1>8 DEF Probe, resourceVars, processVars
<1>9. ASSUME NEW c \in Calls, ApiPut(c) PROVE UNCHANGED sock
      BY <1>9 DEF ApiPut, resourceVars, processVars
<1>10. ASSUME NEW c \in Calls, DeleteTap(c) PROVE UNCHANGED sock
      BY <1>10 DEF DeleteTap, resourceVars, processVars
<1>11. ASSUME NEW c \in Calls, CtrlAltDel(c) PROVE UNCHANGED sock
      BY <1>11, CtrlAltDelStep DEF resourceVars, processVars
<1>12. ASSUME NEW c \in Calls, Term(c) PROVE UNCHANGED sock
      BY <1>12 DEF Term, resourceVars, processVars
<1>13. ASSUME NEW c \in Calls, WaitSocket(c) PROVE UNCHANGED sock
      BY <1>13 DEF WaitSocket, AbandonStart, processVars
<1>14. ASSUME NEW c \in Calls, Kill(c) PROVE UNCHANGED sock
      BY <1>14 DEF Kill, SigKill
<1>15. ASSUME NEW c \in Calls, CheckTerm(c) PROVE UNCHANGED sock
      BY <1>15 DEF CheckTerm, SigKill
<1>16. ASSUME NEW i \in Incs, Exit(i) PROVE UNCHANGED sock
      BY <1>16 DEF Exit, ExitProcess
<1>17. ASSUME NEW i \in Incs, Reap(i) PROVE UNCHANGED sock
      BY <1>17 DEF Reap, ReapProcess
<1>18. CASE Restart
      BY <1>18 DEF Restart
<1>19. CASE UNCHANGED vars
      BY <1>19 DEF vars, resourceVars, processVars
<1> QED
    BY <1>1, <1>2, <1>3, <1>4, <1>5, <1>6, <1>7, <1>8, <1>9, <1>10, <1>11, <1>12, <1>13,
       <1>14, <1>15, <1>16, <1>17, <1>18, <1>19
       DEF Next, Acquire, Step

(* Whoever removes a running VM's socket file is a stale StopVM.           *)
LEMMA SocketLost ==
  ASSUME IInv, SocketInv, OwnDirs, [Next]_vars,
         NEW v \in VmIds, vms[v] # None, proc[vms[v]] = "running",
         sock[SockPath(v)] = vms[v], sock'[SockPath(v)] # sock[SockPath(v)]
  PROVE  \E c \in Calls : StaleStop(c) /\ arg[c] = v
<1> USE DEF IInv, TypeInv, TypeOK, ProcessTypeOK, CallTyped, CallInv, LockInv, HoldsLock,
            BeginPcs, CreatePcs, ApiSteps, KillPcs, TeardownPcs, LockOps, StopOps, CreateInv,
            DeleteInv, TeardownInv, StopInv, Dead, VmsInv, Alive
<1>1. ASSUME NEW c \in Calls, Spawn(c) PROVE FALSE
      BY <1>1, SockPathType, SocketsApart DEF Spawn, StartProcess, StartProcessFails
<1>2. ASSUME NEW c \in Calls, Unlink(c) PROVE StaleStop(c) /\ arg[c] = v
      <2>1. /\ arg[c] = v /\ vmOf[ptr[c]] = v /\ ptr[c] # vms[v] /\ pc[c] = "unlink"
            /\ op[c] \in Ops
            BY <1>2, SockPathType, SocketsApart DEF Unlink, CloseAndRemove
      <2>2. op[c] \notin LockOps
            <3>1. HoldsLock(c) => mu = c
                  OBVIOUS
            <3> QED
                BY <2>1, <3>1
      <2>3. op[c] \in {"stop", "forceStop"}
            BY <2>1, <2>2 DEF Ops
      <2>4. vms[v] \in Incs /\ vms[v] # ptr[c] /\ vmOf[vms[v]] = arg[c] /\ Registered(vms[v])
            BY <2>1 DEF Registered
      <2> HIDE DEF IInv
      <2> QED
          BY <2>1, <2>3, <2>4 DEF StaleStop
<1>3. ASSUME NEW c \in Calls, DeleteJail(c) PROVE FALSE
      <2>1. v = arg[c]
            BY <1>3, SockPathType, SocketsApart DEF DeleteJail, CleanupJail, RemoveAll,
               CleanupFails, SocketsLeft, SocketDir, SocketInv, StorageTypeOK,
               storageVars
      <2> QED
          BY <1>3, <2>1 DEF DeleteJail
<1>4. ASSUME NEW c \in Calls, DeleteStorage(c) PROVE FALSE
      <2>1. v = arg[c]
            BY <1>4, SockPathType, SocketsApart DEF DeleteStorage, CleanupVMStorage,
               RemoveAll, CleanupFails, SocketsLeft, SocketDir, SocketInv,
               StorageTypeOK, storageVars
      <2> QED
          BY <1>4, <2>1 DEF DeleteStorage
<1>5. ASSUME NEW i \in Incs, Bind(i) PROVE FALSE
      BY <1>5 DEF Bind, BindSocket
<1> HIDE DEF IInv, TypeInv
<1>6. TypeInv
      BY DEF IInv
<1> QED
    BY SocketSteps, <1>1, <1>2, <1>3, <1>4, <1>5, <1>6

(* A running VM of this agent whose directories are its own loses its      *)
(* socket file only to a StopVM that looked up an earlier VM of the id and *)
(* finishes late (manager.go, StopVM between RUnlock and Lock).            *)
THEOREM SocketsLostToStaleStops ==
  ASSUME OwnDirs
  PROVE  Spec => OnlyStaleStopUnlinks
<1>1. SocketTypes /\ [Next]_vars =>
        [\A v \in VmIds :
           LET i == vms[v] IN
             i # None /\ proc[i] = "running" /\ sock[SockPath(v)] = i /\ sock'[SockPath(v)] # i
             => \E c \in Calls : StaleStop(c) /\ arg[c] = v]_vars
      BY SocketLost DEF SocketTypes
<1> QED
    BY <1>1, SocketsOwned, PTL DEF Spec, OnlyStaleStopUnlinks

----------------------------------------------------------------------------
LEMMA ServedIsReachable ==
  ASSUME SocketTypes, ServeInv
  PROVE  SocketReachable
<1> SUFFICES ASSUME NEW i \in Incs, Registered(i), proc[i] = "running"
             PROVE  sock[SockPath(vmOf[i])] = i
    BY DEF SocketReachable
<1>1. i \notin abandoned
      BY DEF SocketTypes, AbandonInv, Alive
<1> QED
    BY <1>1 DEF ServeInv

(* In an execution in which no StopVM comes to remove a socket file whose  *)
(* id has meanwhile been given to another VM, the path GetVM reports for a *)
(* running VM always leads to its process, whatever calls fail or overlap  *)
(* and however often the agent was restarted, if no id's directories are   *)
(* another's.                                                              *)
THEOREM SocketsReachable ==
  ASSUME OwnDirs
  PROVE  Spec /\ []NoStaleStop => []SocketReachable
<1>1. Init => ServeInv
      BY InitSockets
<1>2. SocketTypes /\ NoStaleStop /\ ServeInv /\ [Next]_vars => ServeInv'
      BY NextServeInv DEF SocketTypes
<1>3. SocketTypes /\ ServeInv => SocketReachable
      BY ServedIsReachable
<1> QED
    BY <1>1, <1>2, <1>3, SocketsOwned, PTL DEF Spec

LEMMA LoneStopIsFresh ==
  ASSUME IInv, FreshStop, \A c, d \in Calls : c = d
  PROVE  NoStaleStop
<1> SUFFICES ASSUME NEW c \in Calls, pc[c] = "unlink", op[c] \in StopOps,
                    NEW i \in Incs, i # ptr[c], vmOf[i] = arg[c],
                    Registered(i) \/ InProgress(i)
             PROVE  FALSE
    BY DEF NoStaleStop, StaleStop, StopOps
<1>1. vms[arg[c]] = ptr[c]
      BY DEF FreshStop, KillPcs
<1>2. ~HoldsLock(c)
      BY DEF HoldsLock, StopOps, CreatePcs, ApiSteps, TeardownPcs, KillPcs
<1>3. mu = None
      BY <1>2 DEF IInv, TypeInv, TypeOK, LockInv
<1> QED
    BY <1>1, <1>3 DEF Registered, InProgress

(* An agent that gets its requests one after the other has no stale stop,  *)
(* so VMs with directories of their own are always reachable.              *)
THEOREM SequentialReachable ==
  ASSUME OwnDirs, \A c, d \in Calls : c = d
  PROVE  Spec => []SocketReachable
<1>1. Init => FreshStop
      BY InitSockets
<1>2. IInv /\ FreshStop /\ [Next]_vars => FreshStop'
      BY NextFreshStop
<1>3. IInv /\ FreshStop => NoStaleStop
      BY LoneStopIsFresh
<1> QED
    BY <1>1, <1>2, <1>3, Invariant, SocketsReachable, PTL DEF Spec

(* Nor has an agent that passed the "already exists" check of CreateVM but *)
(* once: whatever overlaps, there is no other VM whose file could be lost. *)
(* Each id has its own directories in both.                                *)
THEOREM OneCreationReachable ==
  ASSUME OwnDirs, \A i, j \in Incs : i = j
  PROVE  Spec => []SocketReachable
<1>1. IInv => NoStaleStop
      <2> SUFFICES ASSUME IInv, NEW c \in Calls, pc[c] = "unlink", op[c] \in StopOps,
                          NEW i \in Incs, i # ptr[c]
                   PROVE  FALSE
          BY DEF NoStaleStop, StaleStop, StopOps
      <2>1. ptr[c] \in Incs
            BY DEF IInv, TypeInv, TypeOK, CallTyped, CallInv, KillPcs, BeginPcs
      <2> QED
          BY <2>1
<1> QED
    BY <1>1, Invariant, SocketsReachable, PTL DEF Spec

=============================================================================
