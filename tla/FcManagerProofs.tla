--------------------------- MODULE FcManagerProofs ---------------------------
(***************************************************************************)
(* Proofs about FcManager, for any sets of VM ids, incarnations and calls, *)
(* any TAP naming, any directories, either mode, any number of restarts.   *)
(***************************************************************************)
EXTENDS FcManagerInv, TLAPS

USE NoneAssumption, ModeAssumption, TapNameAssumption,
    NoCallAssumption, RestartAssumption

(* Which processes a client reaches does not matter to where the call goes. *)
LEMMA CtrlAltDelStep ==
  ASSUME NEW c \in Calls, CtrlAltDel(c)
  PROVE  /\ pc[c] = "ctrlAltDel"
         /\ \/ Goto(c, "term")
            \/ Goto(c, "kill")
         /\ UNCHANGED <<resourceVars, mu, vms, stopped, abandoned, restarts>>
  BY DEF CtrlAltDel

----------------------------------------------------------------------------
(* Type correctness.                                                       *)

LEMMA InitTypeInv == Init => TypeInv
  BY DEF Init, ProcessInit, TapInit, StorageInit, TypeInv, TypeOK, ProcessTypeOK,
     TapTypeOK, StorageTypeOK, CallTyped, ProcStates, Pcs

LEMMA NextTypeInv == TypeInv /\ [Next]_vars => TypeInv'
<1> SUFFICES ASSUME TypeInv, [Next]_vars
             PROVE  TypeInv'
    OBVIOUS
<1> USE DEF TypeInv, TypeOK, ProcessTypeOK, TapTypeOK, StorageTypeOK, CallTyped
<1>1. ASSUME NEW c \in Calls, NEW o \in Ops, NEW v \in VmIds, Call(c, o, v)
      PROVE  TypeInv'
      BY <1>1 DEF Call, resourceVars, processVars, storageVars, Ops, Pcs, BeginPcs
<1>2. ASSUME NEW c \in Calls, CreateBegin(c) PROVE TypeInv'
      BY <1>2 DEF CreateBegin, Return, Unborn, storageVars, Pcs, BeginPcs, CreatePcs
<1>3. ASSUME NEW c \in Calls, DeleteBegin(c) PROVE TypeInv'
      BY <1>3 DEF DeleteBegin, Return, resourceVars, processVars, storageVars, Pcs,
         BeginPcs, KillPcs
<1>4. ASSUME NEW c \in Calls, StopBegin(c) PROVE TypeInv'
      BY <1>4 DEF StopBegin, Return, resourceVars, processVars, storageVars, Pcs,
         BeginPcs, KillPcs, StopPcs
<1>5. ASSUME NEW c \in Calls, MarkStopped(c) PROVE TypeInv'
      BY <1>5 DEF MarkStopped, Return, resourceVars, processVars, storageVars, Pcs,
         BeginPcs
<1>6. ASSUME NEW c \in Calls, PrepareStorage(c) PROVE TypeInv'
      BY <1>6 DEF PrepareStorage, Goto, Return, MakeVmDir, PrepareVMStorageFails,
         SetupJailDirectoryFails, processVars, storageVars, BeginPcs, CreatePcs, Pcs
<1>7. ASSUME NEW c \in Calls, CreateTap(c) PROVE TypeInv'
      BY <1>7 DEF CreateTap, Goto, CreateTAPDevice, CreateTAPDeviceFails,
         CreateTAPDeviceLeaks, UndoStoragePc, processVars, storageVars, BeginPcs,
         CreatePcs, TeardownPcs, Pcs
<1>8. ASSUME NEW c \in Calls, Spawn(c) PROVE TypeInv'
      BY <1>8 DEF Spawn, Goto, StartProcess, StartProcessFails, FillJail, PopulateJail,
         storageVars, BeginPcs, CreatePcs, TeardownPcs, Pcs, ProcStates
<1>9. ASSUME NEW c \in Calls, Probe(c) PROVE TypeInv'
      BY <1>9 DEF Probe, Goto, resourceVars, processVars, storageVars, BeginPcs,
         CreatePcs, TeardownPcs, Pcs
<1>10. ASSUME NEW c \in Calls, WaitSocket(c) PROVE TypeInv'
      BY <1>10 DEF WaitSocket, Goto, AbandonStart, processVars, storageVars, BeginPcs,
         CreatePcs, ApiSteps, TeardownPcs, Pcs, Alive, ProcStates
<1>11. ASSUME NEW c \in Calls, ApiPut(c) PROVE TypeInv'
      BY <1>11 DEF ApiPut, Goto, Return, ApiNext, resourceVars, processVars,
         storageVars, ApiSteps, BeginPcs, CreatePcs, KillPcs, Pcs
<1>12. ASSUME NEW c \in Calls, Kill(c) PROVE TypeInv'
      BY <1>12 DEF Kill, Goto, SigKill, AfterKill, storageVars, BeginPcs, KillPcs,
         TeardownPcs, StopPcs, Pcs, Alive, ProcStates
<1>13. ASSUME NEW c \in Calls, Unlink(c) PROVE TypeInv'
      BY <1>13 DEF Unlink, Goto, CloseAndRemove, AfterKill, storageVars, BeginPcs,
         KillPcs, TeardownPcs, StopPcs, Pcs
<1>14. ASSUME NEW c \in Calls, DeleteTap(c) PROVE TypeInv'
      BY <1>14 DEF DeleteTap, Goto, DeleteTAPDevice, DeleteTAPDeviceFails,
         UndoStoragePc, processVars, storageVars, BeginPcs, TeardownPcs, Pcs
<1>15. ASSUME NEW c \in Calls, DeleteJail(c) PROVE TypeInv'
      BY <1>15 DEF DeleteJail, Goto, CleanupJail, RemoveAll, CleanupFails, SocketsLeft,
         storageVars, BeginPcs, TeardownPcs, Pcs
<1>16. ASSUME NEW c \in Calls, DeleteStorage(c) PROVE TypeInv'
      BY <1>16 DEF DeleteStorage, Return, CleanupVMStorage, RemoveAll, CleanupFails,
         SocketsLeft, storageVars, BeginPcs, TeardownPcs, Pcs
<1>17. ASSUME NEW c \in Calls, CtrlAltDel(c) PROVE TypeInv'
      BY <1>17 DEF CtrlAltDel, Goto, resourceVars, processVars, storageVars, BeginPcs,
         StopPcs, KillPcs, Pcs
<1>18. ASSUME NEW c \in Calls, Term(c) PROVE TypeInv'
      BY <1>18 DEF Term, Goto, resourceVars, processVars, storageVars, BeginPcs,
         StopPcs, KillPcs, Pcs
<1>19. ASSUME NEW c \in Calls, CheckTerm(c) PROVE TypeInv'
      BY <1>19 DEF CheckTerm, Goto, SigKill, storageVars, BeginPcs, StopPcs, KillPcs,
         Pcs, Alive, ProcStates
<1>20. ASSUME NEW i \in Incs, Bind(i) PROVE TypeInv'
      BY <1>20 DEF Bind, BindSocket, managerVars, storageVars, callVars, ProcStates
<1>21. ASSUME NEW i \in Incs, Exit(i) PROVE TypeInv'
      BY <1>21 DEF Exit, ExitProcess, managerVars, storageVars, callVars, ProcStates
<1>22. ASSUME NEW i \in Incs, Reap(i) PROVE TypeInv'
      BY <1>22 DEF Reap, ReapProcess, managerVars, storageVars, callVars, ProcStates
<1>23. CASE Restart
      BY <1>23 DEF Restart, Unborn, storageVars, ProcStates, Pcs
<1>24. CASE UNCHANGED vars
      BY <1>24 DEF vars, resourceVars, processVars, storageVars, callVars
<1> HIDE DEF TypeInv, TypeOK, ProcessTypeOK, TapTypeOK, StorageTypeOK, CallTyped
<1> QED
    BY <1>1, <1>2, <1>3, <1>4, <1>5, <1>6, <1>7, <1>8, <1>9, <1>10, <1>11, <1>12, <1>13,
       <1>14, <1>15, <1>16, <1>17, <1>18, <1>19, <1>20, <1>21, <1>22, <1>23, <1>24 DEF
       Next, Acquire, Step

----------------------------------------------------------------------------
(* Each part of IInv is preserved; what a part needs of the others is cited *)
(* at the head of its lemma.                                               *)

(* A call's program counter, operation and incarnation agree.              *)
LEMMA NextCallInv == IInv /\ [Next]_vars => CallInv'
<1> SUFFICES ASSUME IInv, [Next]_vars
             PROVE  CallInv'
    OBVIOUS
<1> USE DEF IInv, TypeInv, TypeOK, ProcessTypeOK, TapTypeOK, StorageTypeOK, CallTyped,
            CallInv, BeginPcs, CreatePcs, ApiSteps, KillPcs, TeardownPcs, StopPcs,
            LockOps, StopOps, Ops, VmsInv
<1>1. ASSUME NEW c \in Calls, NEW o \in Ops, NEW v \in VmIds, Call(c, o, v)
      PROVE  CallInv'
      BY <1>1 DEF Call, resourceVars, processVars, storageVars
<1>2. ASSUME NEW c \in Calls, CreateBegin(c) PROVE CallInv'
      BY <1>2 DEF CreateBegin, Return, Unborn, storageVars
<1>3. ASSUME NEW c \in Calls, DeleteBegin(c) PROVE CallInv'
      BY <1>3 DEF DeleteBegin, Return, resourceVars, processVars, storageVars
<1>4. ASSUME NEW c \in Calls, StopBegin(c) PROVE CallInv'
      BY <1>4 DEF StopBegin, Return, resourceVars, processVars, storageVars
<1>5. ASSUME NEW c \in Calls, MarkStopped(c) PROVE CallInv'
      BY <1>5 DEF MarkStopped, Return, resourceVars, processVars, storageVars
<1>6. ASSUME NEW c \in Calls, PrepareStorage(c) PROVE CallInv'
      BY <1>6 DEF PrepareStorage, Goto, Return, MakeVmDir, PrepareVMStorageFails,
         SetupJailDirectoryFails, processVars, storageVars
<1>7. ASSUME NEW c \in Calls, CreateTap(c) PROVE CallInv'
      BY <1>7 DEF CreateTap, Goto, CreateTAPDevice, CreateTAPDeviceFails,
         CreateTAPDeviceLeaks, UndoStoragePc, processVars, storageVars
<1>8. ASSUME NEW c \in Calls, Spawn(c) PROVE CallInv'
      BY <1>8 DEF Spawn, Goto, StartProcess, StartProcessFails, FillJail, PopulateJail,
         storageVars
<1>9. ASSUME NEW c \in Calls, Probe(c) PROVE CallInv'
      BY <1>9 DEF Probe, Goto, resourceVars, processVars, storageVars
<1>10. ASSUME NEW c \in Calls, WaitSocket(c) PROVE CallInv'
      BY <1>10 DEF WaitSocket, Goto, AbandonStart, processVars, storageVars
<1>11. ASSUME NEW c \in Calls, ApiPut(c) PROVE CallInv'
      BY <1>11 DEF ApiPut, Goto, Return, ApiNext, resourceVars, processVars, storageVars
<1>12. ASSUME NEW c \in Calls, Kill(c) PROVE CallInv'
      BY <1>12 DEF Kill, Goto, SigKill, AfterKill, storageVars
<1>13. ASSUME NEW c \in Calls, Unlink(c) PROVE CallInv'
      BY <1>13 DEF Unlink, Goto, CloseAndRemove, AfterKill, storageVars
<1>14. ASSUME NEW c \in Calls, DeleteTap(c) PROVE CallInv'
      BY <1>14 DEF DeleteTap, Goto, DeleteTAPDevice, DeleteTAPDeviceFails,
         UndoStoragePc, processVars, storageVars
<1>15. ASSUME NEW c \in Calls, DeleteJail(c) PROVE CallInv'
      BY <1>15 DEF DeleteJail, Goto, CleanupJail, RemoveAll, CleanupFails, SocketsLeft,
         storageVars
<1>16. ASSUME NEW c \in Calls, DeleteStorage(c) PROVE CallInv'
      BY <1>16 DEF DeleteStorage, Return, CleanupVMStorage, RemoveAll, CleanupFails,
         SocketsLeft, storageVars
<1>17. ASSUME NEW c \in Calls, CtrlAltDel(c) PROVE CallInv'
      BY <1>17, CtrlAltDelStep DEF Goto, resourceVars, processVars, storageVars
<1>18. ASSUME NEW c \in Calls, Term(c) PROVE CallInv'
      BY <1>18 DEF Term, Goto, resourceVars, processVars, storageVars
<1>19. ASSUME NEW c \in Calls, CheckTerm(c) PROVE CallInv'
      BY <1>19 DEF CheckTerm, Goto, SigKill, storageVars
<1>20. ASSUME NEW i \in Incs, Bind(i) PROVE CallInv'
      BY <1>20 DEF Bind, BindSocket, managerVars, storageVars, callVars
<1>21. ASSUME NEW i \in Incs, Exit(i) PROVE CallInv'
      BY <1>21 DEF Exit, ExitProcess, managerVars, storageVars, callVars
<1>22. ASSUME NEW i \in Incs, Reap(i) PROVE CallInv'
      BY <1>22 DEF Reap, ReapProcess, managerVars, storageVars, callVars
<1>23. CASE Restart
      BY <1>23 DEF Restart, Unborn, storageVars
<1>24. CASE UNCHANGED vars
      BY <1>24 DEF vars, resourceVars, processVars, storageVars, callVars
<1> HIDE DEF IInv, TypeInv, TypeOK, ProcessTypeOK, TapTypeOK, StorageTypeOK, CallTyped,
             CallInv, BeginPcs, CreatePcs, ApiSteps, KillPcs, TeardownPcs, StopPcs,
             LockOps, StopOps, Ops, VmsInv
<1> QED
    BY <1>1, <1>2, <1>3, <1>4, <1>5, <1>6, <1>7, <1>8, <1>9, <1>10, <1>11, <1>12, <1>13,
       <1>14, <1>15, <1>16, <1>17, <1>18, <1>19, <1>20, <1>21, <1>22, <1>23, <1>24 DEF
       Next, Acquire, Step

(* Mutual exclusion of CreateVM and DeleteVM.                              *)
LEMMA NextLockInv == IInv /\ [Next]_vars => LockInv'
<1> SUFFICES ASSUME IInv, [Next]_vars
             PROVE  LockInv'
    OBVIOUS
<1> USE DEF IInv, TypeInv, TypeOK, ProcessTypeOK, TapTypeOK, StorageTypeOK, CallTyped,
            CallInv, BeginPcs, CreatePcs, ApiSteps, KillPcs, TeardownPcs, StopPcs,
            LockOps, StopOps, Ops, LockInv, HoldsLock
<1>1. ASSUME NEW c \in Calls, NEW o \in Ops, NEW v \in VmIds, Call(c, o, v)
      PROVE  LockInv'
      BY <1>1 DEF Call, resourceVars, processVars, storageVars
<1>2. ASSUME NEW c \in Calls, CreateBegin(c) PROVE LockInv'
      BY <1>2 DEF CreateBegin, Return, Unborn, storageVars
<1>3. ASSUME NEW c \in Calls, DeleteBegin(c) PROVE LockInv'
      BY <1>3 DEF DeleteBegin, Return, resourceVars, processVars, storageVars
<1>4. ASSUME NEW c \in Calls, StopBegin(c) PROVE LockInv'
      BY <1>4 DEF StopBegin, Return, resourceVars, processVars, storageVars
<1>5. ASSUME NEW c \in Calls, MarkStopped(c) PROVE LockInv'
      BY <1>5 DEF MarkStopped, Return, resourceVars, processVars, storageVars
<1>6. ASSUME NEW c \in Calls, PrepareStorage(c) PROVE LockInv'
      BY <1>6 DEF PrepareStorage, Goto, Return, MakeVmDir, PrepareVMStorageFails,
         SetupJailDirectoryFails, processVars, storageVars
<1>7. ASSUME NEW c \in Calls, CreateTap(c) PROVE LockInv'
      BY <1>7 DEF CreateTap, Goto, CreateTAPDevice, CreateTAPDeviceFails,
         CreateTAPDeviceLeaks, UndoStoragePc, processVars, storageVars
<1>8. ASSUME NEW c \in Calls, Spawn(c) PROVE LockInv'
      BY <1>8 DEF Spawn, Goto, StartProcess, StartProcessFails, FillJail, PopulateJail,
         storageVars
<1>9. ASSUME NEW c \in Calls, Probe(c) PROVE LockInv'
      BY <1>9 DEF Probe, Goto, resourceVars, processVars, storageVars
<1>10. ASSUME NEW c \in Calls, WaitSocket(c) PROVE LockInv'
      BY <1>10 DEF WaitSocket, Goto, AbandonStart, processVars, storageVars
<1>11. ASSUME NEW c \in Calls, ApiPut(c) PROVE LockInv'
      BY <1>11 DEF ApiPut, Goto, Return, ApiNext, resourceVars, processVars, storageVars
<1>12. ASSUME NEW c \in Calls, Kill(c) PROVE LockInv'
      BY <1>12 DEF Kill, Goto, SigKill, AfterKill, storageVars
<1>13. ASSUME NEW c \in Calls, Unlink(c) PROVE LockInv'
      BY <1>13 DEF Unlink, Goto, CloseAndRemove, AfterKill, storageVars
<1>14. ASSUME NEW c \in Calls, DeleteTap(c) PROVE LockInv'
      BY <1>14 DEF DeleteTap, Goto, DeleteTAPDevice, DeleteTAPDeviceFails,
         UndoStoragePc, processVars, storageVars
<1>15. ASSUME NEW c \in Calls, DeleteJail(c) PROVE LockInv'
      BY <1>15 DEF DeleteJail, Goto, CleanupJail, RemoveAll, CleanupFails, SocketsLeft,
         storageVars
<1>16. ASSUME NEW c \in Calls, DeleteStorage(c) PROVE LockInv'
      BY <1>16 DEF DeleteStorage, Return, CleanupVMStorage, RemoveAll, CleanupFails,
         SocketsLeft, storageVars
<1>17. ASSUME NEW c \in Calls, CtrlAltDel(c) PROVE LockInv'
      BY <1>17, CtrlAltDelStep DEF Goto, resourceVars, processVars, storageVars
<1>18. ASSUME NEW c \in Calls, Term(c) PROVE LockInv'
      BY <1>18 DEF Term, Goto, resourceVars, processVars, storageVars
<1>19. ASSUME NEW c \in Calls, CheckTerm(c) PROVE LockInv'
      BY <1>19 DEF CheckTerm, Goto, SigKill, storageVars
<1>20. ASSUME NEW i \in Incs, Bind(i) PROVE LockInv'
      BY <1>20 DEF Bind, BindSocket, managerVars, storageVars, callVars
<1>21. ASSUME NEW i \in Incs, Exit(i) PROVE LockInv'
      BY <1>21 DEF Exit, ExitProcess, managerVars, storageVars, callVars
<1>22. ASSUME NEW i \in Incs, Reap(i) PROVE LockInv'
      BY <1>22 DEF Reap, ReapProcess, managerVars, storageVars, callVars
<1>23. CASE Restart
      BY <1>23 DEF Restart, Unborn, storageVars
<1>24. CASE UNCHANGED vars
      BY <1>24 DEF vars, resourceVars, processVars, storageVars, callVars
<1> HIDE DEF IInv, TypeInv, TypeOK, ProcessTypeOK, TapTypeOK, StorageTypeOK, CallTyped,
             CallInv, BeginPcs, CreatePcs, ApiSteps, KillPcs, TeardownPcs, StopPcs,
             LockOps, StopOps, Ops, LockInv, HoldsLock
<1> QED
    BY <1>1, <1>2, <1>3, <1>4, <1>5, <1>6, <1>7, <1>8, <1>9, <1>10, <1>11, <1>12, <1>13,
       <1>14, <1>15, <1>16, <1>17, <1>18, <1>19, <1>20, <1>21, <1>22, <1>23, <1>24 DEF
       Next, Acquire, Step

(* m.vms maps an id to an incarnation of that id which was started.        *)
LEMMA NextVmsInv == IInv /\ [Next]_vars => VmsInv'
<1> SUFFICES ASSUME IInv, [Next]_vars
             PROVE  VmsInv'
    OBVIOUS
<1> USE DEF IInv, TypeInv, TypeOK, ProcessTypeOK, TapTypeOK, StorageTypeOK, CallTyped,
            CallInv, BeginPcs, CreatePcs, ApiSteps, KillPcs, TeardownPcs, StopPcs,
            LockOps, StopOps, Ops, VmsInv, CreateInv, DeleteInv, LockInv, HoldsLock, Alive
<1>1. ASSUME NEW c \in Calls, NEW o \in Ops, NEW v \in VmIds, Call(c, o, v)
      PROVE  VmsInv'
      BY <1>1 DEF Call, resourceVars, processVars, storageVars
<1>2. ASSUME NEW c \in Calls, CreateBegin(c) PROVE VmsInv'
      BY <1>2 DEF CreateBegin, Return, Unborn, storageVars
<1>3. ASSUME NEW c \in Calls, DeleteBegin(c) PROVE VmsInv'
      BY <1>3 DEF DeleteBegin, Return, resourceVars, processVars, storageVars
<1>4. ASSUME NEW c \in Calls, StopBegin(c) PROVE VmsInv'
      BY <1>4 DEF StopBegin, Return, resourceVars, processVars, storageVars
<1>5. ASSUME NEW c \in Calls, MarkStopped(c) PROVE VmsInv'
      BY <1>5 DEF MarkStopped, Return, resourceVars, processVars, storageVars
<1>6. ASSUME NEW c \in Calls, PrepareStorage(c) PROVE VmsInv'
      BY <1>6 DEF PrepareStorage, Goto, Return, MakeVmDir, PrepareVMStorageFails,
         SetupJailDirectoryFails, processVars, storageVars
<1>7. ASSUME NEW c \in Calls, CreateTap(c) PROVE VmsInv'
      BY <1>7 DEF CreateTap, Goto, CreateTAPDevice, CreateTAPDeviceFails,
         CreateTAPDeviceLeaks, UndoStoragePc, processVars, storageVars
<1>8. ASSUME NEW c \in Calls, Spawn(c) PROVE VmsInv'
      BY <1>8 DEF Spawn, Goto, StartProcess, StartProcessFails, FillJail, PopulateJail,
         storageVars
<1>9. ASSUME NEW c \in Calls, Probe(c) PROVE VmsInv'
      BY <1>9 DEF Probe, Goto, resourceVars, processVars, storageVars
<1>10. ASSUME NEW c \in Calls, WaitSocket(c) PROVE VmsInv'
      BY <1>10 DEF WaitSocket, Goto, AbandonStart, processVars, storageVars
<1>11. ASSUME NEW c \in Calls, ApiPut(c) PROVE VmsInv'
      BY <1>11 DEF ApiPut, Goto, Return, ApiNext, resourceVars, processVars, storageVars
<1>12. ASSUME NEW c \in Calls, Kill(c) PROVE VmsInv'
      BY <1>12 DEF Kill, Goto, SigKill, AfterKill, storageVars
<1>13. ASSUME NEW c \in Calls, Unlink(c) PROVE VmsInv'
      BY <1>13 DEF Unlink, Goto, CloseAndRemove, AfterKill, storageVars
<1>14. ASSUME NEW c \in Calls, DeleteTap(c) PROVE VmsInv'
      BY <1>14 DEF DeleteTap, Goto, DeleteTAPDevice, DeleteTAPDeviceFails,
         UndoStoragePc, processVars, storageVars
<1>15. ASSUME NEW c \in Calls, DeleteJail(c) PROVE VmsInv'
      BY <1>15 DEF DeleteJail, Goto, CleanupJail, RemoveAll, CleanupFails, SocketsLeft,
         storageVars
<1>16. ASSUME NEW c \in Calls, DeleteStorage(c) PROVE VmsInv'
      BY <1>16 DEF DeleteStorage, Return, CleanupVMStorage, RemoveAll, CleanupFails,
         SocketsLeft, storageVars
<1>17. ASSUME NEW c \in Calls, CtrlAltDel(c) PROVE VmsInv'
      BY <1>17, CtrlAltDelStep DEF Goto, resourceVars, processVars, storageVars
<1>18. ASSUME NEW c \in Calls, Term(c) PROVE VmsInv'
      BY <1>18 DEF Term, Goto, resourceVars, processVars, storageVars
<1>19. ASSUME NEW c \in Calls, CheckTerm(c) PROVE VmsInv'
      BY <1>19 DEF CheckTerm, Goto, SigKill, storageVars
<1>20. ASSUME NEW i \in Incs, Bind(i) PROVE VmsInv'
      BY <1>20 DEF Bind, BindSocket, managerVars, storageVars, callVars
<1>21. ASSUME NEW i \in Incs, Exit(i) PROVE VmsInv'
      BY <1>21 DEF Exit, ExitProcess, managerVars, storageVars, callVars
<1>22. ASSUME NEW i \in Incs, Reap(i) PROVE VmsInv'
      BY <1>22 DEF Reap, ReapProcess, managerVars, storageVars, callVars
<1>23. CASE Restart
      BY <1>23 DEF Restart, Unborn, storageVars
<1>24. CASE UNCHANGED vars
      BY <1>24 DEF vars, resourceVars, processVars, storageVars, callVars
<1> HIDE DEF IInv, TypeInv, TypeOK, ProcessTypeOK, TapTypeOK, StorageTypeOK, CallTyped,
             CallInv, BeginPcs, CreatePcs, ApiSteps, KillPcs, TeardownPcs, StopPcs,
             LockOps, StopOps, Ops, VmsInv, CreateInv, DeleteInv, LockInv, HoldsLock, Alive
<1> QED
    BY <1>1, <1>2, <1>3, <1>4, <1>5, <1>6, <1>7, <1>8, <1>9, <1>10, <1>11, <1>12, <1>13,
       <1>14, <1>15, <1>16, <1>17, <1>18, <1>19, <1>20, <1>21, <1>22, <1>23, <1>24 DEF
       Next, Acquire, Step

(* Past the signals of StopVM the process is dead, and stays dead.         *)
LEMMA NextStopInv == IInv /\ [Next]_vars => StopInv'
<1> SUFFICES ASSUME IInv, [Next]_vars
             PROVE  StopInv'
    OBVIOUS
<1> USE DEF IInv, TypeInv, TypeOK, ProcessTypeOK, TapTypeOK, StorageTypeOK, CallTyped,
            CallInv, BeginPcs, CreatePcs, ApiSteps, KillPcs, TeardownPcs, StopPcs,
            LockOps, StopOps, Ops, StopInv, Dead, VmsInv, CreateInv, LockInv, HoldsLock,
            SignalSucceeds, IsRunning, Alive, ProcStates
<1>1. ASSUME NEW c \in Calls, NEW o \in Ops, NEW v \in VmIds, Call(c, o, v)
      PROVE  StopInv'
      BY <1>1 DEF Call, resourceVars, processVars, storageVars
<1>2. ASSUME NEW c \in Calls, CreateBegin(c) PROVE StopInv'
      BY <1>2 DEF CreateBegin, Return, Unborn, storageVars
<1>3. ASSUME NEW c \in Calls, DeleteBegin(c) PROVE StopInv'
      BY <1>3 DEF DeleteBegin, Return, resourceVars, processVars, storageVars
<1>4. ASSUME NEW c \in Calls, StopBegin(c) PROVE StopInv'
      BY <1>4 DEF StopBegin, Return, resourceVars, processVars, storageVars
<1>5. ASSUME NEW c \in Calls, MarkStopped(c) PROVE StopInv'
      BY <1>5 DEF MarkStopped, Return, resourceVars, processVars, storageVars
<1>6. ASSUME NEW c \in Calls, PrepareStorage(c) PROVE StopInv'
      BY <1>6 DEF PrepareStorage, Goto, Return, MakeVmDir, PrepareVMStorageFails,
         SetupJailDirectoryFails, processVars, storageVars
<1>7. ASSUME NEW c \in Calls, CreateTap(c) PROVE StopInv'
      BY <1>7 DEF CreateTap, Goto, CreateTAPDevice, CreateTAPDeviceFails,
         CreateTAPDeviceLeaks, UndoStoragePc, processVars, storageVars
<1>8. ASSUME NEW c \in Calls, Spawn(c) PROVE StopInv'
      BY <1>8 DEF Spawn, Goto, StartProcess, StartProcessFails, FillJail, PopulateJail,
         storageVars
<1>9. ASSUME NEW c \in Calls, Probe(c) PROVE StopInv'
      BY <1>9 DEF Probe, Goto, resourceVars, processVars, storageVars
<1>10. ASSUME NEW c \in Calls, WaitSocket(c) PROVE StopInv'
      BY <1>10 DEF WaitSocket, Goto, AbandonStart, processVars, storageVars
<1>11. ASSUME NEW c \in Calls, ApiPut(c) PROVE StopInv'
      BY <1>11 DEF ApiPut, Goto, Return, ApiNext, resourceVars, processVars, storageVars
<1>12. ASSUME NEW c \in Calls, Kill(c) PROVE StopInv'
      BY <1>12 DEF Kill, Goto, SigKill, AfterKill, storageVars
<1>13. ASSUME NEW c \in Calls, Unlink(c) PROVE StopInv'
      BY <1>13 DEF Unlink, Goto, CloseAndRemove, AfterKill, storageVars
<1>14. ASSUME NEW c \in Calls, DeleteTap(c) PROVE StopInv'
      BY <1>14 DEF DeleteTap, Goto, DeleteTAPDevice, DeleteTAPDeviceFails,
         UndoStoragePc, processVars, storageVars
<1>15. ASSUME NEW c \in Calls, DeleteJail(c) PROVE StopInv'
      BY <1>15 DEF DeleteJail, Goto, CleanupJail, RemoveAll, CleanupFails, SocketsLeft,
         storageVars
<1>16. ASSUME NEW c \in Calls, DeleteStorage(c) PROVE StopInv'
      BY <1>16 DEF DeleteStorage, Return, CleanupVMStorage, RemoveAll, CleanupFails,
         SocketsLeft, storageVars
<1>17. ASSUME NEW c \in Calls, CtrlAltDel(c) PROVE StopInv'
      BY <1>17, CtrlAltDelStep DEF Goto, resourceVars, processVars, storageVars
<1>18. ASSUME NEW c \in Calls, Term(c) PROVE StopInv'
      BY <1>18 DEF Term, Goto, resourceVars, processVars, storageVars
<1>19. ASSUME NEW c \in Calls, CheckTerm(c) PROVE StopInv'
      BY <1>19 DEF CheckTerm, Goto, SigKill, storageVars
<1>20. ASSUME NEW i \in Incs, Bind(i) PROVE StopInv'
      BY <1>20 DEF Bind, BindSocket, managerVars, storageVars, callVars
<1>21. ASSUME NEW i \in Incs, Exit(i) PROVE StopInv'
      BY <1>21 DEF Exit, ExitProcess, managerVars, storageVars, callVars
<1>22. ASSUME NEW i \in Incs, Reap(i) PROVE StopInv'
      BY <1>22 DEF Reap, ReapProcess, managerVars, storageVars, callVars
<1>23. CASE Restart
      BY <1>23 DEF Restart, Unborn, storageVars
<1>24. CASE UNCHANGED vars
      BY <1>24 DEF vars, resourceVars, processVars, storageVars, callVars
<1> HIDE DEF IInv, TypeInv, TypeOK, ProcessTypeOK, TapTypeOK, StorageTypeOK, CallTyped,
             CallInv, BeginPcs, CreatePcs, ApiSteps, KillPcs, TeardownPcs, StopPcs,
             LockOps, StopOps, Ops, StopInv, Dead, VmsInv, CreateInv, LockInv, HoldsLock,
             SignalSucceeds, IsRunning, Alive, ProcStates
<1> QED
    BY <1>1, <1>2, <1>3, <1>4, <1>5, <1>6, <1>7, <1>8, <1>9, <1>10, <1>11, <1>12, <1>13,
       <1>14, <1>15, <1>16, <1>17, <1>18, <1>19, <1>20, <1>21, <1>22, <1>23, <1>24 DEF
       Next, Acquire, Step

(* A creation under way owns what it has set up so far.                    *)
LEMMA NextCreateInv == IInv /\ [Next]_vars => CreateInv'
<1> SUFFICES ASSUME IInv, [Next]_vars
             PROVE  CreateInv'
    OBVIOUS
<1> USE DEF IInv, TypeInv, TypeOK, ProcessTypeOK, TapTypeOK, StorageTypeOK, CallTyped,
            CallInv, BeginPcs, CreatePcs, ApiSteps, KillPcs, TeardownPcs, StopPcs,
            LockOps, StopOps, Ops, CreateInv, VmsInv, ProcInv, TapInv, DirInv, LockInv,
            HoldsLock, SignalSucceeds, IsRunning, Alive, ProcStates
<1>1. ASSUME NEW c \in Calls, NEW o \in Ops, NEW v \in VmIds, Call(c, o, v)
      PROVE  CreateInv'
      BY <1>1 DEF Call, resourceVars, processVars, storageVars
<1>2. ASSUME NEW c \in Calls, CreateBegin(c) PROVE CreateInv'
      BY <1>2 DEF CreateBegin, Return, Unborn, storageVars
<1>3. ASSUME NEW c \in Calls, DeleteBegin(c) PROVE CreateInv'
      BY <1>3 DEF DeleteBegin, Return, resourceVars, processVars, storageVars
<1>4. ASSUME NEW c \in Calls, StopBegin(c) PROVE CreateInv'
      BY <1>4 DEF StopBegin, Return, resourceVars, processVars, storageVars
<1>5. ASSUME NEW c \in Calls, MarkStopped(c) PROVE CreateInv'
      BY <1>5 DEF MarkStopped, Return, resourceVars, processVars, storageVars
<1>6. ASSUME NEW c \in Calls, PrepareStorage(c) PROVE CreateInv'
      BY <1>6, PathAssumption DEF PrepareStorage, Goto, Return, MakeVmDir,
         PrepareVMStorageFails, SetupJailDirectoryFails, processVars, storageVars
<1>7. ASSUME NEW c \in Calls, CreateTap(c) PROVE CreateInv'
      BY <1>7 DEF CreateTap, Goto, CreateTAPDevice, CreateTAPDeviceFails,
         CreateTAPDeviceLeaks, UndoStoragePc, processVars, storageVars
<1>8. ASSUME NEW c \in Calls, Spawn(c) PROVE CreateInv'
      BY <1>8, PathAssumption DEF Spawn, Goto, StartProcess, StartProcessFails,
         FillJail, PopulateJail, storageVars
<1>9. ASSUME NEW c \in Calls, Probe(c) PROVE CreateInv'
      BY <1>9 DEF Probe, Goto, resourceVars, processVars, storageVars
<1>10. ASSUME NEW c \in Calls, WaitSocket(c) PROVE CreateInv'
      BY <1>10 DEF WaitSocket, Goto, AbandonStart, processVars, storageVars
<1>11. ASSUME NEW c \in Calls, ApiPut(c) PROVE CreateInv'
      BY <1>11 DEF ApiPut, Goto, Return, ApiNext, resourceVars, processVars, storageVars
<1>12. ASSUME NEW c \in Calls, Kill(c) PROVE CreateInv'
      BY <1>12 DEF Kill, Goto, SigKill, AfterKill, storageVars
<1>13. ASSUME NEW c \in Calls, Unlink(c) PROVE CreateInv'
      BY <1>13 DEF Unlink, Goto, CloseAndRemove, AfterKill, storageVars
<1>14. ASSUME NEW c \in Calls, DeleteTap(c) PROVE CreateInv'
      BY <1>14 DEF DeleteTap, Goto, DeleteTAPDevice, DeleteTAPDeviceFails,
         UndoStoragePc, processVars, storageVars
<1>15. ASSUME NEW c \in Calls, DeleteJail(c) PROVE CreateInv'
      BY <1>15 DEF DeleteJail, Goto, CleanupJail, RemoveAll, CleanupFails, SocketsLeft,
         storageVars
<1>16. ASSUME NEW c \in Calls, DeleteStorage(c) PROVE CreateInv'
      BY <1>16 DEF DeleteStorage, Return, CleanupVMStorage, RemoveAll, CleanupFails,
         SocketsLeft, storageVars
<1>17. ASSUME NEW c \in Calls, CtrlAltDel(c) PROVE CreateInv'
      BY <1>17, CtrlAltDelStep DEF Goto, resourceVars, processVars, storageVars
<1>18. ASSUME NEW c \in Calls, Term(c) PROVE CreateInv'
      BY <1>18 DEF Term, Goto, resourceVars, processVars, storageVars
<1>19. ASSUME NEW c \in Calls, CheckTerm(c) PROVE CreateInv'
      BY <1>19 DEF CheckTerm, Goto, SigKill, storageVars
<1>20. ASSUME NEW i \in Incs, Bind(i) PROVE CreateInv'
      BY <1>20 DEF Bind, BindSocket, managerVars, storageVars, callVars
<1>21. ASSUME NEW i \in Incs, Exit(i) PROVE CreateInv'
      BY <1>21 DEF Exit, ExitProcess, managerVars, storageVars, callVars
<1>22. ASSUME NEW i \in Incs, Reap(i) PROVE CreateInv'
      BY <1>22 DEF Reap, ReapProcess, managerVars, storageVars, callVars
<1>23. CASE Restart
      BY <1>23 DEF Restart, Unborn, storageVars
<1>24. CASE UNCHANGED vars
      BY <1>24 DEF vars, resourceVars, processVars, storageVars, callVars
<1> HIDE DEF IInv, TypeInv, TypeOK, ProcessTypeOK, TapTypeOK, StorageTypeOK, CallTyped,
             CallInv, BeginPcs, CreatePcs, ApiSteps, KillPcs, TeardownPcs, StopPcs,
             LockOps, StopOps, Ops, CreateInv, VmsInv, ProcInv, TapInv, DirInv, LockInv,
             HoldsLock, SignalSucceeds, IsRunning, Alive, ProcStates
<1> QED
    BY <1>1, <1>2, <1>3, <1>4, <1>5, <1>6, <1>7, <1>8, <1>9, <1>10, <1>11, <1>12, <1>13,
       <1>14, <1>15, <1>16, <1>17, <1>18, <1>19, <1>20, <1>21, <1>22, <1>23, <1>24 DEF
       Next, Acquire, Step

(* A deletion under way still owns what it has not removed.                *)
LEMMA NextDeleteInv == IInv /\ [Next]_vars => DeleteInv'
<1> SUFFICES ASSUME IInv, [Next]_vars
             PROVE  DeleteInv'
    OBVIOUS
<1> USE DEF IInv, TypeInv, TypeOK, ProcessTypeOK, TapTypeOK, StorageTypeOK, CallTyped,
            CallInv, BeginPcs, CreatePcs, ApiSteps, KillPcs, TeardownPcs, StopPcs,
            LockOps, StopOps, Ops, DeleteInv, RegisteredHasTap, InProgress, LockInv,
            HoldsLock
<1>1. ASSUME NEW c \in Calls, NEW o \in Ops, NEW v \in VmIds, Call(c, o, v)
      PROVE  DeleteInv'
      BY <1>1 DEF Call, resourceVars, processVars, storageVars
<1>2. ASSUME NEW c \in Calls, CreateBegin(c) PROVE DeleteInv'
      BY <1>2 DEF CreateBegin, Return, Unborn, storageVars
<1>3. ASSUME NEW c \in Calls, DeleteBegin(c) PROVE DeleteInv'
      BY <1>3 DEF DeleteBegin, Return, resourceVars, processVars, storageVars
<1>4. ASSUME NEW c \in Calls, StopBegin(c) PROVE DeleteInv'
      BY <1>4 DEF StopBegin, Return, resourceVars, processVars, storageVars
<1>5. ASSUME NEW c \in Calls, MarkStopped(c) PROVE DeleteInv'
      BY <1>5 DEF MarkStopped, Return, resourceVars, processVars, storageVars
<1>6. ASSUME NEW c \in Calls, PrepareStorage(c) PROVE DeleteInv'
      BY <1>6 DEF PrepareStorage, Goto, Return, MakeVmDir, PrepareVMStorageFails,
         SetupJailDirectoryFails, processVars, storageVars
<1>7. ASSUME NEW c \in Calls, CreateTap(c) PROVE DeleteInv'
      BY <1>7 DEF CreateTap, Goto, CreateTAPDevice, CreateTAPDeviceFails,
         CreateTAPDeviceLeaks, UndoStoragePc, processVars, storageVars
<1>8. ASSUME NEW c \in Calls, Spawn(c) PROVE DeleteInv'
      BY <1>8 DEF Spawn, Goto, StartProcess, StartProcessFails, FillJail, PopulateJail,
         storageVars
<1>9. ASSUME NEW c \in Calls, Probe(c) PROVE DeleteInv'
      BY <1>9 DEF Probe, Goto, resourceVars, processVars, storageVars
<1>10. ASSUME NEW c \in Calls, WaitSocket(c) PROVE DeleteInv'
      BY <1>10 DEF WaitSocket, Goto, AbandonStart, processVars, storageVars
<1>11. ASSUME NEW c \in Calls, ApiPut(c) PROVE DeleteInv'
      BY <1>11 DEF ApiPut, Goto, Return, ApiNext, resourceVars, processVars, storageVars
<1>12. ASSUME NEW c \in Calls, Kill(c) PROVE DeleteInv'
      BY <1>12 DEF Kill, Goto, SigKill, AfterKill, storageVars
<1>13. ASSUME NEW c \in Calls, Unlink(c) PROVE DeleteInv'
      BY <1>13 DEF Unlink, Goto, CloseAndRemove, AfterKill, storageVars
<1>14. ASSUME NEW c \in Calls, DeleteTap(c) PROVE DeleteInv'
      BY <1>14 DEF DeleteTap, Goto, DeleteTAPDevice, DeleteTAPDeviceFails,
         UndoStoragePc, processVars, storageVars
<1>15. ASSUME NEW c \in Calls, DeleteJail(c) PROVE DeleteInv'
      BY <1>15 DEF DeleteJail, Goto, CleanupJail, RemoveAll, CleanupFails, SocketsLeft,
         storageVars
<1>16. ASSUME NEW c \in Calls, DeleteStorage(c) PROVE DeleteInv'
      BY <1>16 DEF DeleteStorage, Return, CleanupVMStorage, RemoveAll, CleanupFails,
         SocketsLeft, storageVars
<1>17. ASSUME NEW c \in Calls, CtrlAltDel(c) PROVE DeleteInv'
      BY <1>17, CtrlAltDelStep DEF Goto, resourceVars, processVars, storageVars
<1>18. ASSUME NEW c \in Calls, Term(c) PROVE DeleteInv'
      BY <1>18 DEF Term, Goto, resourceVars, processVars, storageVars
<1>19. ASSUME NEW c \in Calls, CheckTerm(c) PROVE DeleteInv'
      BY <1>19 DEF CheckTerm, Goto, SigKill, storageVars
<1>20. ASSUME NEW i \in Incs, Bind(i) PROVE DeleteInv'
      BY <1>20 DEF Bind, BindSocket, managerVars, storageVars, callVars
<1>21. ASSUME NEW i \in Incs, Exit(i) PROVE DeleteInv'
      BY <1>21 DEF Exit, ExitProcess, managerVars, storageVars, callVars
<1>22. ASSUME NEW i \in Incs, Reap(i) PROVE DeleteInv'
      BY <1>22 DEF Reap, ReapProcess, managerVars, storageVars, callVars
<1>23. CASE Restart
      BY <1>23 DEF Restart, Unborn, storageVars
<1>24. CASE UNCHANGED vars
      BY <1>24 DEF vars, resourceVars, processVars, storageVars, callVars
<1> HIDE DEF IInv, TypeInv, TypeOK, ProcessTypeOK, TapTypeOK, StorageTypeOK, CallTyped,
             CallInv, BeginPcs, CreatePcs, ApiSteps, KillPcs, TeardownPcs, StopPcs,
             LockOps, StopOps, Ops, DeleteInv, RegisteredHasTap, InProgress, LockInv,
             HoldsLock
<1> QED
    BY <1>1, <1>2, <1>3, <1>4, <1>5, <1>6, <1>7, <1>8, <1>9, <1>10, <1>11, <1>12, <1>13,
       <1>14, <1>15, <1>16, <1>17, <1>18, <1>19, <1>20, <1>21, <1>22, <1>23, <1>24 DEF
       Next, Acquire, Step

(* Past the removal of the TAP device it is gone, or known to be leaked.   *)
LEMMA NextTeardownInv == IInv /\ [Next]_vars => TeardownInv'
<1> SUFFICES ASSUME IInv, [Next]_vars
             PROVE  TeardownInv'
    OBVIOUS
<1> USE DEF IInv, TypeInv, TypeOK, ProcessTypeOK, TapTypeOK, StorageTypeOK, CallTyped,
            CallInv, BeginPcs, CreatePcs, ApiSteps, KillPcs, TeardownPcs, StopPcs,
            LockOps, StopOps, Ops, TeardownInv, CreateInv, DeleteInv, StopInv, Dead,
            DirInv, LockInv, HoldsLock, SignalSucceeds, IsRunning, Alive, ProcStates
<1>1. ASSUME NEW c \in Calls, NEW o \in Ops, NEW v \in VmIds, Call(c, o, v)
      PROVE  TeardownInv'
      BY <1>1 DEF Call, resourceVars, processVars, storageVars
<1>2. ASSUME NEW c \in Calls, CreateBegin(c) PROVE TeardownInv'
      BY <1>2 DEF CreateBegin, Return, Unborn, storageVars
<1>3. ASSUME NEW c \in Calls, DeleteBegin(c) PROVE TeardownInv'
      BY <1>3 DEF DeleteBegin, Return, resourceVars, processVars, storageVars
<1>4. ASSUME NEW c \in Calls, StopBegin(c) PROVE TeardownInv'
      BY <1>4 DEF StopBegin, Return, resourceVars, processVars, storageVars
<1>5. ASSUME NEW c \in Calls, MarkStopped(c) PROVE TeardownInv'
      BY <1>5 DEF MarkStopped, Return, resourceVars, processVars, storageVars
<1>6. ASSUME NEW c \in Calls, PrepareStorage(c) PROVE TeardownInv'
      BY <1>6 DEF PrepareStorage, Goto, Return, MakeVmDir, PrepareVMStorageFails,
         SetupJailDirectoryFails, processVars, storageVars
<1>7. ASSUME NEW c \in Calls, CreateTap(c) PROVE TeardownInv'
      BY <1>7, PathAssumption DEF CreateTap, Goto, CreateTAPDevice,
         CreateTAPDeviceFails, CreateTAPDeviceLeaks, UndoStoragePc, processVars,
         storageVars
<1>8. ASSUME NEW c \in Calls, Spawn(c) PROVE TeardownInv'
      BY <1>8 DEF Spawn, Goto, StartProcess, StartProcessFails, FillJail, PopulateJail,
         storageVars
<1>9. ASSUME NEW c \in Calls, Probe(c) PROVE TeardownInv'
      BY <1>9 DEF Probe, Goto, resourceVars, processVars, storageVars
<1>10. ASSUME NEW c \in Calls, WaitSocket(c) PROVE TeardownInv'
      BY <1>10 DEF WaitSocket, Goto, AbandonStart, processVars, storageVars
<1>11. ASSUME NEW c \in Calls, ApiPut(c) PROVE TeardownInv'
      BY <1>11 DEF ApiPut, Goto, Return, ApiNext, resourceVars, processVars, storageVars
<1>12. ASSUME NEW c \in Calls, Kill(c) PROVE TeardownInv'
      BY <1>12 DEF Kill, Goto, SigKill, AfterKill, storageVars
<1>13. ASSUME NEW c \in Calls, Unlink(c) PROVE TeardownInv'
      BY <1>13 DEF Unlink, Goto, CloseAndRemove, AfterKill, storageVars
<1>14. ASSUME NEW c \in Calls, DeleteTap(c) PROVE TeardownInv'
      BY <1>14, PathAssumption DEF DeleteTap, Goto, DeleteTAPDevice,
         DeleteTAPDeviceFails, UndoStoragePc, processVars, storageVars
<1>15. ASSUME NEW c \in Calls, DeleteJail(c) PROVE TeardownInv'
      BY <1>15, PathAssumption, RemovalAssumption DEF JailsFound, DeleteJail, Goto,
         CleanupJail, RemoveAll, CleanupFails, SocketsLeft, storageVars
<1>16. ASSUME NEW c \in Calls, DeleteStorage(c) PROVE TeardownInv'
      BY <1>16 DEF DeleteStorage, Return, CleanupVMStorage, RemoveAll, CleanupFails,
         SocketsLeft, storageVars
<1>17. ASSUME NEW c \in Calls, CtrlAltDel(c) PROVE TeardownInv'
      BY <1>17, CtrlAltDelStep DEF Goto, resourceVars, processVars, storageVars
<1>18. ASSUME NEW c \in Calls, Term(c) PROVE TeardownInv'
      BY <1>18 DEF Term, Goto, resourceVars, processVars, storageVars
<1>19. ASSUME NEW c \in Calls, CheckTerm(c) PROVE TeardownInv'
      BY <1>19 DEF CheckTerm, Goto, SigKill, storageVars
<1>20. ASSUME NEW i \in Incs, Bind(i) PROVE TeardownInv'
      BY <1>20 DEF Bind, BindSocket, managerVars, storageVars, callVars
<1>21. ASSUME NEW i \in Incs, Exit(i) PROVE TeardownInv'
      BY <1>21 DEF Exit, ExitProcess, managerVars, storageVars, callVars
<1>22. ASSUME NEW i \in Incs, Reap(i) PROVE TeardownInv'
      BY <1>22 DEF Reap, ReapProcess, managerVars, storageVars, callVars
<1>23. CASE Restart
      BY <1>23 DEF Restart, Unborn, storageVars
<1>24. CASE UNCHANGED vars
      BY <1>24 DEF vars, resourceVars, processVars, storageVars, callVars
<1> HIDE DEF IInv, TypeInv, TypeOK, ProcessTypeOK, TapTypeOK, StorageTypeOK, CallTyped,
             CallInv, BeginPcs, CreatePcs, ApiSteps, KillPcs, TeardownPcs, StopPcs,
             LockOps, StopOps, Ops, TeardownInv, CreateInv, DeleteInv, StopInv, Dead,
             DirInv, LockInv, HoldsLock, SignalSucceeds, IsRunning, Alive, ProcStates
<1> QED
    BY <1>1, <1>2, <1>3, <1>4, <1>5, <1>6, <1>7, <1>8, <1>9, <1>10, <1>11, <1>12, <1>13,
       <1>14, <1>15, <1>16, <1>17, <1>18, <1>19, <1>20, <1>21, <1>22, <1>23, <1>24 DEF
       Next, Acquire, Step

(* A registered VM owns its TAP device.                                    *)
LEMMA NextRegisteredHasTap == IInv /\ [Next]_vars => RegisteredHasTap'
<1> SUFFICES ASSUME IInv, [Next]_vars
             PROVE  RegisteredHasTap'
    OBVIOUS
<1> USE DEF IInv, TypeInv, TypeOK, ProcessTypeOK, TapTypeOK, StorageTypeOK, CallTyped,
            CallInv, BeginPcs, CreatePcs, ApiSteps, KillPcs, TeardownPcs, StopPcs,
            LockOps, StopOps, Ops, RegisteredHasTap, InProgress, CreateInv, DeleteInv,
            VmsInv, LockInv, HoldsLock
<1>1. ASSUME NEW c \in Calls, NEW o \in Ops, NEW v \in VmIds, Call(c, o, v)
      PROVE  RegisteredHasTap'
      BY <1>1 DEF Call, resourceVars, processVars, storageVars
<1>2. ASSUME NEW c \in Calls, CreateBegin(c) PROVE RegisteredHasTap'
      BY <1>2 DEF CreateBegin, Return, Unborn, storageVars
<1>3. ASSUME NEW c \in Calls, DeleteBegin(c) PROVE RegisteredHasTap'
      BY <1>3 DEF DeleteBegin, Return, resourceVars, processVars, storageVars
<1>4. ASSUME NEW c \in Calls, StopBegin(c) PROVE RegisteredHasTap'
      BY <1>4 DEF StopBegin, Return, resourceVars, processVars, storageVars
<1>5. ASSUME NEW c \in Calls, MarkStopped(c) PROVE RegisteredHasTap'
      BY <1>5 DEF MarkStopped, Return, resourceVars, processVars, storageVars
<1>6. ASSUME NEW c \in Calls, PrepareStorage(c) PROVE RegisteredHasTap'
      BY <1>6 DEF PrepareStorage, Goto, Return, MakeVmDir, PrepareVMStorageFails,
         SetupJailDirectoryFails, processVars, storageVars
<1>7. ASSUME NEW c \in Calls, CreateTap(c) PROVE RegisteredHasTap'
      BY <1>7 DEF CreateTap, Goto, CreateTAPDevice, CreateTAPDeviceFails,
         CreateTAPDeviceLeaks, UndoStoragePc, processVars, storageVars
<1>8. ASSUME NEW c \in Calls, Spawn(c) PROVE RegisteredHasTap'
      BY <1>8 DEF Spawn, Goto, StartProcess, StartProcessFails, FillJail, PopulateJail,
         storageVars
<1>9. ASSUME NEW c \in Calls, Probe(c) PROVE RegisteredHasTap'
      BY <1>9 DEF Probe, Goto, resourceVars, processVars, storageVars
<1>10. ASSUME NEW c \in Calls, WaitSocket(c) PROVE RegisteredHasTap'
      BY <1>10 DEF WaitSocket, Goto, AbandonStart, processVars, storageVars
<1>11. ASSUME NEW c \in Calls, ApiPut(c) PROVE RegisteredHasTap'
      BY <1>11 DEF ApiPut, Goto, Return, ApiNext, resourceVars, processVars, storageVars
<1>12. ASSUME NEW c \in Calls, Kill(c) PROVE RegisteredHasTap'
      BY <1>12 DEF Kill, Goto, SigKill, AfterKill, storageVars
<1>13. ASSUME NEW c \in Calls, Unlink(c) PROVE RegisteredHasTap'
      BY <1>13 DEF Unlink, Goto, CloseAndRemove, AfterKill, storageVars
<1>14. ASSUME NEW c \in Calls, DeleteTap(c) PROVE RegisteredHasTap'
      BY <1>14 DEF DeleteTap, Goto, DeleteTAPDevice, DeleteTAPDeviceFails,
         UndoStoragePc, processVars, storageVars
<1>15. ASSUME NEW c \in Calls, DeleteJail(c) PROVE RegisteredHasTap'
      BY <1>15 DEF DeleteJail, Goto, CleanupJail, RemoveAll, CleanupFails, SocketsLeft,
         storageVars
<1>16. ASSUME NEW c \in Calls, DeleteStorage(c) PROVE RegisteredHasTap'
      BY <1>16 DEF DeleteStorage, Return, CleanupVMStorage, RemoveAll, CleanupFails,
         SocketsLeft, storageVars
<1>17. ASSUME NEW c \in Calls, CtrlAltDel(c) PROVE RegisteredHasTap'
      BY <1>17, CtrlAltDelStep DEF Goto, resourceVars, processVars, storageVars
<1>18. ASSUME NEW c \in Calls, Term(c) PROVE RegisteredHasTap'
      BY <1>18 DEF Term, Goto, resourceVars, processVars, storageVars
<1>19. ASSUME NEW c \in Calls, CheckTerm(c) PROVE RegisteredHasTap'
      BY <1>19 DEF CheckTerm, Goto, SigKill, storageVars
<1>20. ASSUME NEW i \in Incs, Bind(i) PROVE RegisteredHasTap'
      BY <1>20 DEF Bind, BindSocket, managerVars, storageVars, callVars
<1>21. ASSUME NEW i \in Incs, Exit(i) PROVE RegisteredHasTap'
      BY <1>21 DEF Exit, ExitProcess, managerVars, storageVars, callVars
<1>22. ASSUME NEW i \in Incs, Reap(i) PROVE RegisteredHasTap'
      BY <1>22 DEF Reap, ReapProcess, managerVars, storageVars, callVars
<1>23. CASE Restart
      BY <1>23 DEF Restart, Unborn, storageVars
<1>24. CASE UNCHANGED vars
      BY <1>24 DEF vars, resourceVars, processVars, storageVars, callVars
<1> HIDE DEF IInv, TypeInv, TypeOK, ProcessTypeOK, TapTypeOK, StorageTypeOK, CallTyped,
             CallInv, BeginPcs, CreatePcs, ApiSteps, KillPcs, TeardownPcs, StopPcs,
             LockOps, StopOps, Ops, RegisteredHasTap, InProgress, CreateInv, DeleteInv,
             VmsInv, LockInv, HoldsLock
<1> QED
    BY <1>1, <1>2, <1>3, <1>4, <1>5, <1>6, <1>7, <1>8, <1>9, <1>10, <1>11, <1>12, <1>13,
       <1>14, <1>15, <1>16, <1>17, <1>18, <1>19, <1>20, <1>21, <1>22, <1>23, <1>24 DEF
       Next, Acquire, Step

(* Registered VMs have different TAP names: the one being registered owns  *)
(* its device, so no other VM of that name is registered.                  *)
LEMMA NextTapExclusive == IInv /\ [Next]_vars => TapExclusive'
<1> SUFFICES ASSUME IInv, [Next]_vars
             PROVE  TapExclusive'
    OBVIOUS
<1> USE DEF IInv, TypeInv, TypeOK, ProcessTypeOK, TapTypeOK, StorageTypeOK, CallTyped,
            CallInv, BeginPcs, CreatePcs, ApiSteps, KillPcs, TeardownPcs, StopPcs,
            LockOps, StopOps, Ops, TapExclusive, RegisteredHasTap, InProgress, CreateInv,
            VmsInv, LockInv, HoldsLock
<1>1. ASSUME NEW c \in Calls, NEW o \in Ops, NEW v \in VmIds, Call(c, o, v)
      PROVE  TapExclusive'
      BY <1>1 DEF Call, resourceVars, processVars, storageVars
<1>2. ASSUME NEW c \in Calls, CreateBegin(c) PROVE TapExclusive'
      BY <1>2 DEF CreateBegin, Return, Unborn, storageVars
<1>3. ASSUME NEW c \in Calls, DeleteBegin(c) PROVE TapExclusive'
      BY <1>3 DEF DeleteBegin, Return, resourceVars, processVars, storageVars
<1>4. ASSUME NEW c \in Calls, StopBegin(c) PROVE TapExclusive'
      BY <1>4 DEF StopBegin, Return, resourceVars, processVars, storageVars
<1>5. ASSUME NEW c \in Calls, MarkStopped(c) PROVE TapExclusive'
      BY <1>5 DEF MarkStopped, Return, resourceVars, processVars, storageVars
<1>6. ASSUME NEW c \in Calls, PrepareStorage(c) PROVE TapExclusive'
      BY <1>6 DEF PrepareStorage, Goto, Return, MakeVmDir, PrepareVMStorageFails,
         SetupJailDirectoryFails, processVars, storageVars
<1>7. ASSUME NEW c \in Calls, CreateTap(c) PROVE TapExclusive'
      BY <1>7 DEF CreateTap, Goto, CreateTAPDevice, CreateTAPDeviceFails,
         CreateTAPDeviceLeaks, UndoStoragePc, processVars, storageVars
<1>8. ASSUME NEW c \in Calls, Spawn(c) PROVE TapExclusive'
      BY <1>8 DEF Spawn, Goto, StartProcess, StartProcessFails, FillJail, PopulateJail,
         storageVars
<1>9. ASSUME NEW c \in Calls, Probe(c) PROVE TapExclusive'
      BY <1>9 DEF Probe, Goto, resourceVars, processVars, storageVars
<1>10. ASSUME NEW c \in Calls, WaitSocket(c) PROVE TapExclusive'
      BY <1>10 DEF WaitSocket, Goto, AbandonStart, processVars, storageVars
<1>11. ASSUME NEW c \in Calls, ApiPut(c) PROVE TapExclusive'
      BY <1>11 DEF ApiPut, Goto, Return, ApiNext, resourceVars, processVars, storageVars
<1>12. ASSUME NEW c \in Calls, Kill(c) PROVE TapExclusive'
      BY <1>12 DEF Kill, Goto, SigKill, AfterKill, storageVars
<1>13. ASSUME NEW c \in Calls, Unlink(c) PROVE TapExclusive'
      BY <1>13 DEF Unlink, Goto, CloseAndRemove, AfterKill, storageVars
<1>14. ASSUME NEW c \in Calls, DeleteTap(c) PROVE TapExclusive'
      BY <1>14 DEF DeleteTap, Goto, DeleteTAPDevice, DeleteTAPDeviceFails,
         UndoStoragePc, processVars, storageVars
<1>15. ASSUME NEW c \in Calls, DeleteJail(c) PROVE TapExclusive'
      BY <1>15 DEF DeleteJail, Goto, CleanupJail, RemoveAll, CleanupFails, SocketsLeft,
         storageVars
<1>16. ASSUME NEW c \in Calls, DeleteStorage(c) PROVE TapExclusive'
      BY <1>16 DEF DeleteStorage, Return, CleanupVMStorage, RemoveAll, CleanupFails,
         SocketsLeft, storageVars
<1>17. ASSUME NEW c \in Calls, CtrlAltDel(c) PROVE TapExclusive'
      BY <1>17, CtrlAltDelStep DEF Goto, resourceVars, processVars, storageVars
<1>18. ASSUME NEW c \in Calls, Term(c) PROVE TapExclusive'
      BY <1>18 DEF Term, Goto, resourceVars, processVars, storageVars
<1>19. ASSUME NEW c \in Calls, CheckTerm(c) PROVE TapExclusive'
      BY <1>19 DEF CheckTerm, Goto, SigKill, storageVars
<1>20. ASSUME NEW i \in Incs, Bind(i) PROVE TapExclusive'
      BY <1>20 DEF Bind, BindSocket, managerVars, storageVars, callVars
<1>21. ASSUME NEW i \in Incs, Exit(i) PROVE TapExclusive'
      BY <1>21 DEF Exit, ExitProcess, managerVars, storageVars, callVars
<1>22. ASSUME NEW i \in Incs, Reap(i) PROVE TapExclusive'
      BY <1>22 DEF Reap, ReapProcess, managerVars, storageVars, callVars
<1>23. CASE Restart
      BY <1>23 DEF Restart, Unborn, storageVars
<1>24. CASE UNCHANGED vars
      BY <1>24 DEF vars, resourceVars, processVars, storageVars, callVars
<1> HIDE DEF IInv, TypeInv, TypeOK, ProcessTypeOK, TapTypeOK, StorageTypeOK, CallTyped,
             CallInv, BeginPcs, CreatePcs, ApiSteps, KillPcs, TeardownPcs, StopPcs,
             LockOps, StopOps, Ops, TapExclusive, RegisteredHasTap, InProgress, CreateInv,
             VmsInv, LockInv, HoldsLock
<1> QED
    BY <1>1, <1>2, <1>3, <1>4, <1>5, <1>6, <1>7, <1>8, <1>9, <1>10, <1>11, <1>12, <1>13,
       <1>14, <1>15, <1>16, <1>17, <1>18, <1>19, <1>20, <1>21, <1>22, <1>23, <1>24 DEF
       Next, Acquire, Step

(* A process that can run owns the TAP device of its VM.                   *)
LEMMA NextProcInv == IInv /\ [Next]_vars => ProcInv'
<1> SUFFICES ASSUME IInv, [Next]_vars
             PROVE  ProcInv'
    OBVIOUS
<1> USE DEF IInv, TypeInv, TypeOK, ProcessTypeOK, TapTypeOK, StorageTypeOK, CallTyped,
            CallInv, BeginPcs, CreatePcs, ApiSteps, KillPcs, TeardownPcs, StopPcs,
            LockOps, StopOps, Ops, ProcInv, CreateInv, DeleteInv, TeardownInv, VmsInv,
            Accounted, Registered, InProgress, LockInv, HoldsLock, SignalSucceeds,
            IsRunning, Alive, ProcStates
<1>1. ASSUME NEW c \in Calls, NEW o \in Ops, NEW v \in VmIds, Call(c, o, v)
      PROVE  ProcInv'
      BY <1>1 DEF Call, resourceVars, processVars, storageVars
<1>2. ASSUME NEW c \in Calls, CreateBegin(c) PROVE ProcInv'
      BY <1>2 DEF CreateBegin, Return, Unborn, storageVars
<1>3. ASSUME NEW c \in Calls, DeleteBegin(c) PROVE ProcInv'
      BY <1>3 DEF DeleteBegin, Return, resourceVars, processVars, storageVars
<1>4. ASSUME NEW c \in Calls, StopBegin(c) PROVE ProcInv'
      BY <1>4 DEF StopBegin, Return, resourceVars, processVars, storageVars
<1>5. ASSUME NEW c \in Calls, MarkStopped(c) PROVE ProcInv'
      BY <1>5 DEF MarkStopped, Return, resourceVars, processVars, storageVars
<1>6. ASSUME NEW c \in Calls, PrepareStorage(c) PROVE ProcInv'
      BY <1>6 DEF PrepareStorage, Goto, Return, MakeVmDir, PrepareVMStorageFails,
         SetupJailDirectoryFails, processVars, storageVars
<1>7. ASSUME NEW c \in Calls, CreateTap(c) PROVE ProcInv'
      BY <1>7 DEF CreateTap, Goto, CreateTAPDevice, CreateTAPDeviceFails,
         CreateTAPDeviceLeaks, UndoStoragePc, processVars, storageVars
<1>8. ASSUME NEW c \in Calls, Spawn(c) PROVE ProcInv'
      BY <1>8 DEF Spawn, Goto, StartProcess, StartProcessFails, FillJail, PopulateJail,
         storageVars
<1>9. ASSUME NEW c \in Calls, Probe(c) PROVE ProcInv'
      BY <1>9 DEF Probe, Goto, resourceVars, processVars, storageVars
<1>10. ASSUME NEW c \in Calls, WaitSocket(c) PROVE ProcInv'
      BY <1>10 DEF WaitSocket, Goto, AbandonStart, processVars, storageVars
<1>11. ASSUME NEW c \in Calls, ApiPut(c) PROVE ProcInv'
      BY <1>11 DEF ApiPut, Goto, Return, ApiNext, resourceVars, processVars, storageVars
<1>12. ASSUME NEW c \in Calls, Kill(c) PROVE ProcInv'
      BY <1>12 DEF Kill, Goto, SigKill, AfterKill, storageVars
<1>13. ASSUME NEW c \in Calls, Unlink(c) PROVE ProcInv'
      BY <1>13 DEF Unlink, Goto, CloseAndRemove, AfterKill, storageVars
<1>14. ASSUME NEW c \in Calls, DeleteTap(c) PROVE ProcInv'
      BY <1>14 DEF DeleteTap, Goto, DeleteTAPDevice, DeleteTAPDeviceFails,
         UndoStoragePc, processVars, storageVars
<1>15. ASSUME NEW c \in Calls, DeleteJail(c) PROVE ProcInv'
      BY <1>15 DEF DeleteJail, Goto, CleanupJail, RemoveAll, CleanupFails, SocketsLeft,
         storageVars
<1>16. ASSUME NEW c \in Calls, DeleteStorage(c) PROVE ProcInv'
      BY <1>16 DEF DeleteStorage, Return, CleanupVMStorage, RemoveAll, CleanupFails,
         SocketsLeft, storageVars
<1>17. ASSUME NEW c \in Calls, CtrlAltDel(c) PROVE ProcInv'
      BY <1>17, CtrlAltDelStep DEF Goto, resourceVars, processVars, storageVars
<1>18. ASSUME NEW c \in Calls, Term(c) PROVE ProcInv'
      BY <1>18 DEF Term, Goto, resourceVars, processVars, storageVars
<1>19. ASSUME NEW c \in Calls, CheckTerm(c) PROVE ProcInv'
      BY <1>19 DEF CheckTerm, Goto, SigKill, storageVars
<1>20. ASSUME NEW i \in Incs, Bind(i) PROVE ProcInv'
      BY <1>20 DEF Bind, BindSocket, managerVars, storageVars, callVars
<1>21. ASSUME NEW i \in Incs, Exit(i) PROVE ProcInv'
      BY <1>21 DEF Exit, ExitProcess, managerVars, storageVars, callVars
<1>22. ASSUME NEW i \in Incs, Reap(i) PROVE ProcInv'
      BY <1>22 DEF Reap, ReapProcess, managerVars, storageVars, callVars
<1>23. CASE Restart
      BY <1>23 DEF Restart, Unborn, storageVars
<1>24. CASE UNCHANGED vars
      BY <1>24 DEF vars, resourceVars, processVars, storageVars, callVars
<1> HIDE DEF IInv, TypeInv, TypeOK, ProcessTypeOK, TapTypeOK, StorageTypeOK, CallTyped,
             CallInv, BeginPcs, CreatePcs, ApiSteps, KillPcs, TeardownPcs, StopPcs,
             LockOps, StopOps, Ops, ProcInv, CreateInv, DeleteInv, TeardownInv, VmsInv,
             Accounted, Registered, InProgress, LockInv, HoldsLock, SignalSucceeds,
             IsRunning, Alive, ProcStates
<1> QED
    BY <1>1, <1>2, <1>3, <1>4, <1>5, <1>6, <1>7, <1>8, <1>9, <1>10, <1>11, <1>12, <1>13,
       <1>14, <1>15, <1>16, <1>17, <1>18, <1>19, <1>20, <1>21, <1>22, <1>23, <1>24 DEF
       Next, Acquire, Step

(* The owner of a TAP device is registered, under way or given up.         *)
LEMMA NextTapInv == IInv /\ [Next]_vars => TapInv'
<1> SUFFICES ASSUME IInv, [Next]_vars
             PROVE  TapInv'
    OBVIOUS
<1> USE DEF IInv, TypeInv, TypeOK, ProcessTypeOK, TapTypeOK, StorageTypeOK, CallTyped,
            CallInv, BeginPcs, CreatePcs, ApiSteps, KillPcs, TeardownPcs, StopPcs,
            LockOps, StopOps, Ops, TapInv, CreateInv, DeleteInv, TeardownInv, VmsInv,
            Accounted, Registered, InProgress, LockInv, HoldsLock
<1>1. ASSUME NEW c \in Calls, NEW o \in Ops, NEW v \in VmIds, Call(c, o, v)
      PROVE  TapInv'
      BY <1>1 DEF Call, resourceVars, processVars, storageVars
<1>2. ASSUME NEW c \in Calls, CreateBegin(c) PROVE TapInv'
      BY <1>2 DEF CreateBegin, Return, Unborn, storageVars
<1>3. ASSUME NEW c \in Calls, DeleteBegin(c) PROVE TapInv'
      BY <1>3 DEF DeleteBegin, Return, resourceVars, processVars, storageVars
<1>4. ASSUME NEW c \in Calls, StopBegin(c) PROVE TapInv'
      BY <1>4 DEF StopBegin, Return, resourceVars, processVars, storageVars
<1>5. ASSUME NEW c \in Calls, MarkStopped(c) PROVE TapInv'
      BY <1>5 DEF MarkStopped, Return, resourceVars, processVars, storageVars
<1>6. ASSUME NEW c \in Calls, PrepareStorage(c) PROVE TapInv'
      BY <1>6 DEF PrepareStorage, Goto, Return, MakeVmDir, PrepareVMStorageFails,
         SetupJailDirectoryFails, processVars, storageVars
<1>7. ASSUME NEW c \in Calls, CreateTap(c) PROVE TapInv'
      BY <1>7 DEF CreateTap, Goto, CreateTAPDevice, CreateTAPDeviceFails,
         CreateTAPDeviceLeaks, UndoStoragePc, processVars, storageVars
<1>8. ASSUME NEW c \in Calls, Spawn(c) PROVE TapInv'
      BY <1>8 DEF Spawn, Goto, StartProcess, StartProcessFails, FillJail, PopulateJail,
         storageVars
<1>9. ASSUME NEW c \in Calls, Probe(c) PROVE TapInv'
      BY <1>9 DEF Probe, Goto, resourceVars, processVars, storageVars
<1>10. ASSUME NEW c \in Calls, WaitSocket(c) PROVE TapInv'
      BY <1>10 DEF WaitSocket, Goto, AbandonStart, processVars, storageVars
<1>11. ASSUME NEW c \in Calls, ApiPut(c) PROVE TapInv'
      BY <1>11 DEF ApiPut, Goto, Return, ApiNext, resourceVars, processVars, storageVars
<1>12. ASSUME NEW c \in Calls, Kill(c) PROVE TapInv'
      BY <1>12 DEF Kill, Goto, SigKill, AfterKill, storageVars
<1>13. ASSUME NEW c \in Calls, Unlink(c) PROVE TapInv'
      BY <1>13 DEF Unlink, Goto, CloseAndRemove, AfterKill, storageVars
<1>14. ASSUME NEW c \in Calls, DeleteTap(c) PROVE TapInv'
      BY <1>14 DEF DeleteTap, Goto, DeleteTAPDevice, DeleteTAPDeviceFails,
         UndoStoragePc, processVars, storageVars
<1>15. ASSUME NEW c \in Calls, DeleteJail(c) PROVE TapInv'
      BY <1>15 DEF DeleteJail, Goto, CleanupJail, RemoveAll, CleanupFails, SocketsLeft,
         storageVars
<1>16. ASSUME NEW c \in Calls, DeleteStorage(c) PROVE TapInv'
      BY <1>16 DEF DeleteStorage, Return, CleanupVMStorage, RemoveAll, CleanupFails,
         SocketsLeft, storageVars
<1>17. ASSUME NEW c \in Calls, CtrlAltDel(c) PROVE TapInv'
      BY <1>17, CtrlAltDelStep DEF Goto, resourceVars, processVars, storageVars
<1>18. ASSUME NEW c \in Calls, Term(c) PROVE TapInv'
      BY <1>18 DEF Term, Goto, resourceVars, processVars, storageVars
<1>19. ASSUME NEW c \in Calls, CheckTerm(c) PROVE TapInv'
      BY <1>19 DEF CheckTerm, Goto, SigKill, storageVars
<1>20. ASSUME NEW i \in Incs, Bind(i) PROVE TapInv'
      BY <1>20 DEF Bind, BindSocket, managerVars, storageVars, callVars
<1>21. ASSUME NEW i \in Incs, Exit(i) PROVE TapInv'
      BY <1>21 DEF Exit, ExitProcess, managerVars, storageVars, callVars
<1>22. ASSUME NEW i \in Incs, Reap(i) PROVE TapInv'
      BY <1>22 DEF Reap, ReapProcess, managerVars, storageVars, callVars
<1>23. CASE Restart
      BY <1>23 DEF Restart, Unborn, storageVars
<1>24. CASE UNCHANGED vars
      BY <1>24 DEF vars, resourceVars, processVars, storageVars, callVars
<1> HIDE DEF IInv, TypeInv, TypeOK, ProcessTypeOK, TapTypeOK, StorageTypeOK, CallTyped,
             CallInv, BeginPcs, CreatePcs, ApiSteps, KillPcs, TeardownPcs, StopPcs,
             LockOps, StopOps, Ops, TapInv, CreateInv, DeleteInv, TeardownInv, VmsInv,
             Accounted, Registered, InProgress, LockInv, HoldsLock
<1> QED
    BY <1>1, <1>2, <1>3, <1>4, <1>5, <1>6, <1>7, <1>8, <1>9, <1>10, <1>11, <1>12, <1>13,
       <1>14, <1>15, <1>16, <1>17, <1>18, <1>19, <1>20, <1>21, <1>22, <1>23, <1>24 DEF
       Next, Acquire, Step

(* The owner of a jail is registered, under way or given up.               *)
LEMMA NextDirInv == IInv /\ [Next]_vars => DirInv'
<1> SUFFICES ASSUME IInv, [Next]_vars
             PROVE  DirInv'
    OBVIOUS
<1> USE DEF IInv, TypeInv, TypeOK, ProcessTypeOK, TapTypeOK, StorageTypeOK, CallTyped,
            CallInv, BeginPcs, CreatePcs, ApiSteps, KillPcs, TeardownPcs, StopPcs,
            LockOps, StopOps, Ops, DirInv, CreateInv, DeleteInv, TeardownInv, VmsInv,
            Accounted, Registered, InProgress, LockInv, HoldsLock
<1>1. ASSUME NEW c \in Calls, NEW o \in Ops, NEW v \in VmIds, Call(c, o, v)
      PROVE  DirInv'
      BY <1>1 DEF Call, resourceVars, processVars, storageVars
<1>2. ASSUME NEW c \in Calls, CreateBegin(c) PROVE DirInv'
      BY <1>2 DEF CreateBegin, Return, Unborn, storageVars
<1>3. ASSUME NEW c \in Calls, DeleteBegin(c) PROVE DirInv'
      BY <1>3 DEF DeleteBegin, Return, resourceVars, processVars, storageVars
<1>4. ASSUME NEW c \in Calls, StopBegin(c) PROVE DirInv'
      BY <1>4 DEF StopBegin, Return, resourceVars, processVars, storageVars
<1>5. ASSUME NEW c \in Calls, MarkStopped(c) PROVE DirInv'
      BY <1>5 DEF MarkStopped, Return, resourceVars, processVars, storageVars
<1>6. ASSUME NEW c \in Calls, PrepareStorage(c) PROVE DirInv'
      BY <1>6 DEF PrepareStorage, Goto, Return, MakeVmDir, PrepareVMStorageFails,
         SetupJailDirectoryFails, processVars, storageVars
<1>7. ASSUME NEW c \in Calls, CreateTap(c) PROVE DirInv'
      BY <1>7 DEF CreateTap, Goto, CreateTAPDevice, CreateTAPDeviceFails,
         CreateTAPDeviceLeaks, UndoStoragePc, processVars, storageVars
<1>8. ASSUME NEW c \in Calls, Spawn(c) PROVE DirInv'
      BY <1>8 DEF Spawn, Goto, StartProcess, StartProcessFails, FillJail, PopulateJail,
         storageVars
<1>9. ASSUME NEW c \in Calls, Probe(c) PROVE DirInv'
      BY <1>9 DEF Probe, Goto, resourceVars, processVars, storageVars
<1>10. ASSUME NEW c \in Calls, WaitSocket(c) PROVE DirInv'
      BY <1>10 DEF WaitSocket, Goto, AbandonStart, processVars, storageVars
<1>11. ASSUME NEW c \in Calls, ApiPut(c) PROVE DirInv'
      BY <1>11 DEF ApiPut, Goto, Return, ApiNext, resourceVars, processVars, storageVars
<1>12. ASSUME NEW c \in Calls, Kill(c) PROVE DirInv'
      BY <1>12 DEF Kill, Goto, SigKill, AfterKill, storageVars
<1>13. ASSUME NEW c \in Calls, Unlink(c) PROVE DirInv'
      BY <1>13 DEF Unlink, Goto, CloseAndRemove, AfterKill, storageVars
<1>14. ASSUME NEW c \in Calls, DeleteTap(c) PROVE DirInv'
      BY <1>14 DEF DeleteTap, Goto, DeleteTAPDevice, DeleteTAPDeviceFails,
         UndoStoragePc, processVars, storageVars
<1>15. ASSUME NEW c \in Calls, DeleteJail(c) PROVE DirInv'
      BY <1>15 DEF DeleteJail, Goto, CleanupJail, RemoveAll, CleanupFails, SocketsLeft,
         storageVars
<1>16. ASSUME NEW c \in Calls, DeleteStorage(c) PROVE DirInv'
      BY <1>16, PathAssumption, RemovalAssumption DEF DeleteStorage, Return,
         CleanupVMStorage, RemoveAll, CleanupFails, SocketsLeft, storageVars
<1>17. ASSUME NEW c \in Calls, CtrlAltDel(c) PROVE DirInv'
      BY <1>17, CtrlAltDelStep DEF Goto, resourceVars, processVars, storageVars
<1>18. ASSUME NEW c \in Calls, Term(c) PROVE DirInv'
      BY <1>18 DEF Term, Goto, resourceVars, processVars, storageVars
<1>19. ASSUME NEW c \in Calls, CheckTerm(c) PROVE DirInv'
      BY <1>19 DEF CheckTerm, Goto, SigKill, storageVars
<1>20. ASSUME NEW i \in Incs, Bind(i) PROVE DirInv'
      BY <1>20 DEF Bind, BindSocket, managerVars, storageVars, callVars
<1>21. ASSUME NEW i \in Incs, Exit(i) PROVE DirInv'
      BY <1>21 DEF Exit, ExitProcess, managerVars, storageVars, callVars
<1>22. ASSUME NEW i \in Incs, Reap(i) PROVE DirInv'
      BY <1>22 DEF Reap, ReapProcess, managerVars, storageVars, callVars
<1>23. CASE Restart
      BY <1>23 DEF Restart, Unborn, storageVars
<1>24. CASE UNCHANGED vars
      BY <1>24 DEF vars, resourceVars, processVars, storageVars, callVars
<1> HIDE DEF IInv, TypeInv, TypeOK, ProcessTypeOK, TapTypeOK, StorageTypeOK, CallTyped,
             CallInv, BeginPcs, CreatePcs, ApiSteps, KillPcs, TeardownPcs, StopPcs,
             LockOps, StopOps, Ops, DirInv, CreateInv, DeleteInv, TeardownInv, VmsInv,
             Accounted, Registered, InProgress, LockInv, HoldsLock
<1> QED
    BY <1>1, <1>2, <1>3, <1>4, <1>5, <1>6, <1>7, <1>8, <1>9, <1>10, <1>11, <1>12, <1>13,
       <1>14, <1>15, <1>16, <1>17, <1>18, <1>19, <1>20, <1>21, <1>22, <1>23, <1>24 DEF
       Next, Acquire, Step

----------------------------------------------------------------------------
(* The inductive invariant.                                                *)

LEMMA InitIInv == Init => IInv
<1> SUFFICES ASSUME Init
             PROVE  IInv
    OBVIOUS
<1>1. TypeInv
      BY InitTypeInv
<1>2. CallInv /\ LockInv /\ CreateInv /\ DeleteInv /\ TeardownInv /\ StopInv
      BY DEF Init, ProcessInit, CallInv, LockInv, CreateInv, DeleteInv, TeardownInv,
         StopInv, HoldsLock, BeginPcs, CreatePcs, ApiSteps, KillPcs, TeardownPcs,
         StopPcs
<1>3. VmsInv /\ RegisteredHasTap /\ TapExclusive
      BY DEF Init, VmsInv, RegisteredHasTap, TapExclusive
<1>4. ProcInv /\ TapInv /\ DirInv
      BY DEF Init, ProcessInit, TapInit, StorageInit, ProcInv, TapInv, DirInv, Alive
<1> QED
    BY <1>1, <1>2, <1>3, <1>4 DEF IInv

LEMMA NextIInv == IInv /\ [Next]_vars => IInv'
<1> SUFFICES ASSUME IInv, [Next]_vars
             PROVE  IInv'
    OBVIOUS
<1>1. TypeInv'
      BY NextTypeInv DEF IInv
<1> QED
    BY <1>1, NextCallInv, NextLockInv, NextVmsInv, NextStopInv, NextCreateInv,
       NextDeleteInv, NextTeardownInv, NextRegisteredHasTap, NextTapExclusive,
       NextProcInv, NextTapInv, NextDirInv DEF IInv

(* What IInv says of the point each call is at, of the registry, and of the *)
(* owners of processes, TAP devices and directories, holds at all times.    *)
THEOREM Invariant == Spec => []IInv
  BY InitIInv, NextIInv, PTL DEF Spec

(* Every variable keeps its type: no call works on a VM it did not find or *)
(* make, and nothing but an incarnation is recorded for a resource.        *)
THEOREM TypeCorrect == Spec => []TypeOK
<1>1. IInv => TypeOK
      BY DEF IInv, TypeInv
<1> QED
    BY <1>1, Invariant, PTL

(* CreateVM and DeleteVM calls exclude each other and never return with    *)
(* m.mu held.                                                              *)
THEOREM MutualExclusion == Spec => []LockInv
<1>1. IInv => LockInv
      BY DEF IInv
<1> QED
    BY <1>1, Invariant, PTL

(* Two VMs whose ids give one TAP device name are never both registered.   *)
THEOREM TapNamesExclusive == Spec => []TapExclusive
<1>1. IInv => TapExclusive
      BY DEF IInv
<1> QED
    BY <1>1, Invariant, PTL

(* A VM set to VM_STATE_STOPPED has a process that can run no more, for    *)
(* every interleaving of StopVM with other StopVM, DeleteVM and CreateVM.  *)
THEOREM StoppedVmsAreDead == Spec => []StoppedIsDead
<1>1. IInv => StoppedIsDead
      BY DEF IInv, StopInv, Dead, StoppedIsDead, Alive
<1> QED
    BY <1>1, Invariant, PTL

(* Every failure of CreateVM undoes the TAP device, or cannot.             *)
THEOREM TapsAccounted == Spec => []NoTapLeak
<1>1. IInv => NoTapLeak
      BY DEF IInv, TapInv, NoTapLeak, Accounted
<1> QED
    BY <1>1, Invariant, PTL

(* No deleted VM and no failed creation leaves a Firecracker process that  *)
(* can run.                                                                *)
THEOREM ProcessesAccounted == Spec => []NoStrayProcess
<1>1. IInv => NoStrayProcess
      <2> SUFFICES ASSUME IInv, NEW i \in Incs, proc[i] \in Alive
                   PROVE  Registered(i) \/ InProgress(i) \/ i \in abandoned
          BY DEF NoStrayProcess
      <2>1. Accounted(i) /\ i # None
            BY DEF IInv, ProcInv
      <2> QED
          BY <2>1 DEF Accounted
<1> QED
    BY <1>1, Invariant, PTL

(* At any time one process that can run has a given TAP device, and so a   *)
(* given VM id: not even an agent that restarted among orphans starts a    *)
(* second one, since the device the orphan holds makes CreateVM fail.      *)
THEOREM OneProcessPerTap == Spec => []SingleLiveProcess
<1>1. IInv => SingleLiveProcess
      BY DEF IInv, ProcInv, SingleLiveProcess
<1> QED
    BY <1>1, Invariant, PTL

(* With the jailer, every failure undoes the directories too, the jails    *)
(* where CleanupJail looks for them at the paths they were made at.        *)
THEOREM DirsAccounted ==
  ASSUME UseJailer, JailsFound
  PROVE  Spec => []NoDirLeak
<1>1. IInv => NoDirLeak
      BY DEF IInv, DirInv, NoDirLeak, Accounted
<1> QED
    BY <1>1, Invariant, PTL

----------------------------------------------------------------------------
(* What depends on the VMs' directories being their own: on ids that are   *)
(* plain file names, and on none being "firecracker".                      *)

(* No directory of a VM is one that another's calls make or remove.        *)
LEMMA OwnDirsApart ==
  ASSUME OwnDirs, NEW v \in VmIds, NEW w \in VmIds, v # w
  PROVE  /\ VmPath[v] # VmPath[w]
         /\ VmPath[v] \notin Under[VmPath[w]]
         /\ UseJailer => /\ JailPath[v] # JailPath[w]
                         /\ JailPath[v] \notin Under[VmPath[w]]
                         /\ VmPath[v] \notin Under[JailCleanupPath[w]]
                         /\ JailPath[v] \notin Under[JailCleanupPath[w]]
  BY PathAssumption, RemovalAssumption DEF OwnDirs, JailsFound, Dirs, Removed

(* A registered VM keeps its TAP device, its directory and its jail.       *)
LEMMA NextResources ==
  ASSUME OwnDirs, IInv, RegisteredHasResources, [Next]_vars
  PROVE  RegisteredHasResources'
<1> USE DEF IInv, TypeInv, TypeOK, ProcessTypeOK, TapTypeOK, StorageTypeOK, CallTyped,
            CallInv, BeginPcs, CreatePcs, ApiSteps, KillPcs, TeardownPcs, StopPcs,
            LockOps, StopOps, Ops, RegisteredHasResources, InProgress, CreateInv,
            DeleteInv, VmsInv, LockInv, HoldsLock
<1>1. ASSUME NEW c \in Calls, NEW o \in Ops, NEW v \in VmIds, Call(c, o, v)
      PROVE  RegisteredHasResources'
      BY <1>1 DEF Call, resourceVars, processVars, storageVars
<1>2. ASSUME NEW c \in Calls, CreateBegin(c) PROVE RegisteredHasResources'
      BY <1>2 DEF CreateBegin, Return, Unborn, storageVars
<1>3. ASSUME NEW c \in Calls, DeleteBegin(c) PROVE RegisteredHasResources'
      BY <1>3 DEF DeleteBegin, Return, resourceVars, processVars, storageVars
<1>4. ASSUME NEW c \in Calls, StopBegin(c) PROVE RegisteredHasResources'
      BY <1>4 DEF StopBegin, Return, resourceVars, processVars, storageVars
<1>5. ASSUME NEW c \in Calls, MarkStopped(c) PROVE RegisteredHasResources'
      BY <1>5 DEF MarkStopped, Return, resourceVars, processVars, storageVars
<1>6. ASSUME NEW c \in Calls, PrepareStorage(c) PROVE RegisteredHasResources'
      BY <1>6, PathAssumption, OwnDirsApart DEF PrepareStorage, Goto, Return, MakeVmDir,
         PrepareVMStorageFails, SetupJailDirectoryFails, processVars, storageVars
<1>7. ASSUME NEW c \in Calls, CreateTap(c) PROVE RegisteredHasResources'
      BY <1>7 DEF CreateTap, Goto, CreateTAPDevice, CreateTAPDeviceFails,
         CreateTAPDeviceLeaks, UndoStoragePc, processVars, storageVars
<1>8. ASSUME NEW c \in Calls, Spawn(c) PROVE RegisteredHasResources'
      BY <1>8, PathAssumption, OwnDirsApart DEF Spawn, Goto, StartProcess,
         StartProcessFails, FillJail, PopulateJail, storageVars
<1>9. ASSUME NEW c \in Calls, Probe(c) PROVE RegisteredHasResources'
      BY <1>9 DEF Probe, Goto, resourceVars, processVars, storageVars
<1>10. ASSUME NEW c \in Calls, WaitSocket(c) PROVE RegisteredHasResources'
      BY <1>10 DEF WaitSocket, Goto, AbandonStart, processVars, storageVars
<1>11. ASSUME NEW c \in Calls, ApiPut(c) PROVE RegisteredHasResources'
      BY <1>11 DEF ApiPut, Goto, Return, ApiNext, resourceVars, processVars, storageVars
<1>12. ASSUME NEW c \in Calls, Kill(c) PROVE RegisteredHasResources'
      BY <1>12 DEF Kill, Goto, SigKill, AfterKill, storageVars
<1>13. ASSUME NEW c \in Calls, Unlink(c) PROVE RegisteredHasResources'
      BY <1>13 DEF Unlink, Goto, CloseAndRemove, AfterKill, storageVars
<1>14. ASSUME NEW c \in Calls, DeleteTap(c) PROVE RegisteredHasResources'
      BY <1>14 DEF DeleteTap, Goto, DeleteTAPDevice, DeleteTAPDeviceFails,
         UndoStoragePc, processVars, storageVars
<1>15. ASSUME NEW c \in Calls, DeleteJail(c) PROVE RegisteredHasResources'
      BY <1>15, PathAssumption, OwnDirsApart DEF DeleteJail, Goto, CleanupJail,
         RemoveAll, CleanupFails, TeardownInv, storageVars
<1>16. ASSUME NEW c \in Calls, DeleteStorage(c) PROVE RegisteredHasResources'
      <2>1. /\ mu = c /\ arg[c] \in VmIds /\ vmOf[ptr[c]] = arg[c]
            /\ UNCHANGED <<vmOf, tap>>
            BY <1>16 DEF DeleteStorage
      <2> SUFFICES ASSUME NEW v \in VmIds, vms'[v] # None
                   PROVE  /\ vmOf[vms'[v]] = v
                          /\ tap[TapName[v]] = vms'[v]
                          /\ vmDir'[VmPath[v]] = vms'[v]
                          /\ UseJailer => jailDir'[JailPath[v]] = vms'[v]
          BY <2>1
      <2>2. v # arg[c] /\ vms'[v] = vms[v]
            BY <1>16, <2>1 DEF DeleteStorage
      <2>3. vms[v] # ptr[c]
            BY <2>1, <2>2
      <2>4. /\ vmDir'[VmPath[v]] = vmDir[VmPath[v]]
            /\ UseJailer => jailDir'[JailPath[v]] = jailDir[JailPath[v]]
            BY <1>16, <2>1, <2>2, PathAssumption, OwnDirsApart DEF DeleteStorage,
               CleanupVMStorage, RemoveAll, CleanupFails, storageVars
      <2> QED
          BY <2>1, <2>2, <2>3, <2>4
<1>17. ASSUME NEW c \in Calls, CtrlAltDel(c) PROVE RegisteredHasResources'
      BY <1>17, CtrlAltDelStep DEF Goto, resourceVars, processVars, storageVars
<1>18. ASSUME NEW c \in Calls, Term(c) PROVE RegisteredHasResources'
      BY <1>18 DEF Term, Goto, resourceVars, processVars, storageVars
<1>19. ASSUME NEW c \in Calls, CheckTerm(c) PROVE RegisteredHasResources'
      BY <1>19 DEF CheckTerm, Goto, SigKill, storageVars
<1>20. ASSUME NEW i \in Incs, Bind(i) PROVE RegisteredHasResources'
      BY <1>20 DEF Bind, BindSocket, managerVars, storageVars, callVars
<1>21. ASSUME NEW i \in Incs, Exit(i) PROVE RegisteredHasResources'
      BY <1>21 DEF Exit, ExitProcess, managerVars, storageVars, callVars
<1>22. ASSUME NEW i \in Incs, Reap(i) PROVE RegisteredHasResources'
      BY <1>22 DEF Reap, ReapProcess, managerVars, storageVars, callVars
<1>23. CASE Restart
      BY <1>23 DEF Restart, Unborn, storageVars
<1>24. CASE UNCHANGED vars
      BY <1>24 DEF vars, resourceVars, processVars, storageVars, callVars
<1> HIDE DEF IInv, TypeInv, TypeOK, ProcessTypeOK, TapTypeOK, StorageTypeOK, CallTyped,
             CallInv, BeginPcs, CreatePcs, ApiSteps, KillPcs, TeardownPcs, StopPcs,
             LockOps, StopOps, Ops, RegisteredHasResources, InProgress, CreateInv,
             DeleteInv, VmsInv, LockInv, HoldsLock
<1> QED
    BY <1>1, <1>2, <1>3, <1>4, <1>5, <1>6, <1>7, <1>8, <1>9, <1>10, <1>11, <1>12, <1>13,
       <1>14, <1>15, <1>16, <1>17, <1>18, <1>19, <1>20, <1>21, <1>22, <1>23, <1>24 DEF
       Next, Acquire, Step

(* Of VMs with directories of their own: no interleaving of calls, no      *)
(* failed creation and no deletion of another takes a resource away from a *)
(* registered one.                                                         *)
THEOREM ResourcesKept ==
  ASSUME OwnDirs
  PROVE  Spec => []RegisteredHasResources
<1>1. Init => RegisteredHasResources
      BY DEF Init, RegisteredHasResources
<1>2. IInv /\ RegisteredHasResources /\ [Next]_vars => RegisteredHasResources'
      BY NextResources
<1> QED
    BY <1>1, <1>2, Invariant, PTL DEF Spec
=============================================================================
