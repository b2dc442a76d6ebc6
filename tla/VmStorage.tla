------------------------------ MODULE VmStorage ------------------------------
(***************************************************************************)
(* The directories of the VMs (src/internal/storage/manager.go, and the    *)
(* jail StartJailedProcess fills in src/internal/firecracker/jailer.go):   *)
(*    vmDir[p]    the VM directory at path p, if there is one              *)
(*    jailDir[p]  the jail at path p                                       *)
(* A directory remembers the incarnation whose files it holds: making one  *)
(* that exists is no error, and the files in it are overwritten.           *)
(***************************************************************************)
EXTENDS VmIdentity

CONSTANTS JailCleanupPath,  \* VM id -> where CleanupJail looks for its jail
          Under             \* path -> the paths os.RemoveAll of it removes

ASSUME RemovalAssumption ==
  /\ JailCleanupPath \in [VmIds -> Paths]
  /\ Under \in [Paths -> SUBSET Paths]
  /\ \A p \in Paths : p \in Under[p]

VARIABLES vmDir, jailDir

storageVars == <<vmDir, jailDir>>

StorageTypeOK ==
  /\ vmDir \in [Paths -> Incs \cup {None}]
  /\ jailDir \in [Paths -> Incs \cup {None}]

StorageInit ==
  /\ vmDir = [p \in Paths |-> None]
  /\ jailDir = [p \in Paths |-> None]

(* PrepareVMStorage makes the directory, then copies kernel and rootfs into *)
(* it (or makes the overlay).  SetupJailDirectory only makes the directory. *)
MakeVmDir(v, i) ==
  /\ vmDir' = [vmDir EXCEPT ![VmPath[v]] = i]
  /\ UNCHANGED jailDir

(* An error of mkdir leaves nothing; an error of a copy leaves the         *)
(* directory with what was copied into it.                                 *)
PrepareVMStorageFails(v, i) ==
  \/ UNCHANGED storageVars
  \/ MakeVmDir(v, i)

SetupJailDirectoryFails == UNCHANGED storageVars

(* Steps 1 and 2 of StartJailedProcess.                                    *)
PopulateJail(v, i) ==
  /\ jailDir' = [jailDir EXCEPT ![JailPath[v]] = i]
  /\ UNCHANGED vmDir

(* os.RemoveAll *)
RemoveAll(path) ==
  /\ vmDir' = [p \in Paths |-> IF p \in Under[path] THEN None ELSE vmDir[p]]
  /\ jailDir' = [p \in Paths |-> IF p \in Under[path] THEN None ELSE jailDir[p]]

(* Deviation: the parent of the jails is removed.                          *)
CleanupJailParent(v) ==
  /\ jailDir' = [p \in Paths |-> None]
  /\ UNCHANGED vmDir

CleanupJail(v) == RemoveAll(JailCleanupPath[v])

(* Deviation: the directory is left where it is.                          *)
CleanupVMStorageKeeps(v) == UNCHANGED storageVars

CleanupVMStorage(v) == RemoveAll(VmPath[v])

(* A failed removal leaves the directory with the agent none the wiser.    *)
CleanupFails == UNCHANGED storageVars

(* The directories socket files live in, and what is left of the socket    *)
(* files s once directories have been removed.                             *)
SocketDir == IF UseJailer THEN jailDir ELSE vmDir

SocketsLeft(s) ==
  [p \in Paths |-> IF SocketDir'[p] = None THEN None ELSE s[p]]

----------------------------------------------------------------------------
(* CleanupJail finds the jails where StartJailedProcess made them.         *)
JailsFound == UseJailer => \A v \in VmIds : JailPath[v] \in Under[JailCleanupPath[v]]

(* The directories a VM of this id works in, and those its cleanup removes. *)
Dirs(v) == {VmPath[v]} \cup (IF UseJailer THEN {JailPath[v]} ELSE {})
Removed(v) == Under[VmPath[v]] \cup (IF UseJailer THEN Under[JailCleanupPath[v]] ELSE {})

(* The premise of what is said of directories and sockets below: no id's   *)
(* directories are made or removed by another's calls.  It holds of ids    *)
(* that are plain file names other than "firecracker", not of "v1/", "..", *)
(* ".", or "x/../v1" beside "v1"; nothing in the code refuses those.       *)
OwnDirs ==
  /\ JailsFound
  /\ \A v, w \in VmIds : v # w => Dirs(v) \cap Removed(w) = {}
=============================================================================
