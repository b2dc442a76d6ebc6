----------------------------- MODULE VmIdentity ------------------------------
(***************************************************************************)
(* What the components of the Firecracker manager share: the ids clients   *)
(* give VMs, the directories those ids name, and the incarnations of VMs.  *)
(* Every CreateVM that passes the "already exists" check makes a new       *)
(* incarnation, the VM value with its VMProcess; host resources            *)
(* (processes, TAP devices, directories, socket files) remember the        *)
(* incarnation that made them.                                             *)
(*                                                                         *)
(* A directory is derived from an id by filepath.Join, which cleans the    *)
(* result, and only the empty id is refused: ids may share a directory.    *)
(* VmPath and JailPath are therefore any functions; VmPaths says which     *)
(* they are for a given id.                                                *)
(***************************************************************************)
CONSTANTS VmIds,      \* the ids clients name VMs by
          Incs,       \* incarnations: bounds the number of creations
          None,
          UseJailer,  \* config firecracker.use_jailer
          Paths,      \* the directories
          VmPath,     \* VM id -> its VM directory
          JailPath    \* VM id -> the jail StartJailedProcess fills

ASSUME NoneAssumption == None \notin VmIds \cup Incs
ASSUME ModeAssumption == UseJailer \in BOOLEAN
ASSUME PathAssumption ==
  /\ VmPath \in [VmIds -> Paths]
  /\ JailPath \in [VmIds -> Paths]

(* The directory the socket file of a VM lives in.                         *)
SockPath(v) == IF UseJailer THEN JailPath[v] ELSE VmPath[v]
=============================================================================
