----------------------------- MODULE VmRegistry ------------------------------
(***************************************************************************)
(* What the Firecracker manager promises its clients about the VM ids, as  *)
(* GetVM and ListVMs show them: an id is absent, or is a VM reported       *)
(* running or stopped.  A VM is created only under an id that is free, and *)
(* while no VM has the same TAP device name; a VM once reported stopped is *)
(* never running again; only DeleteVM, or the loss of the agent, frees an  *)
(* id.                                                                     *)
(***************************************************************************)
CONSTANTS VmIds, TapName

VARIABLE reg

RegInit == reg = [v \in VmIds |-> "absent"]

(* The process of a VM may be gone by the time it is registered.           *)
Create(v) ==
  /\ \A w \in VmIds : TapName[w] = TapName[v] => reg[w] = "absent"
  /\ \E s \in {"running", "stopped"} : reg' = [reg EXCEPT ![v] = s]

(* StopVM, or the process exits.                                           *)
Stop(v) ==
  /\ reg[v] = "running"
  /\ reg' = [reg EXCEPT ![v] = "stopped"]

Delete(v) ==
  /\ reg[v] # "absent"
  /\ reg' = [reg EXCEPT ![v] = "absent"]

LoseAgent == reg' = [v \in VmIds |-> "absent"]

RegNext ==
  \/ \E v \in VmIds : Create(v) \/ Stop(v) \/ Delete(v)
  \/ LoseAgent

RegSpec == RegInit /\ [][RegNext]_reg
=============================================================================
