----------------------------- MODULE TapNetwork ------------------------------
(***************************************************************************)
(* The TAP devices of the host (src/internal/network/manager.go).  A       *)
(* device is named tap_prefix plus the first eight characters of the VM    *)
(* id, so ids may share a name: TapName is any function.  The kernel keeps *)
(* the devices, across restarts of the agent too.                          *)
(***************************************************************************)
EXTENDS VmIdentity

CONSTANTS TapNames,   \* the device names
          TapName     \* VM id -> the name CreateTAPDevice derives from it

ASSUME TapNameAssumption == TapName \in [VmIds -> TapNames]

VARIABLE tap          \* device name -> the incarnation that added it, or None

TapTypeOK == tap \in [TapNames -> Incs \cup {None}]

TapInit == tap = [n \in TapNames |-> None]

(* Deviation: a device that exists is taken over.                          *)
CreateTAPDeviceReuse(v, i) == tap' = [tap EXCEPT ![TapName[v]] = i]

(* "ip tuntap add" refuses a name in use; then "ip link set" brings the    *)
(* device up and attaches it to the bridge.                                *)
CreateTAPDevice(v, i) ==
  /\ tap[TapName[v]] = None
  /\ tap' = [tap EXCEPT ![TapName[v]] = i]

(* Deviation: DeleteTAPDevice also after a failed "ip tuntap add".         *)
CreateTAPDeviceFailsDeleting(v) == tap' = [tap EXCEPT ![TapName[v]] = None]

(* Every other outcome is an error: the name is taken, or a command failed *)
(* and DeleteTAPDevice left no device ...                                  *)
CreateTAPDeviceFails(v) == tap' = tap

(* ... or failed too, and the error does not tell.                         *)
CreateTAPDeviceLeaks(v, i) == CreateTAPDevice(v, i)

(* "ip link delete" goes by the name, whoever added the device; a device   *)
(* that is absent counts as deleted.                                       *)
DeleteTAPDevice(v) == tap' = [tap EXCEPT ![TapName[v]] = None]

DeleteTAPDeviceFails(v) ==
  /\ tap[TapName[v]] # None
  /\ tap' = tap
=============================================================================
