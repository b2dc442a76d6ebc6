----------------------------- MODULE HostNetwork -----------------------------
(***************************************************************************)
(* The bridge of the host, which the agent sets up when it starts          *)
(* (EnsureBridgeExists of src/internal/network/manager.go).  Each operator *)
(* is what one successful "ip" command does; the agent runs them one after *)
(* the other and may fail, or die, between any two.                        *)
(*                                                                         *)
(* "ours" is the configured address.  "lookalike" is another address whose *)
(* text contains the text of ours, as 11.0.0.1/24 does 1.0.0.1/24.         *)
(***************************************************************************)
VARIABLES bridge, addrs

netVars == <<bridge, addrs>>

NetTypeOK ==
  /\ bridge \in {"absent", "down", "up"}
  /\ addrs \in SUBSET {"ours", "lookalike"}

(* Earlier agents, or the administrator, may have been there.              *)
NetInit ==
  /\ NetTypeOK
  /\ bridge = "absent" => addrs = {}

LinkAdd == bridge = "absent" /\ bridge' = "down" /\ UNCHANGED addrs

LinkSetUp == bridge # "absent" /\ bridge' = "up" /\ UNCHANGED addrs

(* "ip addr show" prints the text of the configured address.               *)
AddrFound(bridgeIP) ==
  \/ "lookalike" \in addrs
  \/ "ours" \in addrs /\ bridgeIP = "plain"

AddrAdd == "ours" \notin addrs /\ addrs' = addrs \cup {"ours"} /\ UNCHANGED bridge

AddrExists == "ours" \in addrs      \* "File exists"
=============================================================================
