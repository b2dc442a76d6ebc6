----------------------------- MODULE AgentConfig -----------------------------
(***************************************************************************)
(* The configuration of the agent (src/pkg/config/config.go).  A file is a *)
(* record of the settings that decide what the agent does; Unset is a key  *)
(* that is missing, and the zero value of a number or text cannot be told  *)
(* from it.  A bridge_ip is "plain" when the kernel prints the address as  *)
(* it is written, else "odd".                                              *)
(***************************************************************************)
EXTENDS Integers

CONSTANT Unset

Files == [port : Nat, metricsPort : Nat, metrics : BOOLEAN,
          bridgeIP : {Unset, "plain", "odd"}, useJailer : BOOLEAN \cup {Unset},
          jailUID : Nat]

(* What the rest of the agent relies on: ports are given, VMs are jailed   *)
(* unless the file refuses, and a jail never runs as root.                 *)
Configs == [port : Nat \ {0}, metricsPort : Nat \ {0}, metrics : BOOLEAN,
            bridgeIP : {"plain", "odd"}, useJailer : BOOLEAN,
            jailUID : Nat \ {0}]

OrDefault(value, zero, default) == IF value = zero THEN default ELSE value

(* Deviation: no default for use_jailer.                                   *)
LoadWithoutJailerDefault(file) ==
  [port        |-> OrDefault(file.port, 0, 50051),
   metricsPort |-> OrDefault(file.metricsPort, 0, 9090),
   metrics     |-> file.metrics,
   bridgeIP    |-> OrDefault(file.bridgeIP, Unset, "plain"),
   useJailer   |-> file.useJailer,
   jailUID     |-> OrDefault(file.jailUID, 0, 1000)]

(* The settings in force: Load, when the file can be read.                 *)
Load(file) ==
  [port        |-> OrDefault(file.port, 0, 50051),
   metricsPort |-> OrDefault(file.metricsPort, 0, 9090),
   metrics     |-> file.metrics,
   bridgeIP    |-> OrDefault(file.bridgeIP, Unset, "plain"),
   useJailer   |-> OrDefault(file.useJailer, Unset, TRUE),
   jailUID     |-> OrDefault(file.jailUID, 0, 1000)]
=============================================================================
