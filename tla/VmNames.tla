------------------------------- MODULE VmNames -------------------------------
(***************************************************************************)
(* What src/internal/network/manager.go makes of a VM id, a sequence of    *)
(* bytes: the name of the TAP device, less its fixed prefix, and the MAC   *)
(* address, less its fixed first two bytes; over the ids that VmRegistry   *)
(* lets exist side by side.  TLC evaluates the exclusive or, so no module  *)
(* with proofs uses this one.                                              *)
(***************************************************************************)
EXTENDS Integers, Sequences, Bitwise

CONSTANT VmIds

VARIABLE reg

TapSuffix(id) == IF Len(id) > 8 THEN SubSeq(id, 1, 8) ELSE id

TapName == [id \in VmIds |-> TapSuffix(id)]

Registry == INSTANCE VmRegistry

(* Four bytes, each of a pair of characters; what is short of a pair       *)
(* counts for nothing.                                                     *)
GenerateMAC(id) ==
  [i \in 0 .. 3 |-> IF 2 * i + 1 < Len(id) THEN id[2 * i + 1] ^^ id[2 * i + 2] ELSE 0]

Spec == Registry!RegSpec

(* VMs that are there together have MAC addresses of their own on the      *)
(* bridge they share.                                                      *)
MacsDistinct ==
  \A v, w \in VmIds :
    v # w /\ reg[v] # "absent" /\ reg[w] # "absent" => GenerateMAC(v) # GenerateMAC(w)
=============================================================================
