---------------------------- MODULE MCEventStream ----------------------------
(***************************************************************************)
(* Small instances of EventStream.                                         *)
(***************************************************************************)
EXTENDS EventStream, TLC

Symmetry == Permutations(Watchers) \cup Permutations(Publishers)
            \cup Permutations(VmIds) \cup Permutations(Stamps)

(* Liveness is checked where the clock tells open streams apart: after a   *)
(* collision the agent may panic.                                          *)
DistinctSpec == Init /\ [][Next /\ ~collided']_vars /\ Fairness
=============================================================================
