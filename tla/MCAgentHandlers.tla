--------------------------- MODULE MCAgentHandlers ---------------------------
(***************************************************************************)
(* Small instances of AgentHandlers.  Each id has a TAP device of its own. *)
(***************************************************************************)
EXTENDS AgentHandlers, TLC

CONSTANTS v1, v2

MCTapName == [v \in VmIds |-> v]

Symmetry == Permutations(Handlers) \cup Permutations(VmIds)
=============================================================================
