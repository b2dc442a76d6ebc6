----------------------------- MODULE MCAgentMain -----------------------------
(***************************************************************************)
(* Small instances of AgentMain: a file that sets nothing but use_jailer,  *)
(* one with an odd address and no metrics, one with a single port.         *)
(***************************************************************************)
EXTENDS AgentMain

EmptyFile == [port |-> 0, metricsPort |-> 0, metrics |-> FALSE,
              bridgeIP |-> Unset, useJailer |-> Unset, jailUID |-> 0]

MCConfigFiles ==
  {[EmptyFile EXCEPT !.metrics = TRUE],
   [EmptyFile EXCEPT !.bridgeIP = "odd", !.useJailer = FALSE, !.jailUID = 101],
   [EmptyFile EXCEPT !.metrics = TRUE, !.metricsPort = 50051]}
=============================================================================
