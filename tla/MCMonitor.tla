------------------------------ MODULE MCMonitor ------------------------------
(***************************************************************************)
(* One pool with two-lamport denominations, so that one lamport puts its   *)
(* vault out of step.                                                      *)
(***************************************************************************)
EXTENDS Monitor

CONSTANT p1

MCPools == {p1}
=============================================================================
