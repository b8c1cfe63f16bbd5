------------------------------- MODULE MCPii -------------------------------
(* PiiScan on its own, with the fairness of its loop.                      *)
EXTENDS PiiScan

Spec == PiiInit /\ [][PiiNext]_piiVars /\ PiiFair
=============================================================================
