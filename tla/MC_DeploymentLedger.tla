------------------------ MODULE MC_DeploymentLedger ------------------------
(* Three processes append three deployments and read; one power failure.   *)
EXTENDS DeploymentLedger

CONSTANTS p1, p2, p3, d1, d2, d3

MCProcs == {p1, p2, p3}
MCIds == {d1, d2, d3}

=============================================================================
