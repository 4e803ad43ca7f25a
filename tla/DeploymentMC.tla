----------------------------- MODULE DeploymentMC -----------------------------
(* A small host for Deployment. *)
EXTENDS Deployment, TLC

CONSTANTS n1, n2

TwoCalendars == {<<n1>>, <<n2, n1>>}
Restless == ("sync" :> 2 @@ "stop" :> 2 @@ "kill" :> 2 @@ "fault" :> 2 @@ "calendar" :> 1)
=============================================================================
