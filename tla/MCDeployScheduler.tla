------------------------- MODULE MCDeployScheduler -------------------------
(* Model checking of DeployScheduler on small instances. *)
EXTENDS DeployScheduler, TLC

\* The codes the k8s service runner reports, the least a deployment needs, and
\* all codes of the interface.
K8sCodes == {Deploying, DeployFailed, Running, Sleeping}
QuickCodes == {Deploying, Running}
AllCodes == K8sCodes \cup {Startup, RunTimeError}

Symm == Permutations(Clients) \cup Permutations(Workers)
=============================================================================
