-------------------------- MODULE MCDeployPipeline --------------------------
(* Instances of DeployPipeline for TLC: the symmetry of its workers.       *)
EXTENDS DeployPipeline, TLC

WorkerSymmetry == Permutations(Workers)
=============================================================================
