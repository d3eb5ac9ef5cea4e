---------------------------- MODULE MCDeployment ----------------------------
(* Instances of Deployment: one to three containers.                        *)
EXTENDS Deployment
=============================================================================
