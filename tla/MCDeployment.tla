----------------------------- MODULE MCDeployment -----------------------------
(* The chain of this repository, under Migration's name for it.             *)
EXTENDS Deployment

V == INSTANCE Revisions

MCChain == V!Versions
===============================================================================
