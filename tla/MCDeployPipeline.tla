---------------------------- MODULE MCDeployPipeline ----------------------------
(* DeployPipeline on a small instance. *)
EXTENDS DeployPipeline, TLC

CONSTANTS p1, p2, t1

\* Runs and addresses are interchangeable; every property is one of states or steps.
Interchangeable == Permutations(Runs) \cup Permutations(Addrs)

\* Two pools of one token; in the second one SOL is token X.
OneToken == (p1 :> t1) @@ (p2 :> t1)

OneSlot == [m \in Modes |-> 1]

Called(m, s, strategy) == [mode |-> m, source |-> s, strategy |-> strategy]

\* The daemon's batches.
Daily == {Called("casual", "batch", None), Called("turnover", "batch", None)}
===============================================================================
