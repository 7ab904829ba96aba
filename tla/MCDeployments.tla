--------------------------- MODULE MCDeployments ---------------------------
(* Instances of Deployments for TLC. *)
EXTENDS Deployments

CONSTANTS p1, p2, p3, c1, s1, uniform, poisson

(* Every combination of environment variables, up to the names of the      *)
(* processes and profiles: one of the processes has to be an orchestrator  *)
(* for anything to happen, and workers do not look at TRANSPORT_MODE.      *)
Everything ==
    [p \in Processes |->
        {e \in Config :
            /\ p = p1 => e.APP_MODE = "orchestrator" /\ e.SIMULATION_PROFILE = uniform
            /\ e.APP_MODE = "worker" => e.TRANSPORT_MODE = "bullmq"}]

=============================================================================
