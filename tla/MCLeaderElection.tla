------------------------ MODULE MCLeaderElection ------------------------
(* LeaderElection on small instances for TLC. *)
EXTENDS LeaderElection, TLC

Symmetric == Permutations(Replicas)
=============================================================================
