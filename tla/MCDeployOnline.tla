--------------------------- MODULE MCDeployOnline ---------------------------
(* DeployOnline for TLC: the sets its constants stand for in the runs. *)
EXTENDS DeployInvariants, TLC

Symmetry == Permutations(Projects) \cup Permutations(Clients) \cup Permutations(Workers)
=============================================================================
