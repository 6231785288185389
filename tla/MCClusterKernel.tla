-------------------------- MODULE MCClusterKernel --------------------------
(* ClusterKernel on small instances.                                        *)
EXTENDS KernelTraces, TLC

(* Ids are random and compared only for equality.                           *)
Symmetry == Permutations(Commands) \cup Permutations(Calls)
  \cup Permutations(EarlierEntities) \cup Permutations(EarlierArtifacts)
===========================================================================
