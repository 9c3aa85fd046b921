---------------------------- MODULE MCRepoAccess ----------------------------
(* Small instances of RepoAccess for TLC: the app is in account a1 and may  *)
(* read all of its repositories but r3.                                     *)
EXTENDS RepoAccess, TLC

CONSTANTS a1, r3, u1

HomeOne == [r \in Repos |-> a1]

StoredTwo == Repos \ {r3}

Symmetry == Permutations(StoredTwo) \cup Permutations(Requests) \cup Permutations(Syncs)

OpsAll == OpKinds
=============================================================================
