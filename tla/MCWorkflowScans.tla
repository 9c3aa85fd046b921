-------------------------- MODULE MCWorkflowScans --------------------------
(* Small instances of WorkflowScans for TLC. *)
EXTENDS WorkflowScans, TLC

CONSTANTS a, b, r, s

(* Two contents that share no rule. *)
ReportsDisjoint == (a :> {r}) @@ (b :> {s})

ReportsOne == a :> {r}

Symmetry == Permutations(Files) \cup Permutations(Tasks)

(* No run outlasts its lock. *)
OpsInTime == OpKinds \ {"slow"}

(* What disturbs the stored files: the branch moves, workers die, and runs *)
(* outlast their lock.                                                     *)
OpsLive == {"push", "crash", "slow"}
=============================================================================
