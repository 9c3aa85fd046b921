--------------------------- MODULE MCFixPipeline ---------------------------
(* Small instances of FixPipeline for TLC. *)
EXTENDS FixPipeline, TLC

(* Files, task slots and batch ids are interchangeable. *)
Symmetry == Permutations(Files) \cup Permutations(Jobs) \cup Permutations(Batches)

(* What takes no row away from the task that works on it, and loses none. *)
OpsOwned == {"generate", "regenerate", "retry", "deliver", "scan", "lifecycle", "opened", "draft"}
=============================================================================
