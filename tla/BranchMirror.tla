---------------------------- MODULE BranchMirror ----------------------------
(***************************************************************************)
(* What workflow_sync promises about the stored workflow files of a        *)
(* branch: they are always those of one commit of the branch, all of them, *)
(* and a sync replaces the whole set in one step.                          *)
(***************************************************************************)
EXTENDS Naturals, Sequences

CONSTANTS Trees, Empty

VARIABLES
    log,      \* the trees of the branch, one per commit
    mirror    \* the stored files

Init == log \in {<<tree>> : tree \in Trees} /\ mirror = Empty

Push == \E tree \in Trees : log' = Append(log, tree) /\ UNCHANGED mirror

Sync == \E k \in DOMAIN log : mirror' = log[k] /\ UNCHANGED log

Next == Push \/ Sync

Spec == Init /\ [][Next]_<<log, mirror>>
=============================================================================
