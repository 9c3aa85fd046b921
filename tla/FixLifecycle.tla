---------------------------- MODULE FixLifecycle ----------------------------
(***************************************************************************)
(* What state_machines/fix.py promises of a workflow file's fix: as long   *)
(* as the same row exists, its status moves only along FixMachine's edges; *)
(* a row is only ever replaced by a new one, which starts pending.         *)
(***************************************************************************)
EXTENDS Naturals, StateMachines

CONSTANT Files

VARIABLES
    id,   \* id[f]: which of its successive rows the file has (0: none yet)
    st    \* st[f]: that row's status

FixEvents == DOMAIN FixMachine

Created(f) == id'[f] = id[f] + 1 /\ st'[f] = "pending"

Moved(f) == /\ id'[f] = id[f]
            /\ \E event \in FixEvents :
                 Can(FixMachine, event, st[f]) /\ st'[f] = Advance(FixMachine, event, st[f])

Init == id = [f \in Files |-> 0] /\ st = [f \in Files |-> "absent"]

(* A transaction may move or create the fixes of several files at once. *)
Next ==
    /\ id' \in [Files -> Nat]
    /\ st' \in [Files -> FixStatus \cup {"absent"}]
    /\ \A f \in Files : \/ Created(f)
                       \/ Moved(f)
                       \/ (id'[f] = id[f] /\ st'[f] = st[f])

Spec == Init /\ [][Next]_<<id, st>>
=============================================================================
