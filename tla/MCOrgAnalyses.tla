--------------------------- MODULE MCOrgAnalyses ---------------------------
(* Small instances of OrgAnalyses for TLC. *)
EXTENDS OrgAnalyses, TLC

Symmetry == Permutations(Scans) \cup Permutations(Runs) \cup Permutations(Workers)

\* Scans end within the hour their lock lasts.
InTime == {"drift", "trust", "scan", "switch", "remove", "mute", "hiccup", "crash"}

\* The small account on its own: the quiet rule among those looked at.
ASSUME QuietAccount ==
    \A violated \in {{}, Observable}, denied \in SUBSET Calls :
        NothingInvented(AccountAt(violated), [denied |-> denied, broken |-> {}], <<"home">>)

RunsAll == {"run", "build", "again", "lost", "fail", "crash"}
=============================================================================
