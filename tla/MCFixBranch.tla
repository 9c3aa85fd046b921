---------------------------- MODULE MCFixBranch ----------------------------
(* Small instances of FixBranch for TLC. *)
EXTENDS FixBranch, TLC

Symmetry == Permutations(Deliveries)

OpsAll == OpKinds

-----------------------------------------------------------------------------
(* What the action integration puts on its branch, for workflows of at most *)
(* two jobs and a README of at most three lines.                            *)

I == INSTANCE ActionIntegration WITH Shas <- {"hash1", "hash2"}

Ours(ref) == [repo |-> "telemetry", ref |-> ref, comment |-> <<>>]
Checkout == I!Step("checkout", "v1", <<"why">>)

PermissionBlocks ==
    {<<>>, <<I!Permissions("word")>>, <<I!Permissions("null")>>, <<I!Permissions("flow")>>}
    \cup {<<I!Permissions("mapping"), I!Scope("contents", "read")>> \o s :
            s \in {<<>>, <<I!Scope("id-token", "write")>>, <<I!Scope("id-token", "none")>>}}

StepBlocks ==
    {<<>>} \cup {<<I!StepsOf("list"), I!Text>> \o s :
       s \in {<<Checkout>>, <<Checkout, I!Text, I!Step("telemetry", "v0", <<>>)>>,
              <<I!Step(I!Nothing, I!Nothing, <<>>), Checkout>>}}

JobBlocks(name) ==
    {<<I!Job(name)>> \o p \o s : p \in PermissionBlocks, s \in StepBlocks}
    \cup {<<I!Job(name)>> \o s \o p : p \in PermissionBlocks, s \in StepBlocks}

Workflows == {<<I!Text>> \o j : j \in JobBlocks("one")}
             \cup {j \o k : j \in JobBlocks("one"), k \in JobBlocks("two")}

ASSUME JobsAreKept == \A doc \in Workflows : I!OnlyTelemetryAdded(doc, Ours("v1"))

ASSUME InjectedAtMostOnce == \A doc \in Workflows : I!InjectedOnce(doc, Ours("v1"), Ours("hash1"))

\* Where the insertion cannot be joined, the file that is proposed does not load.
ASSUME RepeatedKeys ==
    \A doc \in {j \in JobBlocks("one") : I!Loads(j) /\ ~I!Joinable(j)} :
        I!InjectAction(doc, Ours("v1")).modified
          => ~I!Loads(I!InjectAction(doc, Ours("v1")).content)

ReadmeLines == {<<>>, <<"#", "title">>, <<"word">>, <<"image">>, <<"image", "word">>, <<"address">>}
Readmes == {[lines |-> <<>>, newline |-> FALSE]}
           \cup UNION {[lines : [1..n -> ReadmeLines], newline : BOOLEAN] : n \in 1..3}

\* The model may put the badge anywhere, twice, or change a line beside it.
Answers(readme) ==
    {I!Raises, I!Replies(<<>>), I!Replies(<<readme>>)}
    \cup {I!Replies(<<[readme EXCEPT !.lines = I!InsertLines(@, at, text)]>>) :
            at \in 0..Len(readme.lines),
            text \in {<< <<"badge">> >>, << <<"badge">>, <<>> >>, << <<"badge", "badge">> >>,
                      << <<"badge", "word">> >>}}
    \cup {I!Replies(<<[readme EXCEPT !.lines[i] = line]>>) : i \in DOMAIN readme.lines,
            line \in {<<"badge">>, <<"image", "badge">>, <<"badge", "#", "title">>}}

ASSUME ReadmesAreKept ==
    \A readme \in Readmes : \A answer \in Answers(readme) : I!OnlyTheBadge(readme, answer)

ASSUME BadgesStayTogether == \A readme \in Readmes : I!JoinsTheRow(readme)

Known(tags, release, newest) ==
    [tags |-> tags, heads |-> "main" :> [type |-> "commit", sha |-> "hash2"],
     tagged |-> "object" :> "hash1", release |-> release, newest |-> newest]

Remotes ==
    {"elsewhere" :> Known("v1" :> [type |-> "commit", sha |-> "hash1"], I!Nothing, <<>>)}
    \cup {(a :> Known(t :> [type |-> "tag", sha |-> "object"], r, <<t>>)
            @@ "checkout" :> Known("v1" :> [type |-> "commit", sha |-> "hash2"], r, <<"v1">>)) :
            a \in {"telemetry", "cache"}, t \in {"v1", "v2"}, r \in {I!Nothing, "v2", "v3"}}

Proposals ==
    [accessible : {TRUE}, idle : {TRUE}, installed : {TRUE}, delivery : {"opened"},
     files : {[p \in {"ci"} |-> [read |-> TRUE, live |-> l, stored |-> <<>>]] :
                l \in {j \in JobBlocks("one") : I!Loads(j) /\ I!Joinable(j)}},
     readme : {<<>>} \cup {<<[lines |-> <<l>>, newline |-> TRUE]>> : l \in ReadmeLines},
     answer : {I!Raises, I!Replies(<<>>)}]

ASSUME NothingLeftToPropose ==
    \A repo \in Proposals, remote \in Remotes, answer \in {I!Raises, I!Replies(<<>>)} :
        I!NothingLeft(repo, remote, Ours("v1"), answer)

Used == {I!Step(a, v, c) : a \in {"checkout", "telemetry"}, v \in {"v1", "v2", "hash1"},
                           c \in {<<>>, <<"v0">>}} \cup {I!Text}

ASSUME PinnedSteps ==
    \A remote \in Remotes, x, y \in Used :
        /\ I!PinsAreReal(remote, <<x, y>>)
        /\ I!NoOtherVersion(remote, <<x, y>>, {"checkout", "cache"})
        /\ \A v \in {"v1", "v2", "hash1"} : I!PinnedAsSaid(remote, Ours(v))
=============================================================================
