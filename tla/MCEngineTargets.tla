-------------------------- MODULE MCEngineTargets --------------------------
(* Small instances of EngineTargets for TLC. *)
EXTENDS EngineTargets, TLC

CONSTANTS a, b, r

(* One content violates the rule, the other is clean. *)
ReportsOne == (a :> {r}) @@ (b :> {})

Symmetry == Permutations(Paths) \cup Permutations(Jobs)

OpsAll == OpKinds

-----------------------------------------------------------------------------
(* The gates of generation, on files of at most two lines *)

G == INSTANCE FixGuards

TextLine(comment, action, version, trail) ==
    [comment |-> comment, action |-> action, version |-> version, code |-> "", trail |-> trail]

TextLines == {TextLine("why", "", "", 0), TextLine("", "", "", 1), TextLine("", "", "", 0)}
             \cup {TextLine("", "checkout", v, 0) : v \in {"v1", "v2", "hash1", "hash2"}}

Docs == {<<l>> : l \in TextLines} \cup {<<l, m>> : l, m \in TextLines}

\* A tag is a violation, and so is a file without code; one file is not evaluated.
Verdict(doc) ==
    IF doc = <<TextLine("why", "", "", 0), TextLine("", "", "", 1)>> THEN <<>>
    ELSE <<(IF \E i \in DOMAIN doc : doc[i].version \in {"v1", "v2"} THEN {"unpinned"} ELSE {})
           \cup (IF G!Actions(doc) = {} THEN {"empty"} ELSE {})>>

Reading ==
    [exact |-> {"hash1", "hash2"},
     parses |-> {"f"} \X (Docs \ {<<TextLine("", "", "", 0)>>}),
     kind |-> [x \in {"f"} \X Docs |-> IF G!Actions(x[2]) = {} THEN "vars" ELSE "tasks"],
     variables |-> [doc \in Docs |-> G!Actions(doc)],
     tags |-> [doc \in Docs |-> {}],
     verdict |-> [tree \in [{"f"} -> Docs] |-> Verdict(tree["f"])]]

Reply(doc) == [answered |-> TRUE, content |-> doc, unfixed |-> {1}]

(* Every accepted rewrite keeps what the gates are there to keep, whether or *)
(* not the remote could be read.                                             *)
ASSUME WorkflowGates ==
    \A stored, doc \in Docs, issues \in {<<"unpinned_actions">>, <<"missing_timeout">>} :
        LET remotes == {[reachable |-> FALSE, file |-> <<>>], [reachable |-> TRUE, file |-> <<>>],
                        [reachable |-> TRUE, file |-> << <<TextLine("", "checkout", "v1", 0)>> >>]}
        IN \A remote \in remotes :
             LET fix_ == G!RunFixGeneration(Reading, "f", stored, remote, Reply(doc), issues) IN
             /\ G!KeepsText(fix_, Reply(doc))
             /\ G!KeepsPins(Reading, fix_, issues)
             /\ fix_.status = "ready" =>
                  G!TradesNothing(Reading, fix_, G!Alone("f", fix_.base), G!Alone("f", fix_.content))

ASSUME FileGates ==
    \A old, doc \in Docs, engine \in {"ansible", "docker", "terraform"} :
        LET files == G!Alone("f", old)
            fix_ == G!GenerateFileFix(Reading, engine, files, "f", Reply(doc), <<"r1">>)
        IN /\ G!KeepsText(fix_, Reply(doc))
           /\ engine = "ansible" /\ fix_.status = "ready" => G!KeepsAnsible(Reading, "f", fix_)
           /\ fix_.status = "ready" =>
                G!TradesNothing(Reading, fix_, files, [files EXCEPT !["f"] = fix_.content])

(* The gates let something through: a tag becomes the hash it stands for.    *)
ASSUME GatesAccept ==
    G!RunFixGeneration(Reading, "f", <<TextLine("", "checkout", "v1", 0)>>,
                       [reachable |-> FALSE, file |-> <<>>],
                       Reply(<<TextLine("", "checkout", "hash1", 0)>>), <<"missing_timeout">>).status
      = "ready"

-----------------------------------------------------------------------------
(* Which files belong to a target, in a small repository *)

F == INSTANCE TargetFiles

Name(stem, suffix) == [stem |-> stem, infix |-> {}, suffix |-> suffix]

Dirs == {<<>>, <<"app">>, <<"app", "web">>, <<"app", "vendor">>, <<"ops", "handlers">>}

Names == {Name("main", "tf"), Name("dockerfile", ""), Name("site", "yml"), Name("dockerfile", "md"),
          Name("notes", "md")}

FilePaths == [dir : Dirs, name : Names]

Source(shapes) == [parses |-> TRUE, shapes |-> shapes]

\* A tree with the changes of one push: files of at most two paths differ.
OldTree == [p \in FilePaths |-> Source(<<"plays">>)]
ChangedTree(paths, content) == [p \in FilePaths |-> IF p \in paths THEN content ELSE OldTree[p]]
WithoutFiles(paths) == [p \in FilePaths \ paths |-> OldTree[p]]

Engines == {"terraform", "docker", "ansible"}
Roots == {<<>>, <<"app">>, <<"app", "web">>, <<"ops">>}

PushOf(paths) == [branch |-> "main", new |-> FALSE, forced |-> FALSE, paths |-> paths]

\* More files than a scan reads are cut off in the order of the listing.
Bounds == [maxdepth |-> 1, maxfiles |-> 3]
Rank == [p \in FilePaths |-> Len(p.dir)]

ASSUME PushesRescan ==
    \A engine \in Engines, root \in Roots, p, q \in FilePaths :
        \A new \in {ChangedTree({p, q}, Source(<<"mapping">>)), WithoutFiles({p, q})} :
            F!PushRescans(engine, [root |-> root, enabled |-> TRUE], OldTree, new,
                          PushOf({p, q}), "main", Bounds, Rank)

\* Without a change under it, a target is left alone by the push.
ASSUME SomePushesDoNot ==
    \E root \in Roots, p \in FilePaths :
        ~F!Enqueues("docker", [root |-> root, enabled |-> TRUE], PushOf({p}), "main")

ASSUME BuildsOwnedOnce ==
    \A dir \in Dirs, roots \in SUBSET Roots : F!OwnedOnce(dir, roots)

\* No page shows a build that is another target's, and a label is always one of its engine's.
ASSUME PagesArePartitioned ==
    \A one, two \in Dirs, roots \in SUBSET Roots : \A root, other \in roots :
        LET rows == <<[dir |-> one, n |-> 1], [dir |-> two, n |-> 2]>>
            shown(at) == {x.n : x \in {F!RuntimeFindings(rows, roots, at, 1)[i] :
                                        i \in DOMAIN F!RuntimeFindings(rows, roots, at, 1)}}
        IN root # other => shown(root) \cap shown(other) = {}

ASSUME LabelsAreKinds ==
    \A p \in FilePaths, shapes \in {<<>>, <<"plays">>, <<"tasks">>, <<"tasks", "mapping">>, <<"mapping">>} :
        /\ F!ShownKind("docker", p, Source(shapes)) \in {"dockerfile", "compose"}
        /\ F!ShownKind("ansible", p, Source(shapes)) \in
             {"playbook", "tasks", "handlers", "vars", "requirements"}

-----------------------------------------------------------------------------
(* Compose files and their overrides, with at most two services *)

C == INSTANCE ComposeMerge

Values == {C!Null, C!Scalar("x"), C!List({"a"}), C!List({"b"}), C!Mapping([k |-> "v"])}

Services(line) ==
    {C!Null} \cup {[ports |-> v, line |-> C!Scalar(line)] : v \in Values}
            \cup {[command |-> v, line |-> C!Scalar(line)] : v \in Values}

DocumentsOf(name, override, line) ==
    {[name |-> name, override |-> override, services |-> s] :
        s \in [{"web"} -> Services(line)] \cup [{"web", "db"} -> {C!Null, [line |-> C!Scalar(line)]}]}

ASSUME Configurations ==
    \A b_ \in DocumentsOf("compose", FALSE, 1), o \in DocumentsOf("compose", TRUE, 2) :
        C!NothingLost({b_, o}) /\ C!LinesAreOfTheFile({b_, o})
-----------------------------------------------------------------------------
(* Playbooks, with blocks in blocks *)

P == INSTANCE AnsibleParser

Word(at) == P!Text(at, <<"x">>)

\* Tasks and other items on a line: with a module, an action, an ambiguous or no module, or text.
Keywords(at) == {<<>>, "become" :> Word(at), ("no_log" :> Word(at)) @@ ("name" :> Word(at))}

Tasks(at) ==
    {P!Mapping(at, k @@ ("apt" :> Word(at + 1))) : k \in Keywords(at)}
    \cup {P!Mapping(at, "action" :> P!Text(at, <<"shell", "ls">>)),
          P!Mapping(at, ("apt" :> Word(at)) @@ ("shell" :> Word(at))), P!Mapping(at, "name" :> Word(at)),
          P!Text(at, <<"x">>)}

Block(at, keywords, parts) == P!Mapping(at, keywords @@ parts)

Inner(at) ==
    Tasks(at) \cup {Block(at, k, ("block" :> P!List(at, <<t>>))
                                   @@ ("rescue" :> P!List(at + 2, <<u>>))) :
                      k \in Keywords(at), t \in Tasks(at + 1), u \in Tasks(at + 3)}

Outer ==
    {P!List(1, <<Block(1, k, ("block" :> P!List(1, <<i>>)) @@ ("always" :> P!List(8, <<t>>))), u>>) :
       k \in Keywords(1), i \in Inner(2), t \in {P!Mapping(9, "apt" :> P!Null(9))}, u \in Tasks(11)}

ASSUME Flattened == \A list \in Outer : P!EachTaskOnce(list) /\ P!NearestCounts(list)

ASSUME Spellings ==
    \A name \in {"apt", "shell", "own.module"}, words \in {<<>>, <<"ls">>, <<"ls", "dir">>} :
        P!SpellingIsFree(name, words)

PlayWith(at, section, list) == P!Mapping(at, (section :> list) @@ ("hosts" :> Word(at)))

Books ==
    {<<P!List(1, <<PlayWith(1, s, P!List(2, <<t>>)), P!Text(4, <<"x">>)>>),
       P!List(5, <<PlayWith(5, "handlers", P!List(6, <<u, v>>))>>)>> :
       s \in {"tasks", "roles"}, t \in Tasks(2), u \in Tasks(6), v \in Tasks(8)}

ASSUME Plays == \A book \in Books : P!TasksOfPlays(book)

\* A file that is no Ansible or does not parse drops out, and the others stay.
BookFile(kind, documents) == [path |-> "site.yml", kind |-> kind, documents |-> documents]

ASSUME BadFilesDrop ==
    \A book \in Books :
        /\ P!MergeAnsibleFiles(<<BookFile("none", book), BookFile("playbook", book),
                                 BookFile("vars", <<>>), BookFile("vars", <<P!Null(1)>>)>>)
             = P!ParseAnsibleContent(BookFile("playbook", book))
        /\ Len(P!ParseAnsibleContent(BookFile("playbook", book))) = 1
=============================================================================
