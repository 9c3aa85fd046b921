---------------------------- MODULE AnsibleParser ----------------------------
(***************************************************************************)
(* The document the Ansible rules read: what a playbook, a file of tasks   *)
(* and a mapping become, with blocks flattened, the keywords of a block    *)
(* passed down to its tasks, and each task's module and arguments told     *)
(* from whatever way they are written.                                     *)
(*                                                                         *)
(* A YAML value has a kind, the line of the key or dash that introduces it *)
(* and the last line it spans: a text (a sequence of words), a mapping (a  *)
(* function), a list (a sequence) or null.  A file has a path, the kind    *)
(* discovery gives it, and its documents, none if it does not parse.       *)
(***************************************************************************)
EXTENDS Naturals, Sequences, FiniteSets, SequencesExt, FiniteSetsExt, TLC

Null(at) == [is |-> "null", at |-> at, end |-> at]
Text(at, words) == [is |-> "text", at |-> at, end |-> at, of |-> words]
List(at, items) == [is |-> "list", at |-> at, of |-> items,
                    end |-> Max({at} \cup {items[n].end : n \in DOMAIN items})]
Mapping(at, fields) == [is |-> "map", at |-> at, of |-> fields,
                        end |-> Max({at} \cup {fields[k].end : k \in DOMAIN fields})]

None == Null(0)

Get(mapping, key) == IF key \in DOMAIN mapping.of THEN mapping.of[key] ELSE None

SectionKeys == <<"pre_tasks", "tasks", "post_tasks", "handlers">>
BlockKeys == <<"block", "rescue", "always">>

InheritedKeywords ==
    {"become", "become_user", "check_mode", "environment", "ignore_errors", "no_log", "tags", "when"}

TaskKeywords ==
    InheritedKeywords \cup ToSet(BlockKeys)
    \cup {"name", "args", "action", "local_action", "loop", "register", "with_items"}

\* Some short names of modules; others and qualified ones are left as they are.
BuiltinModules == [shell |-> "ansible.builtin.shell", apt |-> "ansible.builtin.apt"]

NormalizeModule(name) == IF name \in DOMAIN BuiltinModules THEN BuiltinModules[name] ELSE name

-----------------------------------------------------------------------------
(* One task *)

ModuleKeys(task) == DOMAIN task.of \ TaskKeywords

RawParams(value) == "_raw_params" :> value

\* A module's own arguments, under those of the keyword args.
ModuleArgs(value, fields) ==
    LET own == IF value.is = "map" THEN value.of
               ELSE IF value.is = "null" THEN <<>> ELSE RawParams(value)
    IN IF "args" \in DOMAIN fields /\ fields["args"].is = "map" THEN fields["args"].of @@ own ELSE own

\* The module of an action or local_action, as <<[module, args]>>, or <<>> if it names none.
ResolveAction(fields) ==
    LET action == IF "action" \in DOMAIN fields THEN fields["action"]
                  ELSE IF "local_action" \in DOMAIN fields THEN fields["local_action"] ELSE None
    IN IF action.is = "text" /\ action.of # <<>>
         THEN <<[module |-> NormalizeModule(Head(action.of)),
                 args |-> IF Len(action.of) = 1 THEN <<>>
                          ELSE RawParams([action EXCEPT !.of = Tail(@)])]>>
       ELSE IF action.is = "map" /\ Get(action, "module").is = "text"
         THEN <<[module |-> NormalizeModule(Head(Get(action, "module").of)),
                 args |-> [k \in DOMAIN action.of \ {"module"} |-> action.of[k]]]>>
       ELSE <<>>

\* Two keys that could name a module name none, nor does an action then.
ResolveModule(task, fields) ==
    IF Cardinality(ModuleKeys(task)) = 1
      THEN LET key == CHOOSE k \in ModuleKeys(task) : TRUE
           IN <<[module |-> NormalizeModule(key), args |-> ModuleArgs(fields[key], fields)]>>
      ELSE ResolveAction(fields)

\* What a task says itself counts before what it inherits.
ConvertTask(task, place, depth, inherited) ==
    LET fields == task.of @@ inherited
        resolved == ResolveModule(task, fields)
    IN [n \in DOMAIN resolved |->
          [fields |-> fields, module |-> resolved[n].module, args |-> resolved[n].args,
           place |-> place, depth |-> depth, start |-> task.at, end |-> task.end]]

-----------------------------------------------------------------------------
(* A list of tasks and blocks *)

IsBlock(item) == Get(item, "block").is = "list"

PassedDown(block, inherited) ==
    [k \in InheritedKeywords \cap DOMAIN block.of |-> block.of[k]] @@ inherited

RECURSIVE FlattenTasks(_, _, _, _)
FlattenTasks(list, place, depth, inherited) ==
    LET Flat(item) ==
          IF item.is # "map" THEN <<>>
          ELSE IF IsBlock(item)
            THEN FlattenSeq([n \in DOMAIN BlockKeys |->
                   FlattenTasks(Get(item, BlockKeys[n]), place, depth + 1,
                                PassedDown(item, inherited))])
          ELSE ConvertTask(item, place, depth, inherited)
    IN IF list.is # "list" THEN <<>>
       ELSE FlattenSeq([n \in DOMAIN list.of |-> Flat(list.of[n])])

-----------------------------------------------------------------------------
(* A file *)

\* Plays are numbered through all documents of the file; what is no mapping is no play.
Plays(documents) ==
    SelectSeq(FlattenSeq([n \in DOMAIN documents |->
                IF documents[n].is = "list" THEN documents[n].of ELSE <<>>]),
              LAMBDA play : play.is = "map")

ConvertPlay(play, n) ==
    LET fields == [k \in DOMAIN play.of \ ToSet(SectionKeys) |-> play.of[k]]
    IN [fields |-> fields, index |-> n - 1, start |-> play.at, end |-> Mapping(play.at, fields).end]

PlayTasks(play, n) ==
    FlattenSeq([s \in DOMAIN SectionKeys |->
        FlattenTasks(Get(play, SectionKeys[s]), <<SectionKeys[s], n - 1>>, 0, <<>>)])

ParsePlaybook(documents) ==
    LET plays == Plays(documents)
    IN [plays |-> [n \in DOMAIN plays |-> ConvertPlay(plays[n], n)],
        tasks |-> FlattenSeq([n \in DOMAIN plays |-> PlayTasks(plays[n], n)])]

ParseTaskFile(documents, section) ==
    [tasks |-> FlattenSeq([n \in DOMAIN documents |->
                 FlattenTasks(documents[n], <<section>>, 0, <<>>)])]

(* Where findings about the entries of a mapping point: an entry's own line, *)
(* which a mapping carries itself, and each mapping in a list.               *)
ParseMapping(documents) ==
    LET first == Head(documents)
        body == IF first.is = "map" THEN first.of ELSE <<>>
        Are(kind) == {k \in DOMAIN body : body[k].is = kind}
    IN [entries |-> DOMAIN body,
        starts |-> [k \in Are("map") |-> body[k].at],
        lines |-> [k \in DOMAIN body \ Are("map") |-> body[k].at],
        elements |-> [k \in Are("list") |->
                        [n \in {i \in DOMAIN body[k].of : body[k].of[i].is = "map"} |-> body[k].of[n].at]]]

Documents(file) == SelectSeq(file.documents, LAMBDA d : d.is # "null")

ParseAnsibleContent(file) ==
    LET documents == Documents(file)
        body == IF file.kind = "playbook" THEN ParsePlaybook(documents)
                ELSE IF file.kind \in {"tasks", "handlers"} THEN ParseTaskFile(documents, file.kind)
                ELSE ParseMapping(documents)
    IN IF file.kind = "none" \/ documents = <<>> THEN <<>>
       ELSE <<[path |-> file.path, kind |-> file.kind, body |-> body]>>

MergeAnsibleFiles(files) == FlattenSeq([n \in DOMAIN files |-> ParseAnsibleContent(files[n])])

-----------------------------------------------------------------------------
(* Properties *)

(* The items of a list at their paths: the place in the list and, below a   *)
(* block, which of its three lists and the path in that.                    *)
RECURSIVE Nodes(_)
Nodes(list) ==
    IF list.is # "list" THEN {}
    ELSE {[path |-> <<n>>, item |-> list.of[n]] : n \in DOMAIN list.of}
         \cup UNION {{[path |-> <<n, key>> \o below.path, item |-> below.item] :
                        below \in Nodes(Get(list.of[n], <<"block", "rescue", "always">>[key]))} :
                     n \in {i \in DOMAIN list.of : list.of[i].is = "map" /\ IsBlock(list.of[i])},
                     key \in 1..3}

Before(p, q) == \E k \in DOMAIN p \cap DOMAIN q : p[k] < q[k] /\ \A i \in 1..(k - 1) : p[i] = q[i]

NamesModule(task) == ResolveModule(task, task.of) # <<>>

Leaves(list) ==
    {m \in Nodes(list) : m.item.is = "map" /\ ~IsBlock(m.item) /\ NamesModule(m.item)}

InOrder(list) == SetToSortSeq(Leaves(list), LAMBDA m, n : Before(m.path, n.path))

(* Each task that names a module is reported once, at its own lines and     *)
(* depth, in the order in which the blocks run them.                        *)
EachTaskOnce(list) ==
    LET flat == FlattenTasks(list, <<"tasks">>, 0, <<>>)
        leaves == InOrder(list)
    IN /\ Len(flat) = Len(leaves)
       /\ \A n \in DOMAIN flat :
            /\ flat[n].start = leaves[n].item.at /\ flat[n].end = leaves[n].item.end
            /\ 2 * flat[n].depth + 1 = Len(leaves[n].path)

(* A task has the keyword its nearest block sets unless it sets its own; it *)
(* has none that nothing around it sets.                                    *)
NearestCounts(list) ==
    LET flat == FlattenTasks(list, <<"tasks">>, 0, <<>>)
        leaves == InOrder(list)
        Setting(n, kw) == {m \in Nodes(list) : /\ IsPrefix(m.path, leaves[n].path)
                                               /\ m.item.is = "map" /\ kw \in DOMAIN m.item.of}
    IN \A n \in DOMAIN flat, kw \in InheritedKeywords :
         IF kw \notin DOMAIN flat[n].fields THEN Setting(n, kw) = {}
         ELSE \E m \in Setting(n, kw) :
                /\ \A other \in Setting(n, kw) : Len(other.path) <= Len(m.path)
                /\ flat[n].fields[kw] = m.item.of[kw]

(* A rule sees the same module and arguments however a task without args is *)
(* written: by short name, by qualified name or as an action.               *)
SpellingIsFree(name, words) ==
    LET Task(fields) == FlattenTasks(List(1, <<Mapping(1, fields)>>), <<"tasks">>, 0, <<>>)
        Says(tasks) == [n \in DOMAIN tasks |-> <<tasks[n].module, tasks[n].args>>]
        value == IF words = <<>> THEN Null(1) ELSE Text(1, words)
        short == Task(name :> value)
    IN /\ Len(short) = 1
       /\ Says(Task(NormalizeModule(name) :> value)) = Says(short)
       /\ Says(Task("action" :> Text(1, <<name>> \o words))) = Says(short)
       /\ Says(Task("local_action" :> Text(1, <<name>> \o words))) = Says(short)

(* Every task of a playbook is in one of its plays, which is where the file *)
(* has it.                                                                  *)
TasksOfPlays(documents) ==
    LET book == ParsePlaybook(documents)
        plays == Plays(documents)
    IN \A n \in DOMAIN book.tasks :
         LET task == book.tasks[n] IN
         /\ task.place[2] + 1 \in DOMAIN plays
         /\ \E m \in Nodes(Get(plays[task.place[2] + 1], task.place[1])) : m.item.at = task.start
         /\ \A other \in DOMAIN book.tasks : other # n => book.tasks[other].start # task.start
=============================================================================
