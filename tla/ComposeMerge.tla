---------------------------- MODULE ComposeMerge ----------------------------
(***************************************************************************)
(* The document the Docker rules read: the files of a target, and the      *)
(* Compose configurations they amount to, each base file merged with the   *)
(* override Compose would load on top of it.                               *)
(*                                                                         *)
(* A service maps its fields to values: a scalar, a list (a set of items:  *)
(* appending drops what is there already) or a mapping.  A document has a  *)
(* record of a folder and name, an override's name is its base's, and maps *)
(* names to services, some of them Null.                                   *)
(***************************************************************************)

Null == [is |-> "null"]
Scalar(v) == [is |-> "scalar", of |-> v]
List(items) == [is |-> "list", of |-> items]
Mapping(m) == [is |-> "mapping", of |-> m]

ReplacedKeys == {"command", "entrypoint", "env_file", "healthcheck"}

\* The fields the parser adds to a service, which are not the user's.
InternalKeys == {"file", "line"}

\* What the override says on top of the base; the values of a nested mapping are scalars.
MergeOver(base, override) == [k \in DOMAIN base \cup DOMAIN override |->
                                IF k \in DOMAIN override THEN override[k] ELSE base[k]]

MergeValue(key, base, override) ==
    IF key \notin ReplacedKeys /\ base.is = "mapping" /\ override.is = "mapping"
      THEN Mapping(MergeOver(base.of, override.of))
    ELSE IF key \notin ReplacedKeys /\ base.is = "list" /\ override.is = "list"
      THEN List(base.of \cup override.of)
    ELSE override

MergeMappings(base, override) ==
    LET restated == DOMAIN override \ InternalKeys
    IN [k \in DOMAIN base \cup restated |->
          IF k \notin restated THEN base[k]
          ELSE IF k \in DOMAIN base THEN MergeValue(k, base[k], override[k])
          ELSE override[k]]

InFile(service, path) ==
    IF service = Null THEN Null
    ELSE [k \in DOMAIN service \cup {"file"} |-> IF k = "file" THEN Scalar(path) ELSE service[k]]

\* A service both declare is merged field by field and stays where the base has it.
MergeServices(base, override) ==
    [name \in DOMAIN base.services \cup DOMAIN override.services |->
        LET below == base.services[name]
            above == override.services[name]
        IN IF name \notin DOMAIN override.services THEN InFile(below, "base")
           ELSE IF name \notin DOMAIN base.services \/ below = Null THEN InFile(above, "override")
           ELSE IF above = Null THEN InFile(below, "base")
           ELSE MergeMappings(InFile(below, "base"), above)]

BaseOf(documents, override) ==
    {d \in documents : ~d.override /\ d.name = override.name}

\* A file that does not parse is not among the documents.
Parsed(files) == {f \in files : f.parses}

ComposeFiles(files) ==
    {[name |-> f.name, override |-> f.override, services |-> f.services] :
        f \in {g \in Parsed(files) : g.kind = "compose"}}

(* An override without a base is no configuration; a base with one is only  *)
(* what the two amount to.                                                  *)
EffectiveComposeDocuments(documents) ==
    LET overrides == {d \in documents : d.override /\ BaseOf(documents, d) # {}}
        merged == {[name |-> o.name,
                    services |-> MergeServices(CHOOSE b \in BaseOf(documents, o) : TRUE, o)] :
                      o \in overrides}
        alone == {d \in documents : ~d.override /\ d.name \notin {o.name : o \in overrides}}
    IN merged \cup {[name |-> d.name, services |-> d.services] : d \in alone}

MergeDockerFiles(files) ==
    [dockerfiles |-> {f.name : f \in {g \in Parsed(files) : g.kind = "dockerfile"}},
     compose_files |-> ComposeFiles(files),
     effective_compose_files |-> EffectiveComposeDocuments(ComposeFiles(files))]

-----------------------------------------------------------------------------
(* Properties *)

Sets(service, field) == service # Null /\ field \in DOMAIN service /\ service[field] # Null

(* A setting that a base file or its override makes is in the configuration *)
(* the absence rules read, so none of them reports it missing; the items of *)
(* a list both give, outside the keys that are replaced, are all there.     *)
NothingLost(documents) ==
    \A o \in {d \in documents : d.override} : \A b \in BaseOf(documents, o) :
        \E e \in EffectiveComposeDocuments(documents) :
            /\ e.name = o.name
            /\ \A d \in {b, o} : \A name \in DOMAIN d.services :
                 /\ name \in DOMAIN e.services
                 /\ \A field \in DOMAIN d.services[name] \ {"is"} :
                      LET was == d.services[name][field] IN
                      Sets(d.services[name], field) =>
                        /\ field \in DOMAIN e.services[name]
                        /\ (field \notin ReplacedKeys /\ was.is = "list"
                             /\ e.services[name][field].is = "list")
                             => was.of \subseteq e.services[name][field].of

(* A configuration says of each of its services which file declares it, and *)
(* the line numbers it gives are of that file.                              *)
LinesAreOfTheFile(documents) ==
    \A o \in {d \in documents : d.override} : \A b \in BaseOf(documents, o) :
        LET services == MergeServices(b, o)
            declared == [base |-> b.services, override |-> o.services]
        IN \A name \in {n \in DOMAIN services : services[n] # Null} :
             LET at == declared[services[name]["file"].of]
             IN /\ name \in DOMAIN at
                /\ at[name] # Null
                /\ at[name]["line"] = services[name]["line"]
=============================================================================
