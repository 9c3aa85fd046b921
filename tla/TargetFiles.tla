---------------------------- MODULE TargetFiles ----------------------------
(***************************************************************************)
(* Which files of a repository belong to a scan target: what a scan        *)
(* fetches under the target's root, which pushes have the target scanned   *)
(* again, and which target a measured build is shown under.                *)
(*                                                                         *)
(* A path is a record of its directory, a sequence of names, and its file  *)
(* name, a record [stem, infix, suffix] in lower case (for docker-         *)
(* compose.override.yml: docker-compose, {override}, yml; without a dot    *)
(* the suffix is "").  A tree maps the paths of a commit to contents,      *)
(* a content to whether it parses and the shapes of its YAML documents.    *)
(***************************************************************************)
EXTENDS Naturals, Sequences, FiniteSets

Nothing == "none"

-----------------------------------------------------------------------------
(* Names *)

YamlSuffixes == {"yml", "yaml"}

DockerfileStems == {"dockerfile", "containerfile"}

ComposeStems == {"compose", "docker-compose"}

NotADockerfile == {"md", "txt", "rst", "lock", "log", "json"} \cup YamlSuffixes

ClassifyDockerFile(name) ==
    IF \/ name.suffix = "dockerfile"
       \/ name.stem \in DockerfileStems /\ name.suffix \notin NotADockerfile
      THEN "dockerfile"
    ELSE IF name.stem \in ComposeStems /\ name.suffix \in YamlSuffixes THEN "compose"
    ELSE Nothing

\* The one file Compose loads on top of another by itself.
IsOverrideFile(name) == ClassifyDockerFile(name) = "compose" /\ "override" \in name.infix

Elements(dir) == {dir[i] : i \in DOMAIN dir}

HiddenDirs == {".git", ".github", ".venv", ".terraform"}

TerraformSkipDirs == {".terraform", ".git"}

SkipDirs == {".git", ".github", "node_modules", "vendor", "dist", "build", ".venv", "site-packages"}

\* The kinds of which the shape of the document says nothing.
KindFromPath(path) ==
    IF path.name.stem = "requirements" /\ path.name.suffix \in YamlSuffixes THEN "requirements"
    ELSE IF \/ Elements(path.dir) \cap {"group_vars", "host_vars"} # {}
            \/ path.dir # <<>> /\ path.dir[Len(path.dir)] \in {"vars", "defaults"}
      THEN "vars"
    ELSE IF path.dir # <<>> /\ path.dir[Len(path.dir)] = "handlers" THEN "handlers"
    ELSE Nothing

\* A shape is "plays", "tasks", "galaxy" (a mapping that names collections or
\* roles), "mapping" or "other"; empty documents are not among the shapes.
ClassifyAnsibleFile(path, content) ==
    LET shapes == content.shapes
        kind == KindFromPath(path)
        all == {shapes[i] : i \in DOMAIN shapes}
    IN IF \/ path.name.suffix \notin YamlSuffixes
          \/ Elements(path.dir) \cap SkipDirs # {}
          \/ ~content.parses \/ shapes = <<>>
         THEN Nothing
       ELSE IF kind = "requirements" THEN (IF shapes[1] = "galaxy" THEN "requirements" ELSE Nothing)
       ELSE IF "plays" \in all THEN "playbook"
       ELSE IF all = {"tasks"} THEN (IF kind = "handlers" THEN "handlers" ELSE "tasks")
       ELSE IF kind = "vars" /\ shapes[1] \in {"mapping", "galaxy"} THEN "vars"
       ELSE Nothing

-----------------------------------------------------------------------------
(* What a scan fetches *)

\* dir is root, or below it; the empty root is above everything.
Below(root, dir) == Len(root) <= Len(dir) /\ \A i \in DOMAIN root : root[i] = dir[i]

Between(root, dir) == {dir[i] : i \in {j \in DOMAIN dir : j > Len(root)}}

\* The walk enters no hidden or skipped directory, and only so many levels.
Walked(root, path, skipped, maxdepth) ==
    /\ Below(root, path.dir)
    /\ Len(path.dir) <= Len(root) + maxdepth
    /\ Between(root, path.dir) \cap (skipped \cup HiddenDirs) = {}

IsTerraformFile(path, root, maxdepth) ==
    /\ Walked(root, path, TerraformSkipDirs, maxdepth)
    /\ \/ path.name.suffix = "tf"
       \/ path.name.suffix = "json" /\ "tf" \in path.name.infix

\* A Dockerfile of a subdirectory belongs to a target of its own.
IsDockerFile(path, root) == path.dir = root /\ ClassifyDockerFile(path.name) # Nothing

IsAnsibleFile(path, content, root, maxdepth) ==
    Walked(root, path, SkipDirs, maxdepth) /\ ClassifyAnsibleFile(path, content) # Nothing

Belongs(engine, path, content, root, maxdepth) ==
    \/ engine = "terraform" /\ IsTerraformFile(path, root, maxdepth)
    \/ engine = "docker" /\ IsDockerFile(path, root)
    \/ engine = "ansible" /\ IsAnsibleFile(path, content, root, maxdepth)

\* The first n, in the order in which GitHub lists them.
FirstOf(n, files, rank) ==
    {f \in files : Cardinality({g \in files : rank[g[1]] < rank[f[1]]}) < n}

Owned(engine, tree, root, maxdepth) ==
    {<<path, tree[path]>> : path \in
        {p \in DOMAIN tree : Belongs(engine, p, tree[p], root, maxdepth)}}

\* bounds is the engine's [maxdepth, maxfiles].
FetchFiles(engine, tree, root, bounds, rank) ==
    FirstOf(bounds.maxfiles, Owned(engine, tree, root, bounds.maxdepth), rank)

\* The files page labels each of them; one it cannot label it calls as most are.
ShownKind(engine, path, content) ==
    LET kind == IF engine = "docker" THEN ClassifyDockerFile(path.name)
                ELSE ClassifyAnsibleFile(path, content)
    IN IF kind # Nothing THEN kind ELSE IF engine = "docker" THEN "dockerfile" ELSE "tasks"

-----------------------------------------------------------------------------
(* Registering targets, and scanning them after a push *)

\* The root of the repository is no Terraform root, and a folder is one target.
CanCreate(engine, root, roots) == (root = <<>> => engine # "terraform") /\ root \notin roots

Touches(root, changed) == \E p \in changed : Below(root, p.dir)

TouchesOrRoot(root, changed) == root = <<>> \/ Touches(root, changed)

\* changed is <<paths>>, or <<>> if the payload cannot be trusted to list them.
ChangedPaths(push) == IF push.new \/ push.forced THEN <<>> ELSE <<push.paths>>

\* A push without a path has nothing under a Terraform root, even an empty one.
Enqueues(engine, target, push, defaultbranch) ==
    /\ push.branch = defaultbranch
    /\ target.enabled
    /\ \/ ChangedPaths(push) = <<>>
       \/ engine = "terraform" /\ target.root # <<>> /\ Touches(target.root, push.paths)
       \/ engine # "terraform" /\ TouchesOrRoot(target.root, push.paths)

-----------------------------------------------------------------------------
(* Measured builds *)

\* The longest root above the file that was built; <<>> without a path.
OwningRootPath(dir, roots) ==
    LET above == {r \in roots : r # <<>> /\ Below(r, dir)}
    IN IF above = {} THEN <<>>
       ELSE CHOOSE r \in above : \A s \in above : Len(s) <= Len(r)

\* The newest builds of the repository, of which the target's own are shown.
RuntimeFindings(builds, roots, root, page) ==
    LET pages == IF roots = {} THEN 1 ELSE Cardinality(roots)
        rows == SubSeq(builds, 1, IF Len(builds) < page * pages THEN Len(builds) ELSE page * pages)
        mine == SelectSeq(rows, LAMBDA row : OwningRootPath(row.dir, roots) = root)
    IN SubSeq(mine, 1, IF Len(mine) < page THEN Len(mine) ELSE page)

-----------------------------------------------------------------------------
(* Properties *)

Differs(old, new) ==
    {p \in DOMAIN old \cup DOMAIN new :
        p \notin DOMAIN old \/ p \notin DOMAIN new \/ old[p] # new[p]}

(* If a push to the default branch has a target not scanned again, the      *)
(* target's files are those of before: no change of a scanned file is lost. *)
PushRescans(engine, target, old, new, push, defaultbranch, bounds, rank) ==
    /\ target.enabled /\ CanCreate(engine, target.root, {})
    /\ push.branch = defaultbranch /\ Differs(old, new) \subseteq push.paths
    /\ ~Enqueues(engine, target, push, defaultbranch)
    => FetchFiles(engine, new, target.root, bounds, rank)
         = FetchFiles(engine, old, target.root, bounds, rank)

(* A build is shown under one target: that of the folder it was built in,   *)
(* or the nearest above.                                                    *)
OwnedOnce(dir, roots) ==
    LET owner == OwningRootPath(dir, roots)
    IN /\ Below(owner, dir)
       /\ \A r \in roots : Below(r, dir) => Len(r) <= Len(owner)
=============================================================================
