----------------------------- MODULE FixGuards -----------------------------
(***************************************************************************)
(* What is done with a rewrite the LLM returns before it is stored as a    *)
(* fix: the gates of a workflow file, and those of a file of an engine's   *)
(* target.                                                                 *)
(*                                                                         *)
(* A document is a sequence of lines; a line has the prose of the comment  *)
(* it is (or Blank), the action it uses (or Blank) at some version (or     *)
(* Blank), its other code, and the whitespace at its end.  How the parsers *)
(* and the rules read documents is a record E:                             *)
(*    E.exact      the versions that are commit hashes                     *)
(*    E.parses     the pairs <<path, document>> the path's parser reads    *)
(*    E.kind       the kind of Ansible file of such a pair, or NoKind      *)
(*    E.variables  the Jinja variables of a document                       *)
(*    E.tags       its explicit YAML tags                                  *)
(*    E.verdict    <<the rules that a tree of documents violates>>, or     *)
(*                 <<>> if they cannot be evaluated                        *)
(***************************************************************************)
EXTENDS Naturals, Sequences

Blank == ""
NoKind == "none"

-----------------------------------------------------------------------------
(* Reading a document *)

\* A line that is no comment, or a bare comment marker, has no text.
DocComments(doc) == {doc[i].comment : i \in DOMAIN doc} \ {Blank}

\* As sets: one of two equal comments may go.
DeletedComments(original, patched) == DocComments(original) \ DocComments(patched)

IsPin(line) == line.action # Blank /\ line.version # Blank

Actions(doc) == {doc[i].action : i \in {j \in DOMAIN doc : IsPin(doc[j])}}

\* An action that is used more than once has the version of its last use.
Pinned(doc, a, i) == i \in DOMAIN doc /\ IsPin(doc[i]) /\ doc[i].action = a

PinOf(doc, a) ==
    doc[CHOOSE i \in DOMAIN doc :
            Pinned(doc, a, i) /\ \A j \in DOMAIN doc : Pinned(doc, a, j) => j <= i].version

Tightened(E, before, after) == before \notin E.exact /\ after \in E.exact

PinningRules == {"unpinned_actions", "impostor_commit", "stale_action_ref"}

\* A pinning finding among those to fix allows any change of a pin.
UnrequestedPinChanges(E, original, patched, issues) ==
    IF \E i \in DOMAIN issues : issues[i] \in PinningRules THEN {}
    ELSE {a \in Actions(original) \cap Actions(patched) :
             /\ PinOf(patched, a) # PinOf(original, a)
             /\ ~Tightened(E, PinOf(original, a), PinOf(patched, a))}

-----------------------------------------------------------------------------
(* The reply *)

\* The reply has a rewrite or none; an empty one is none.
HasContent(reply) == reply.content # <<>>

SameCode(l, m) == [l EXCEPT !.trail = m.trail] = m

\* A line that differs from the line it replaces only at its end is put back.
RestoreTrailingWhitespace(original, patched) ==
    [i \in DOMAIN patched |->
        IF i \in DOMAIN original /\ SameCode(patched[i], original[i]) THEN original[i] ELSE patched[i]]

\* The model's own list of the findings it could not fix, by their place.
NeedsManualWork(reply, issues) == [i \in DOMAIN issues |-> i \in reply.unfixed]

-----------------------------------------------------------------------------
(* The gates *)

\* Only a comparison of two evaluations is evidence.
IntroducedRuleSlugs(E, before, after) ==
    IF E.verdict[before] = <<>> \/ E.verdict[after] = <<>> THEN {}
    ELSE E.verdict[after][1] \ E.verdict[before][1]

Alone(path, doc) == [p \in {path} |-> doc]

WorkflowError(E, path, original, patched, issues) ==
    IF UnrequestedPinChanges(E, original, patched, issues) # {} THEN "pins moved"
    ELSE IF <<path, patched>> \notin E.parses THEN "invalid YAML"
    ELSE IF DeletedComments(original, patched) # {} THEN "comments deleted"
    ELSE IF IntroducedRuleSlugs(E, Alone(path, original), Alone(path, patched)) # {}
      THEN "violations introduced"
    ELSE "none"

\* An Ansible file stays of its kind and keeps its variables and tags.
ValidateAnsibleFix(E, path, original, patched) ==
    IF E.kind[<<path, patched>>] = NoKind THEN "invalid"
    ELSE IF E.kind[<<path, original>>] \notin {NoKind, E.kind[<<path, patched>>]} THEN "kind changed"
    ELSE IF ~(E.variables[original] \subseteq E.variables[patched]) THEN "variables dropped"
    ELSE IF ~(E.tags[original] \subseteq E.tags[patched]) THEN "tags dropped"
    ELSE "none"

ValidateDocker(E, path, patched) ==
    IF <<path, patched>> \in E.parses THEN "none" ELSE "invalid"

ValidateTerraform(E, path, patched) ==
    IF <<path, patched>> \in E.parses THEN "none" ELSE "invalid"

Validate(E, engine, path, original, patched) ==
    IF engine = "ansible" THEN ValidateAnsibleFix(E, path, original, patched)
    ELSE IF engine = "docker" THEN ValidateDocker(E, path, patched)
    ELSE ValidateTerraform(E, path, patched)

\* The rules read the whole target, with the one file replaced.
IntroducedViolations(E, files, path, patched) ==
    IntroducedRuleSlugs(E, files, [files EXCEPT ![path] = patched])

FileError(E, engine, files, path, patched) ==
    LET invalid == Validate(E, engine, path, files[path], patched)
    IN IF invalid # "none" THEN invalid
       ELSE IF DeletedComments(files[path], patched) # {} THEN "comments deleted"
       ELSE IF IntroducedViolations(E, files, path, patched) # {} THEN "violations introduced"
       ELSE "none"

-----------------------------------------------------------------------------
(* The two flows *)

FailedFix(error) == [status |-> "failed", error |-> error, content |-> <<>>, base |-> <<>>,
                     manual |-> <<>>]

ReadyFix(content, base, manual) ==
    [status |-> "ready", error |-> "none", content |-> content, base |-> base, manual |-> manual]

\* A remote that cannot be read, or an empty file, leaves the stored copy.
BaseContent(stored, remote) ==
    IF remote.reachable /\ remote.file # <<>> /\ remote.file[1] # <<>> THEN remote.file[1] ELSE stored

WorkflowRewrite(E, path, base, reply, issues) ==
    LET full == RestoreTrailingWhitespace(base, reply.content)
        error == WorkflowError(E, path, base, full, issues)
    IN IF error = "none" THEN ReadyFix(full, base, NeedsManualWork(reply, issues))
       ELSE FailedFix(error)

\* Without findings nothing is generated; a file that is gone fails the fix.
RunFixGeneration(E, path, stored, remote, reply, issues) ==
    IF remote.reachable /\ remote.file = <<>> THEN FailedFix("file removed")
    ELSE IF ~reply.answered THEN FailedFix("no answer")
    ELSE IF ~HasContent(reply) THEN FailedFix("missing content")
    ELSE WorkflowRewrite(E, path, BaseContent(stored, remote), reply, issues)

VetRewrite(E, engine, files, path, reply, issues) ==
    LET full == RestoreTrailingWhitespace(files[path], reply.content)
        error == FileError(E, engine, files, path, full)
    IN IF error = "none" THEN ReadyFix(full, files[path], NeedsManualWork(reply, issues))
       ELSE FailedFix(error)

\* The files are those on the remote; there is no copy to fall back to.
GenerateFileFix(E, engine, files, path, reply, issues) ==
    IF path \notin DOMAIN files THEN FailedFix("file removed")
    ELSE IF ~reply.answered THEN FailedFix("no answer")
    ELSE IF ~HasContent(reply) THEN FailedFix("missing content")
    ELSE VetRewrite(E, engine, files, path, reply, issues)

-----------------------------------------------------------------------------
(* Properties *)

(* The fix that is stored is the model's text but for the whitespace at the *)
(* ends of lines, and has every comment of the file it replaces.            *)
KeepsText(fix, reply) ==
    fix.status = "ready" =>
        /\ DOMAIN fix.content = DOMAIN reply.content
        /\ \A i \in DOMAIN fix.content : SameCode(fix.content[i], reply.content[i])
        /\ DocComments(fix.base) \subseteq DocComments(reply.content)

(* A version that was a commit hash at the last use of an action is that    *)
(* hash in a fix nobody asked to move it; a tag is that tag, or a hash.     *)
KeepsPins(E, fix, issues) ==
    fix.status = "ready" /\ (\A i \in DOMAIN issues : issues[i] \notin PinningRules) =>
        \A a \in Actions(fix.base) \cap Actions(fix.content) :
            \/ PinOf(fix.content, a) = PinOf(fix.base, a)
            \/ PinOf(fix.base, a) \notin E.exact /\ PinOf(fix.content, a) \in E.exact

(* The tree that has the fix violates no rule that the tree it was made     *)
(* from does not, unless one of them could not be evaluated.                *)
TradesNothing(E, fix, before, after) ==
    fix.status = "ready" /\ E.verdict[before] # <<>> /\ E.verdict[after] # <<>> =>
        E.verdict[after][1] \subseteq E.verdict[before][1]

(* An Ansible file keeps its kind, its variables and its tags.              *)
KeepsAnsible(E, path, fix) ==
    fix.status = "ready" =>
        /\ E.kind[<<path, fix.content>>] # NoKind
        /\ E.kind[<<path, fix.base>>] \in {NoKind, E.kind[<<path, fix.content>>]}
        /\ E.variables[fix.base] \subseteq E.variables[fix.content]
        /\ E.tags[fix.base] \subseteq E.tags[fix.content]
=============================================================================
