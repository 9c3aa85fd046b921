-------------------------- MODULE ActionIntegration --------------------------
(***************************************************************************)
(* The button that proposes the telemetry action: what it inserts into the *)
(* workflow files and the README, to which commit the action is pinned,    *)
(* and when a pull request is opened for it.                               *)
(*                                                                         *)
(* A workflow is a sequence of lines: the head of a job, its permissions   *)
(* (a mapping, whose scopes follow line by line, or another form), its     *)
(* steps, a step with the action it uses, or other text.  A README is a    *)
(* sequence of lines, each a sequence of words, and whether the last one   *)
(* ends in a newline.                                                      *)
(*                                                                         *)
(* A remote maps a repository that answers to what is known of it: its     *)
(* tags and branches (objects of a type and a hash), the commits its tag   *)
(* objects stand for, its latest release and its tags, newest first.  A    *)
(* cached answer is one of up to a day ago.                                *)
(***************************************************************************)
EXTENDS Naturals, FiniteSets, Sequences, SequencesExt, FiniteSetsExt

CONSTANT Shas \* the references that are commit hashes

Nothing == "nothing"

Job(name) == [is |-> "job", name |-> name]
Permissions(form) == [is |-> "permissions", form |-> form]
Scope(name, value) == [is |-> "scope", name |-> name, value |-> value]
StepsOf(form) == [is |-> "steps", form |-> form]
Step(repo, ref, comment) == [is |-> "step", repo |-> repo, ref |-> ref, comment |-> comment]
Text == [is |-> "text"]

-----------------------------------------------------------------------------
(* Reading a workflow *)

Heads(doc) == {i \in DOMAIN doc : doc[i].is = "job"}

\* The lines of the job with its head at i.
Lines(doc, i) == {k \in DOMAIN doc : k > i /\ \A h \in Heads(doc) : ~(i < h /\ h <= k)}

Of(doc, i, kind) == {k \in Lines(doc, i) : doc[k].is = kind}

ScopesAt(doc, p) ==
    {k \in DOMAIN doc : k > p /\ \A j \in (p + 1)..k : doc[j].is = "scope"}

\* A repeated key and a scope that no mapping has are errors; so is a job met twice.
Loads(doc) ==
    /\ \A i, j \in Heads(doc) : doc[i] = doc[j] => i = j
    /\ \A i \in Heads(doc) :
         /\ Cardinality(Of(doc, i, "permissions")) <= 1
         /\ Cardinality(Of(doc, i, "steps")) <= 1
         /\ \A k \in Of(doc, i, "step") :
              \E s \in Of(doc, i, "steps") : s < k /\ doc[s].form = "list"
         /\ \A k \in Of(doc, i, "scope") :
              \E p \in Of(doc, i, "permissions") : doc[p].form = "mapping" /\ k \in ScopesAt(doc, p)
         /\ \A j, k \in Of(doc, i, "scope") : doc[j].name = doc[k].name => j = k

\* The form of what the job says of its permissions; a key without a value says nothing.
PermissionForm(doc, i) ==
    IF Of(doc, i, "permissions") = {} THEN "none"
    ELSE doc[Max(Of(doc, i, "permissions"))].form

HasScope(doc, i, name, value) ==
    \E k \in Of(doc, i, "scope") : doc[k].name = name /\ doc[k].value = value

-----------------------------------------------------------------------------
(* What is inserted *)

Insertion(at, text) == [at |-> at, text |-> text]

AlreadyPresent(doc, i, ref) == \E k \in Of(doc, i, "step") : doc[k].repo = ref.repo

\* The telemetry step goes before the first step of the job.
StepInsertions(doc, i, ref) ==
    IF AlreadyPresent(doc, i, ref) THEN {}
    ELSE {Insertion(Min(Of(doc, i, "step")), <<Step(ref.repo, ref.ref, ref.comment)>>)}

(* A scope of another value does not count as set, a flow mapping is taken   *)
(* for one of lines, and a word such as read-all is left alone.              *)
PermissionInsertions(doc, i) ==
    IF PermissionForm(doc, i) \in {"mapping", "flow"} /\ ~HasScope(doc, i, "id-token", "write")
      THEN {Insertion(Max(Of(doc, i, "permissions")) + 1, <<Scope("id-token", "write")>>)}
    ELSE IF PermissionForm(doc, i) \in {"none", "null"}
      THEN {Insertion(Max(Of(doc, i, "steps")),
                      <<Permissions("mapping"), Scope("id-token", "write")>>)}
    ELSE {}

\* A job without steps, one that calls a reusable workflow, is left alone.
JobInsertions(doc, ref) ==
    UNION {StepInsertions(doc, i, ref) \cup PermissionInsertions(doc, i) :
             i \in {h \in Heads(doc) : Of(doc, h, "step") # {}}}

\* The last insertion first, so that the places of the others stay valid.
InsertAll(doc, insertions) ==
    FoldLeft(LAMBDA lines, x : SubSeq(lines, 1, x.at - 1) \o x.text
                                 \o SubSeq(lines, x.at, Len(lines)),
             doc, SetToSortSeq(insertions, LAMBDA x, y : x.at > y.at))

Unmodified(doc) == [content |-> doc, modified |-> FALSE]

InjectAction(doc, ref) ==
    IF ~Loads(doc) \/ JobInsertions(doc, ref) = {} THEN Unmodified(doc)
    ELSE [content |-> InsertAll(doc, JobInsertions(doc, ref)), modified |-> TRUE]

-----------------------------------------------------------------------------
(* Pinning an action *)

Uses(doc) == {doc[k] : k \in {j \in DOMAIN doc : doc[j].is = "step" /\ doc[j].repo # Nothing}}

ParseActionRefs(doc) == {<<u.repo, u.ref>> : u \in {v \in Uses(doc) : v.ref \notin Shas}}

ReferencedRepos(doc) == {u.repo : u \in Uses(doc)}

\* A tag that is an object of its own stands for the commit it tags.
CommitOf(known, object) == IF object.type = "tag" THEN known.tagged[object.sha] ELSE object.sha

ResolveRefToSha(remote, repo, ref) ==
    IF repo \notin DOMAIN remote THEN Nothing
    ELSE LET known == remote[repo] IN
         IF ref \in DOMAIN known.tags THEN CommitOf(known, known.tags[ref])
         ELSE IF ref \in DOMAIN known.heads THEN CommitOf(known, known.heads[ref])
         ELSE Nothing

GetLatestVersion(remote, repo) ==
    IF repo \notin DOMAIN remote THEN Nothing
    ELSE IF remote[repo].release # Nothing THEN remote[repo].release
    ELSE IF remote[repo].newest # <<>> THEN Head(remote[repo].newest)
    ELSE Nothing

\* What the prompt is told: the hash of every reference there is, and of known actions there are not.
ResolveActionShas(remote, doc, wellknown) ==
    LET offered == {<<a, GetLatestVersion(remote, a)>> : a \in wellknown \ ReferencedRepos(doc)}
        refs == ParseActionRefs(doc) \cup {o \in offered : o[2] # Nothing}
        resolved == {x \in refs : ResolveRefToSha(remote, x[1], x[2]) # Nothing}
    IN [x \in resolved |-> ResolveRefToSha(remote, x[1], x[2])]

ResolveAndPinRefs(remote, doc) ==
    [k \in DOMAIN doc |->
        IF doc[k].is = "step" /\ <<doc[k].repo, doc[k].ref>> \in ParseActionRefs(doc)
             /\ ResolveRefToSha(remote, doc[k].repo, doc[k].ref) # Nothing
        THEN Step(doc[k].repo, ResolveRefToSha(remote, doc[k].repo, doc[k].ref),
                  <<doc[k].ref>> \o doc[k].comment)
        ELSE doc[k]]

\* A tag that is not there is replaced by the latest version there is.
ResolvePinnedRef(remote, ref) ==
    LET latest == GetLatestVersion(remote, ref.repo)
        tag == IF ResolveRefToSha(remote, ref.repo, ref.ref) = Nothing /\ latest # Nothing
               THEN latest ELSE ref.ref
        sha == ResolveRefToSha(remote, ref.repo, tag)
    IN IF ref.ref \in Shas \/ sha = Nothing THEN ref
       ELSE [repo |-> ref.repo, ref |-> sha, comment |-> <<tag>>]

-----------------------------------------------------------------------------
(* The badge in the README *)

\* Images: our badge, another image of the same address, and other badges.
OurBadge == "badge"
OurAddress == {OurBadge, "address"}
Images == OurAddress \cup {"image"}
HeadingMark == "#"

WordsOf(readme) == UNION {ToSet(readme.lines[i]) : i \in DOMAIN readme.lines}

SignificantLines(readme) == SelectSeq(readme.lines, LAMBDA line : line # <<>>)

\* The first badge taken out again.
WithoutBadge(readme) ==
    LET i == Min({j \in DOMAIN readme.lines : OurBadge \in ToSet(readme.lines[j])})
    IN [readme EXCEPT !.lines[i] = RemoveFirst(@, OurBadge)]

BadgeOnlyAdded(original, modified) ==
    /\ OurBadge \in WordsOf(modified)
    /\ SignificantLines(WithoutBadge(modified)) = SignificantLines(original)

IsBadgeLine(line) == line # <<>> /\ ToSet(line) \subseteq Images

\* The first line of badges and the last that follows it without a gap.
RunStart(lines) == Min({i \in DOMAIN lines : IsBadgeLine(lines[i])})
RunEnd(lines) ==
    Max({i \in RunStart(lines)..Len(lines) :
           \A k \in RunStart(lines)..i : IsBadgeLine(lines[k])})

\* The first heading whose line ends in a newline.
Headings(readme) ==
    {i \in DOMAIN readme.lines :
        /\ readme.lines[i] # <<>> /\ Head(readme.lines[i]) = HeadingMark
        /\ i < Len(readme.lines) \/ readme.newline}

InsertLines(lines, at, text) == SubSeq(lines, 1, at) \o text \o SubSeq(lines, at + 1, Len(lines))

InsertBadgeSimple(readme) ==
    LET lines == readme.lines IN
    IF \E i \in DOMAIN lines : IsBadgeLine(lines[i])
      THEN IF RunStart(lines) = RunEnd(lines)
             THEN [readme EXCEPT !.lines[RunStart(lines)] = Append(@, OurBadge)]
             ELSE [readme EXCEPT !.lines = InsertLines(lines, RunEnd(lines), <<<<OurBadge>>>>)]
    ELSE IF Headings(readme) # {}
      THEN [lines |-> InsertLines(lines, Min(Headings(readme)), <<<<>>, <<OurBadge>>>>),
            newline |-> Min(Headings(readme)) = Len(lines) \/ readme.newline]
    ELSE [lines |-> <<<<OurBadge>>, <<>>>> \o lines, newline |-> lines = <<>> \/ readme.newline]

(* What becomes of a README there may be, <<>> if it is left alone: without  *)
(* one, with the badge in it, and when the provider raises.  A reply that    *)
(* changes more than the badge is not taken.                                 *)
Raises == [raises |-> TRUE, reply |-> <<>>]
Replies(readmes) == [raises |-> FALSE, reply |-> readmes]

BadgedReadme(readmes, answer) ==
    IF readmes = <<>> \/ answer.raises \/ WordsOf(readmes[1]) \cap OurAddress # {} THEN <<>>
    ELSE IF answer.reply # <<>> /\ BadgeOnlyAdded(readmes[1], answer.reply[1]) THEN answer.reply
    ELSE <<InsertBadgeSimple(readmes[1])>>

-----------------------------------------------------------------------------
(* The request *)

\* The files of the default branch; one that cannot be read is taken as it is stored.
BaseContent(file) == IF file.read THEN file.live ELSE file.stored

Injected(file, ref) == InjectAction(BaseContent(file), ref)

FileChanges(repo, ref) ==
    [p \in {q \in DOMAIN repo.files : Injected(repo.files[q], ref).modified} |->
        Injected(repo.files[p], ref).content]

Refused(status) == [status |-> status, files |-> <<>>, readme |-> <<>>, recorded |-> FALSE]

(* repo.delivery is what the delivery answers: an error, a pull request, or  *)
(* no pull request.  Only the second is recorded.                            *)
IntegrateAction(repo, remote, ref) ==
    LET files == FileChanges(repo, ResolvePinnedRef(remote, ref))
        readme == BadgedReadme(repo.readme, repo.answer)
    IN IF ~repo.accessible THEN Refused(403)
       ELSE IF ~repo.idle THEN Refused(409)
       ELSE IF repo.files = <<>> THEN Refused(404)
       ELSE IF ~repo.installed THEN Refused(400)
       ELSE IF DOMAIN files = {} /\ readme = <<>> THEN Refused(409)
       ELSE IF repo.delivery = "error" THEN Refused(502)
       ELSE [status |-> 202, files |-> files, readme |-> readme,
             recorded |-> repo.delivery = "opened"]

-----------------------------------------------------------------------------
(* Properties *)

(* What a job amounts to: its steps in order, its scopes and other lines.   *)
StepsIn(doc, i) ==
    LET at == SetToSortSeq(Of(doc, i, "step"), <) IN [n \in DOMAIN at |-> doc[at[n]]]
ScopesIn(doc, i) == {doc[k] : k \in Of(doc, i, "scope")}
HeadOf(doc, name) == CHOOSE i \in Heads(doc) : doc[i].name = name

(* No job says of its permissions what the insertion cannot be joined to: a *)
(* key without a value, a flow mapping, or another value of the scope.      *)
Joinable(doc) ==
    \A i \in Heads(doc) :
        /\ PermissionForm(doc, i) \notin {"null", "flow"}
        /\ \A k \in Of(doc, i, "scope") : doc[k].name = "id-token" => doc[k].value = "write"

(* A workflow with the action in it still loads, has the jobs it had, and   *)
(* each that has steps has its own in their order with telemetry once and   *)
(* first, and the scopes it had with the one for telemetry.                 *)
OnlyTelemetryAdded(doc, ref) ==
    Loads(doc) /\ Joinable(doc) =>
      LET new == InjectAction(doc, ref).content IN
      /\ Loads(new)
      /\ [n \in 1..Cardinality(Heads(doc)) |-> doc[SetToSortSeq(Heads(doc), <)[n]]]
           = [n \in 1..Cardinality(Heads(new)) |-> new[SetToSortSeq(Heads(new), <)[n]]]
      /\ \A i \in Heads(doc) :
           LET j == HeadOf(new, doc[i].name)
               had == StepsIn(doc, i)
               step == Step(ref.repo, ref.ref, ref.comment)
               granted == IF PermissionForm(doc, i) = "word" THEN {} ELSE {Scope("id-token", "write")}
           IN IF had = <<>> THEN StepsIn(new, j) = had /\ ScopesIn(new, j) = ScopesIn(doc, i)
              ELSE /\ StepsIn(new, j) = (IF AlreadyPresent(doc, i, ref) THEN had ELSE <<step>> \o had)
                   /\ ScopesIn(new, j) = ScopesIn(doc, i) \cup granted

(* A workflow that has the action is left alone, whatever the action is     *)
(* pinned to by then.                                                       *)
InjectedOnce(doc, ref, later) ==
    Joinable(doc) /\ Loads(doc) => ~InjectAction(InjectAction(doc, ref).content, later).modified

(* Whatever the model answers, the README that is delivered has the text of *)
(* the one there was, line for line, and the badge once.                    *)
Unbadged(readme) ==
    SelectSeq([i \in DOMAIN readme.lines |->
                 SelectSeq(readme.lines[i], LAMBDA word : word # OurBadge)],
              LAMBDA line : line # <<>>)

Badges(readme) ==
    SelectSeq(FlattenSeq(readme.lines), LAMBDA word : word = OurBadge)

OnlyTheBadge(readme, answer) ==
    \A new \in ToSet(BadgedReadme(<<readme>>, answer)) :
        Unbadged(new) = Unbadged(readme) /\ Len(Badges(new)) = 1

(* The fallback puts the badge among the badges there are.                  *)
JoinsTheRow(readme) ==
    (\E i \in DOMAIN readme.lines : IsBadgeLine(readme.lines[i])) =>
      LET new == InsertBadgeSimple(readme).lines IN
      \E i \in RunStart(new)..RunEnd(new) : OurBadge \in ToSet(new[i])

(* Once the changes are on the default branch there is nothing to propose.  *)
Merged(repo, proposal) ==
    [repo EXCEPT
       !.files = [p \in DOMAIN @ |-> IF p \in DOMAIN proposal.files
                                     THEN [@[p] EXCEPT !.live = proposal.files[p]] ELSE @[p]],
       !.readme = IF proposal.readme = <<>> THEN @ ELSE proposal.readme]

NothingLeft(repo, remote, ref, answer) ==
    LET first == IntegrateAction(repo, remote, ref)
        again == [Merged(repo, first) EXCEPT !.answer = answer]
    IN first.status = 202 /\ ~repo.answer.raises
         => IntegrateAction(again, remote, ref).status = 409

(* A pin is a hash that the tag in its comment has at the remote, no step   *)
(* changes its action, and pinning again changes nothing.                   *)
PinsAreReal(remote, doc) ==
    LET new == ResolveAndPinRefs(remote, doc) IN
    /\ ResolveAndPinRefs(remote, new) = new
    /\ \A k \in DOMAIN doc :
         new[k] # doc[k] => /\ new[k].repo = doc[k].repo /\ doc[k].ref \notin Shas
                            /\ new[k].ref = ResolveRefToSha(remote, doc[k].repo, Head(new[k].comment))
                            /\ Head(new[k].comment) = doc[k].ref

(* The action is put in at a hash that its comment names, or as configured. *)
PinnedAsSaid(remote, ref) ==
    LET pinned == ResolvePinnedRef(remote, ref) IN
    \/ pinned = ref
    \/ /\ pinned.repo = ref.repo /\ ref.ref \notin Shas
       /\ pinned.ref = ResolveRefToSha(remote, ref.repo, Head(pinned.comment))

(* The prompt never offers a version of an action the workflow already      *)
(* uses other than the one it uses.                                         *)
NoOtherVersion(remote, doc, wellknown) ==
    \A x \in DOMAIN ResolveActionShas(remote, doc, wellknown) :
        x[1] \in ReferencedRepos(doc) => \E u \in Uses(doc) : u.repo = x[1] /\ u.ref = x[2]
=============================================================================
