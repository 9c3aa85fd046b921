------------------------- MODULE PullRequestMirror -------------------------
(***************************************************************************)
(* What the app believes of one repository at GitHub: the head of its      *)
(* default branch, and the lifecycle, CI outcome, review decision and      *)
(* slash commands of its fix pull requests.  Webhooks tell it, late, out   *)
(* of order or never; an external repository has none.  A poller asks      *)
(* GitHub now and then and feeds what it saw to the same handlers.         *)
(***************************************************************************)
EXTENDS Naturals, Sequences, FiniteSets, StateMachines

CONSTANTS
    Prs,        \* fix pull requests, each with its record
    Hooks,      \* the kinds of event whose webhooks reach the app
    Commented,  \* pull requests users write commands on
    Unreadable, \* pull requests whose comments may fail to be fetched
    Outcomes, Decisions, Verbs, Touched, \* what checks, reviews, commands and pushes may say
    Ops,        \* the kinds of event this instance allows
    MaxOps      \* how many of them may happen

HookKinds == {"push", "lifecycle", "synchronize", "check_suite", "review", "comment"}

OpKinds == HookKinds \cup {"crash"}

ASSUME PollAssumption ==
    /\ IsFiniteSet(Prs) /\ Commented \cup Unreadable \subseteq Prs
    /\ Outcomes \subseteq {"pending", "success", "failure"}
    /\ Decisions \subseteq {"approved", "changes_requested"}
    /\ Verbs \subseteq {"ignore", "unignore", "reanalyze"}
    /\ Touched \subseteq SUBSET {"workflow", "targets"}
    /\ Hooks \subseteq HookKinds /\ Ops \subseteq OpKinds /\ MaxOps \in Nat

VARIABLES
    head,       \* how many commits the default branch has
    pull,       \* pull[p]: the pull request at GitHub
    comments,   \* the commands written, oldest first
    record,     \* record[p]: the row of PullRequest
    polledHead, \* repo.last_polled_head_sha, 0 when NULL
    baseline,   \* the head the first poll found
    asked,      \* the scans that were queued, by what they scan and which head
    muted,      \* whether the finding the commands name has ignored_at
    applied,    \* which commands were carried out
    events,     \* webhooks under way
    poll,       \* the poll that is under way
    ops         \* counted events so far

vars == <<head, pull, comments, record, polledHead, baseline, asked, muted, applied,
          events, poll, ops>>

CI == {"none", "pending", "success", "failure"}

Reviews == {"none", "approved", "changes_requested", "review_required"}

Engines == {"workflow", "targets"}

Pull == [state : {"open", "closed", "merged"}, draft : BOOLEAN, head : Nat,
         ci : CI, review : Reviews \ {"review_required"}]

\* cursor: how many commands had been written when the last poll began.
Record == [state : PrState, head : Nat, ci : CI, review : Reviews, cursor : Nat]

\* What a poll has read.  A snapshot is empty when GitHub did not answer, and
\* the commands it read are those after from, up to to.
NotSeen == [snapshot |-> <<>>, from |-> 0, to |-> 0]

NoPoll == [step |-> "idle", now |-> 0, prs |-> {}, todo |-> {}, head |-> 0,
           seen |-> [p \in Prs |-> NotSeen]]

Counted(kind) == kind \in Ops /\ ops < MaxOps /\ ops' = ops + 1

\* A webhook, of one of the kinds that reach the app, is sent or lost.
Sent(e) == events' \in {events} \cup (IF e.kind \in Hooks THEN {events \cup {e}} ELSE {})

-----------------------------------------------------------------------------
(* GitHub *)

Push ==
    /\ Counted("push")
    /\ head' = head + 1
    /\ \E touched \in Touched :
          Sent([kind |-> "push", head |-> head + 1, touched |-> touched])
    /\ UNCHANGED <<pull, comments, record, polledHead, baseline, asked, muted, applied, poll>>

MovePull(p, kind, next, e) ==
    /\ Counted(kind)
    /\ pull' = [pull EXCEPT ![p] = next]
    /\ Sent(e)
    /\ UNCHANGED <<head, comments, record, polledHead, baseline, asked, muted, applied, poll>>

\* The lifecycle of a pull request, with the event a webhook would name.
Lifecycle(p) ==
    \E e \in {"merge", "close", "reopen", "convert_to_draft", "mark_ready_for_review"} :
        /\ pull[p].state = IF e = "reopen" THEN "closed" ELSE "open"
        /\ e \in {"convert_to_draft", "mark_ready_for_review"} =>
               pull[p].draft = (e = "mark_ready_for_review")
        /\ MovePull(p, "lifecycle",
               CASE e = "merge" -> [pull[p] EXCEPT !.state = "merged"]
                 [] e = "close" -> [pull[p] EXCEPT !.state = "closed"]
                 [] e = "reopen" -> [pull[p] EXCEPT !.state = "open"]
                 [] OTHER -> [pull[p] EXCEPT !.draft = ~@],
               [kind |-> "lifecycle", pr |-> p, event |-> e])

Synchronize(p) ==
    /\ pull[p].state = "open"
    /\ MovePull(p, "synchronize", [pull[p] EXCEPT !.head = @ + 1, !.ci = "none"],
                [kind |-> "synchronize", pr |-> p])

CheckSuite(p) ==
    \E ci \in Outcomes \ {pull[p].ci} :
        /\ pull[p].state = "open"
        /\ MovePull(p, "check_suite", [pull[p] EXCEPT !.ci = ci],
                    [kind |-> "check_suite", pr |-> p, ci |-> ci])

Review(p) ==
    \E d \in Decisions \ {pull[p].review} :
        /\ pull[p].state = "open"
        /\ MovePull(p, "review", [pull[p] EXCEPT !.review = d],
                    [kind |-> "review", pr |-> p, decision |-> d])

Comment(p) ==
    /\ Counted("comment")
    /\ p \in Commented
    /\ \E v \in Verbs : comments' = Append(comments, [pr |-> p, verb |-> v])
    /\ Sent([kind |-> "comment", number |-> Len(comments) + 1])
    /\ UNCHANGED <<head, pull, record, polledHead, baseline, asked, muted, applied, poll>>

-----------------------------------------------------------------------------
(* The handlers that webhooks and polls share *)

\* Scans of a head: of the workflow files, or of the enabled engine targets.
Scans(what, sha) == what \X {sha}

Moved(row, event) == [row EXCEPT !.state = TryAdvance(PullRequestMachine, event, @)]

\* reanalyze scans the head of the branch, whatever it is by then.
Muted(number) ==
    IF comments[number].verb = "reanalyze" THEN muted ELSE comments[number].verb = "ignore"

HandlePush(e) ==
    /\ asked' = asked \cup Scans(e.touched, e.head)
    /\ UNCHANGED <<record, muted, applied>>

HandleLifecycle(e) ==
    /\ record' = [record EXCEPT ![e.pr] = Moved(@, e.event)]
    /\ UNCHANGED <<asked, muted, applied>>

HandleSync(e) ==
    /\ record' = [record EXCEPT ![e.pr] = Moved(@, "external_update")]
    /\ UNCHANGED <<asked, muted, applied>>

\* Attributes are recorded in every state, of whichever head they were.
HandleCiStatus(e) ==
    /\ record' = [record EXCEPT ![e.pr].ci = e.ci]
    /\ UNCHANGED <<asked, muted, applied>>

HandleReview(e) ==
    /\ record' = [record EXCEPT ![e.pr].review = e.decision]
    /\ UNCHANGED <<asked, muted, applied>>

HandleComment(e) ==
    /\ muted' = Muted(e.number)
    /\ applied' = applied \cup {e.number}
    /\ asked' = IF comments[e.number].verb = "reanalyze"
                THEN asked \cup Scans({"workflow"}, head) ELSE asked
    /\ UNCHANGED record

Webhook ==
    \E e \in events :
        /\ events' = events \ {e}
        /\ CASE e.kind = "push" -> HandlePush(e)
             [] e.kind = "lifecycle" -> HandleLifecycle(e)
             [] e.kind = "synchronize" -> HandleSync(e)
             [] e.kind = "check_suite" -> HandleCiStatus(e)
             [] e.kind = "review" -> HandleReview(e)
             [] e.kind = "comment" -> HandleComment(e)
        /\ UNCHANGED <<head, pull, comments, polledHead, baseline, poll, ops>>

-----------------------------------------------------------------------------
(* A poll *)

Open == {p \in Prs : record[p].state \in {"open", "draft"}}

\* A head of 0 is one that could not be fetched.
StartPoll(ok) ==
    /\ poll.step = "idle"
    /\ poll' = [NoPoll EXCEPT !.step = "fetching", !.now = Len(comments), !.prs = Open,
                              !.todo = Open, !.head = IF ok THEN head ELSE 0]
    /\ UNCHANGED <<head, pull, comments, record, polledHead, baseline, asked, muted, applied,
                   events, ops>>

\* The state of a pull request and its comments: each may fail alone.
FetchPr(p, ok) ==
    /\ poll.step = "fetching" /\ p \in poll.todo
    /\ \E readable \in BOOLEAN :
          /\ readable \/ p \in Unreadable
          /\ poll' = [poll EXCEPT !.todo = @ \ {p}, !.seen[p] =
                 [snapshot |-> IF ok THEN <<pull[p]>> ELSE <<>>, from |-> record[p].cursor,
                  to |-> IF readable THEN Len(comments) ELSE record[p].cursor]]
    /\ UNCHANGED <<head, pull, comments, record, polledHead, baseline, asked, muted, applied,
                   events, ops>>

\* A moved head has everything scanned: a poll does not see what changed.  The
\* first head a poll finds is only remembered.
EnqueuePush ==
    /\ poll.step = "fetching" /\ poll.todo = {}
    /\ asked' = IF poll.head \in {0, polledHead} \/ polledHead = 0 THEN asked
                ELSE asked \cup Scans(Engines, poll.head)
    /\ poll' = [poll EXCEPT !.step = "saving"]
    /\ UNCHANGED <<head, pull, comments, record, polledHead, baseline, muted, applied,
                   events, ops>>

\* (mutant) The head as it is by now.
HeadByNow == head

\* The head whose scans were asked for.
HeadPolled == poll.head

SaveHead ==
    /\ poll.step = "saving"
    /\ polledHead' = IF poll.head = 0 THEN polledHead ELSE HeadPolled
    /\ baseline' = IF baseline = 0 THEN poll.head ELSE baseline
    /\ poll' = IF poll.prs = {} THEN NoPoll
               ELSE [poll EXCEPT !.step = "applying", !.todo = poll.prs, !.head = 0]
    /\ UNCHANGED <<head, pull, comments, record, asked, muted, applied, events, ops>>

\* (mutant) Only merges are looked for.
MergesOnly(row, snap) == IF snap.state = "merged" /\ row.state # "merged" THEN "merge" ELSE "none"

LifecycleEvent(row, snap) ==
    CASE snap.state = "merged" /\ row.state # "merged" -> "merge"
      [] snap.state = "closed" /\ row.state \notin {"closed", "merged"} -> "close"
      [] snap.state = "open" /\ row.state = "closed" -> "reopen"
      [] OTHER -> "none"

DraftEvent(row, snap) ==
    CASE snap.draft /\ row.state = "open" -> "convert_to_draft"
      [] ~snap.draft /\ row.state = "draft" -> "mark_ready_for_review"
      [] OTHER -> "none"

Told(row, event) == IF event = "none" THEN row ELSE Moved(row, event)

\* When the head has no check runs that is recorded too.
CiStatus(row, snap) == snap.ci

\* The row after its snapshot; a merge or close ends the comparison.
Compared(row, snap) ==
    LET event == LifecycleEvent(row, snap)
        lived == Told(row, event)
        toggled == Told(lived, DraftEvent(lived, snap))
    IN IF event \in {"merge", "close"} THEN lived
       ELSE [toggled EXCEPT !.head = snap.head, !.ci = CiStatus(row, snap),
                            !.review = IF snap.review = "none" THEN @ ELSE snap.review]

\* The commands on p that the poll read.
Commands(p) == {i \in poll.seen[p].from + 1 .. poll.seen[p].to : comments[i].pr = p}

\* Whether the finding is muted once these commands were carried out in turn.
MutedBy(numbers) ==
    LET orders == {i \in numbers : comments[i].verb # "reanalyze"}
    IN IF orders = {} THEN muted ELSE Muted(CHOOSE i \in orders : \A j \in orders : j <= i)

\* (mutant) The time the answers are recorded.
EndOfPoll == Len(comments)

\* What the cursor of the comments is set to: the time the poll began.
Now == poll.now

ApplyPr(p) ==
    LET seen == poll.seen[p]
        numbers == Commands(p)
        compared == IF seen.snapshot = <<>> THEN record[p] ELSE Compared(record[p], seen.snapshot[1])
    IN /\ poll.step = "applying" /\ p \in poll.todo
       /\ record' = [record EXCEPT ![p] = [compared EXCEPT !.cursor = Now]]
       /\ applied' = applied \cup numbers
       /\ muted' = MutedBy(numbers)
       /\ asked' = IF \E i \in numbers : comments[i].verb = "reanalyze"
                   THEN asked \cup Scans({"workflow"}, head) ELSE asked
       /\ poll' = IF poll.todo = {p} THEN NoPoll ELSE [poll EXCEPT !.todo = @ \ {p}]
       /\ UNCHANGED <<head, pull, comments, polledHead, baseline, events, ops>>

\* The worker dies: beat starts another poll in time.
Crash ==
    /\ Counted("crash")
    /\ poll.step # "idle"
    /\ poll' = NoPoll
    /\ UNCHANGED <<head, pull, comments, record, polledHead, baseline, asked, muted, applied,
                   events>>

-----------------------------------------------------------------------------
\* The pull requests are open, and so are their records; the repository was
\* scanned when it was connected.
Init ==
    /\ head = 1
    /\ pull = [p \in Prs |-> [state |-> "open", draft |-> FALSE, head |-> 1, ci |-> "none",
                              review |-> "none"]]
    /\ comments = <<>>
    /\ record = [p \in Prs |-> [state |-> "open", head |-> 0, ci |-> "none", review |-> "none",
                                cursor |-> 0]]
    /\ polledHead = 0 /\ baseline = 0
    /\ asked = {} /\ muted = FALSE /\ applied = {}
    /\ events = {} /\ poll = NoPoll /\ ops = 0

PollStep == EnqueuePush \/ SaveHead \/ \E p \in Prs : ApplyPr(p)

Next ==
    \/ Push \/ Webhook \/ Crash
    \/ \E p \in Prs :
          \/ Lifecycle(p) \/ Synchronize(p) \/ CheckSuite(p) \/ Review(p) \/ Comment(p)
          \/ \E ok \in BOOLEAN : FetchPr(p, ok)
    \/ (\E ok \in BOOLEAN : StartPoll(ok)) \/ PollStep

\* Beat starts polls, workers finish them, and what GitHub is asked again and
\* again it answers; a webhook that was not lost arrives in the end.
Spec ==
    /\ Init /\ [][Next]_vars
    /\ WF_vars(\E ok \in BOOLEAN : StartPoll(ok)) /\ SF_vars(StartPoll(TRUE))
    /\ \A p \in Prs : WF_vars(\E ok \in BOOLEAN : FetchPr(p, ok)) /\ SF_vars(FetchPr(p, TRUE))
    /\ WF_vars(PollStep) /\ WF_vars(Webhook)

-----------------------------------------------------------------------------
(* Every variable has its type. *)
TypeOK ==
    /\ head \in 1 .. MaxOps + 1 /\ pull \in [Prs -> Pull] /\ record \in [Prs -> Record]
    /\ polledHead \in 0 .. head /\ baseline \in 0 .. head
    /\ asked \subseteq Engines \X (1 .. head) /\ muted \in BOOLEAN
    /\ comments \in Seq([pr : Prs, verb : Verbs]) /\ applied \subseteq DOMAIN comments
    /\ ops \in 0 .. MaxOps

Matches(p) ==
    /\ record[p].state = IF pull[p].draft THEN "draft" ELSE pull[p].state
    /\ record[p].head = pull[p].head /\ record[p].ci = pull[p].ci
    /\ pull[p].review # "none" => record[p].review = pull[p].review

(* Once GitHub is quiet a pull request that counts as open is as its record  *)
(* says: its state, its head, the CI outcome of that head and its reviews,   *)
(* whatever came late, out of order or not at all.                           *)
Converges == <>[](\A p \in Open : Matches(p))

(* Every head of the default branch is scanned in the end, unless another    *)
(* one follows or it is the one the first poll found; a poll that dies       *)
(* between the scan request and its cursor loses none.                       *)
HeadIsScanned ==
    <>[](polledHead = head /\ (head # baseline => Engines \X {head} \subseteq asked))

(* A command that was written before the last poll of its pull request began *)
(* has been carried out.                                                     *)
NoneMissed ==
    \A i \in DOMAIN comments :
        i <= record[comments[i].pr].cursor /\ comments[i].pr \notin Unreadable => i \in applied

(* The last command that was carried out is in effect. *)
LastInEffect ==
    LET orders == {i \in applied : comments[i].verb # "reanalyze"}
    IN muted = (orders # {} /\ comments[CHOOSE i \in orders : \A j \in orders : j <= i].verb
                                 = "ignore")

(* Commands in comments are obeyed: none that a poll has passed over is left *)
(* out, and the last of those carried out is in effect.                      *)
CommandsObeyed == NoneMissed /\ LastInEffect
=============================================================================
