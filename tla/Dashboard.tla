----------------------------- MODULE Dashboard -----------------------------
(***************************************************************************)
(* What the dashboard, the repository pages, the badges and Code Scanning  *)
(* say, computed by separate queries over the same rows: the scans,        *)
(* findings and fixes of the workflow files of a repository and of its     *)
(* targets of a file engine.  The rows move as the scan, fix and sync      *)
(* tasks commit; a dashboard request reads them in several statements, and *)
(* commits fall between these.                                             *)
(***************************************************************************)
EXTENDS Integers, Sequences, FiniteSets, Scoring, StateMachines

CONSTANTS
    Targets,     \* workflow files and engine targets
    EngineOf,    \* "workflow" or "docker", per target
    Feature,     \* workflow files of another branch than the default one
    Prints,      \* fingerprints: what the scans may report of a target
    SeverityOf, CategoryOf, GroupOf,   \* per fingerprint
    Slow,        \* targets whose scans may outlast the scan lock
    Ops,         \* the kinds of event this instance allows
    MaxOps       \* how many of them may happen

OpKinds == {"scan", "fail", "crash", "mute", "fix", "remove", "view"}

ASSUME SetsAssumption ==
    /\ EngineOf \in [Targets -> {"workflow", "docker"}]
    /\ Feature \cup Slow \subseteq Targets
    /\ \A t \in Feature : EngineOf[t] = "workflow"
ASSUME PrintsAssumption ==
    /\ SeverityOf \in [Prints -> Severities] /\ CategoryOf \in [Prints -> Categories]
    /\ DOMAIN GroupOf = Prints
ASSUME FiniteAssumption == IsFiniteSet(Targets) /\ IsFiniteSet(Prints)
ASSUME EventsAssumption == Ops \subseteq OpKinds /\ MaxOps \in Nat

VARIABLES
    scan,      \* scan[t]: the rows of the scans of t that are over
    run,       \* run[t]: when each scan of t that is under way was begun
    unsettled, \* unsettled[t]: what the scans of t saw that have yet to resolve the rest
    finding,   \* finding[t][p]: the finding of t with fingerprint p
    fix,       \* fix[t]: the status of the fix of t, or "none"
    gone,      \* the workflow files that were soft-deleted
    clock,     \* orders created_at and completed_at
    report,    \* the dashboard request that is being answered
    ops        \* counted events so far

vars == <<scan, run, unsettled, finding, fix, gone, clock, report, ops>>

Engines == {"workflow", "docker"}

\* scan: which scan last saw it, 0 if none did.  linked: fix_id is set.
\* muted: ignored_at is set.  status: the column, which no query of the
\* workflow engine reads but the SARIF report.
Finding == [scan : Nat, resolved : BOOLEAN, muted : BOOLEAN, linked : BOOLEAN,
            status : {"open", "fix_in_progress", "resolved", "ignored"}]

NoFinding == [scan |-> 0, resolved |-> FALSE, muted |-> FALSE, linked |-> FALSE, status |-> "open"]

ScanRow == [status : {"completed", "failed"}, score : Nat, created : Nat, completed : Nat]

Buckets == {"unfixed", "in_progress", "ready", "delivered", "landed", "failed"}

NoReport == [step |-> "idle", engine |-> "docker", open |-> 0,
             buckets |-> [b \in Buckets |-> 0]]

Counted(kind) == kind \in Ops /\ ops < MaxOps /\ ops' = ops + 1

Weight == [p \in Prints |-> 1]

RejectedStatuses == {"rejected_by_user", "superseded_by_closed_pr",
                     "superseded_by_deleted_file", "no_op"}

\* (mutant) A scan that failed counts as well.
Ended(t) == DOMAIN scan[t]

-----------------------------------------------------------------------------
(* Which scan is the latest *)

Completed(t) == {i \in DOMAIN scan[t] : scan[t][i].status = "completed"}

\* The row that comes first: by creation, or by completion and then creation.
LatestOf(t, rows, byCompletion) ==
    CHOOSE i \in rows : \A j \in rows \ {i} :
        LET a == scan[t][i]
            b == scan[t][j]
        IN IF byCompletion /\ a.completed # b.completed THEN a.completed > b.completed
           ELSE a.created > b.created

LatestScan(t, rows, byCompletion) == IF rows = {} THEN 0 ELSE LatestOf(t, rows, byCompletion)

\* (mutant) The generic ordering, for every engine.
ByCreation(engine) == engine # engine

\* OverviewSpec.scan_orders_by_completed_at
ByCompletion(engine) == engine = "workflow"

LatestOnly(t, p) ==
    /\ Completed(t) # {}
    /\ finding[t][p].scan = LatestScan(t, Completed(t), ByCompletion(EngineOf[t]))

\* The same question as the finding routes of the workflow engine ask it.
IsFromLatestScan(t, p) ==
    /\ Completed(t) # {}
    /\ finding[t][p].scan = LatestScan(t, Completed(t), TRUE)

\* A target's grade is that of the last good scan.
LatestCompletedScan(t) == LatestScan(t, Completed(t), FALSE)

TargetScore(t) == IF Completed(t) = {} THEN <<>> ELSE <<scan[t][LatestCompletedScan(t)].score>>

-----------------------------------------------------------------------------
(* The repository page, its badge and its findings *)

Branch(engine, feature) == {t \in Targets : EngineOf[t] = engine /\ (t \in Feature <=> feature)}

\* Over the files whose latest completed scan has a score, as a sequence of at
\* most one element: there may be none.
AverageOf(files) ==
    LET scored == {t \in files : Completed(t) # {}}
    IN IF scored = {} THEN <<>>
       ELSE <<MapThenSumSet(LAMBDA t : scan[t][LatestCompletedScan(t)].score, scored)
                  \div Cardinality(scored)>>

GradeOf(average) == IF average = <<>> THEN "-" ELSE ScoreToGrade(average[1])

RepoGrade == GradeOf(AverageOf(Branch("workflow", FALSE) \ gone))

\* The list of repositories grades the rounded average.
ListGrade ==
    LET average == AverageOf(Branch("workflow", FALSE) \ gone)
    IN IF average = <<>> THEN "-" ELSE ScoreToGrade(Rounded(average[1]))

\* The badge of the default branch looks at the scans alone.
BadgeGrade == GradeOf(AverageOf(Branch("workflow", FALSE)))

Exists(t, p) == finding[t][p].scan # 0

Findings(engine) ==
    {tp \in Targets \X Prints : EngineOf[tp[1]] = engine /\ Exists(tp[1], tp[2])}

\* _visible_findings, for a repository or for all of an organisation.
VisibleFindings(repo) ==
    {tp \in Findings("workflow") : IsFromLatestScan(tp[1], tp[2])
                                   /\ (repo => tp[1] \notin Feature)}

IsOpen(tp) == ~finding[tp[1]][tp[2]].resolved

Muted(tp) == finding[tp[1]][tp[2]].muted

Linked(tp) == finding[tp[1]][tp[2]].linked

ListFindings(repo) == {tp \in VisibleFindings(repo) : IsOpen(tp) /\ ~Muted(tp)}

Unfixed(findings) ==
    {tp \in findings : ~(Linked(tp) /\ fix[tp[1]] \notin RejectedStatuses)}

\* What a generation for the whole repository takes.
LatestUnresolvedFindings ==
    {tp \in Findings("workflow") : tp[1] \notin Feature /\ IsFromLatestScan(tp[1], tp[2])
                                   /\ IsOpen(tp) /\ ~Muted(tp)}

Count(findings, c) ==
    LET mine == {tp \in findings : CategoryOf[tp[2]] = c}
        open == {tp \in mine : IsOpen(tp)}
    IN [open |-> Cardinality(open), resolved |-> Cardinality(mine \ open),
        critical |-> Cardinality({tp \in open : SeverityOf[tp[2]] = "critical"})]

GetFindingStats ==
    LET seen == {tp \in VisibleFindings(FALSE) : ~Muted(tp)} IN [c \in Categories |-> Count(seen, c)]

\* The open penalty of each category, and the categories' scores around the
\* repository's average.
CategoryScores ==
    LET open == {tp \in VisibleFindings(FALSE) : ~Muted(tp) /\ IsOpen(tp)}
        Of(c) == MapThenSumSet(LAMBDA tp : SeverityPenalty[SeverityOf[tp[2]]],
                               {tp \in open : CategoryOf[tp[2]] = c})
        penalty == [energy |-> Of("energy"), reliability |-> Of("reliability"),
                    security |-> Of("security"), performance |-> Of("performance"),
                    maintainability |-> Of("maintainability")]
        average == AverageOf(Branch("workflow", FALSE) \ gone)
    IN IF average = <<>> THEN <<>>
       ELSE <<[c \in Categories |-> Clamped(ComputeCategoryScore(average[1], penalty, c) \div 5)]>>

\* What GET /sarif reports to Code Scanning.
CollectFindings(engine) == {tp \in Findings(engine) : finding[tp[1]][tp[2]].status = "open"}

-----------------------------------------------------------------------------
(* The overview: GET /overview *)

\* (mutant) Deleted files as well.
CoveredOrGone(engine) == {t \in Targets : EngineOf[t] = engine} \ Feature

Covered(engine) == {t \in Targets : EngineOf[t] = engine} \ (Feature \cup gone)

LatestScore(engine, t) == scan[t][LatestScan(t, Completed(t), ByCompletion(engine))].score

Scanned(engine) == {t \in Covered(engine) : Completed(t) # {}}

Coverage(engine) ==
    LET scanned == Scanned(engine)
        failed == {t \in Covered(engine) : scan[t] # <<>> /\
            scan[t][LatestScan(t, DOMAIN scan[t], ByCompletion(engine))].status = "failed"}
    IN [total |-> Cardinality(Covered(engine)), scanned |-> Cardinality(scanned),
        failed |-> Cardinality(failed),
        average |-> IF scanned = {} THEN <<>>
                    ELSE <<Rounded(MapThenSumSet(LAMBDA t : LatestScore(engine, t), scanned)
                                   \div Cardinality(scanned))>>]

\* How many targets have each grade.
GradeStats(engine) ==
    [i \in DOMAIN GradeLadder |->
        Cardinality({t \in Scanned(engine) : ScoreToGrade(LatestScore(engine, t)) = GradeLadder[i]})]

OverviewRows(engine) == {tp \in Findings(engine) : LatestOnly(tp[1], tp[2]) /\ ~Muted(tp)}

OverviewFindings(engine) ==
    LET rows == OverviewRows(engine) IN [c \in Categories |-> Count(rows, c)]

OpenCount(engine) == Cardinality({tp \in OverviewRows(engine) : IsOpen(tp)})

\* (mutant) The remainder as it comes.
FixPipelineUnclamped(engine, open) ==
    LET fixed == {tp \in OverviewRows(engine) : IsOpen(tp) /\ Linked(tp)}
        With(sts) == Cardinality({tp \in fixed : fix[tp[1]] \in sts})
        rest == open - With(InFlight \cup {"ready", "delivered", "landed", "failed"})
    IN [unfixed |-> rest, in_progress |-> With(InFlight), ready |-> With({"ready"}),
        delivered |-> With({"delivered"}), landed |-> With({"landed"}), failed |-> With({"failed"})]

\* unfixed is what remains of the open findings, which were counted before.
FixPipeline(engine, open) ==
    LET fixed == {tp \in OverviewRows(engine) : IsOpen(tp) /\ Linked(tp)}
        With(sts) == Cardinality({tp \in fixed : fix[tp[1]] \in sts})
        rest == open - With(InFlight \cup {"ready", "delivered", "landed", "failed"})
    IN [unfixed |-> AtLeast(rest, 0), in_progress |-> With(InFlight), ready |-> With({"ready"}),
        delivered |-> With({"delivered"}), landed |-> With({"landed"}), failed |-> With({"failed"})]

Sum(buckets) == buckets.unfixed + buckets.in_progress + buckets.ready + buckets.delivered
                + buckets.landed + buckets.failed

\* Every rule once, with the open findings it accounts for.
TopRules(engine) ==
    LET rows == OverviewRows(engine)
    IN [p \in Prints |-> Cardinality({tp \in rows : tp[2] = p /\ IsOpen(tp)})]

\* The score of the summary is the mean of the engines' scores, not of the targets'.
Totals ==
    LET average == [e \in Engines |-> Coverage(e).average]
        parts == {e \in Engines : average[e] # <<>>}
    IN [open |-> OpenCount("workflow") + OpenCount("docker"),
        average |-> IF parts = {} THEN <<>>
                    ELSE <<Rounded(MapThenSumSet(LAMBDA e : average[e][1], parts)
                                   \div Cardinality(parts))>>]

-----------------------------------------------------------------------------
(* What a target is busy with, and what that forbids *)

\* Rows of scans are committed when they are over, so none is ever active.
ActivityOf(t) ==
    CASE {scan[t][i].status : i \in DOMAIN scan[t]} \cap {"queued", "running"} # {} -> "scanning"
      [] fix[t] = "delivering" -> "delivering"
      [] fix[t] \in {"pending", "generating"} -> "generating"
      [] OTHER -> "idle"

Blocks == [generate |-> {"scanning", "delivering"}, ignore |-> {"scanning"},
           remove |-> {"scanning", "generating", "delivering"}]

Idle(t, action) == ActivityOf(t) \notin Blocks[action]

-----------------------------------------------------------------------------
(* Scans *)

\* The trigger that derives the status of a workflow finding; the other
\* engines write the column themselves.
Derived(t, f) ==
    IF EngineOf[t] # "workflow" THEN f
    ELSE [f EXCEPT !.status = IF f.muted THEN "ignored" ELSE IF f.resolved THEN "resolved"
                              ELSE IF f.linked THEN "fix_in_progress" ELSE "open"]

BeginScan(t) ==
    /\ Counted("scan")
    /\ t \notin gone
    /\ (run[t] = {} /\ unsettled[t] = {}) \/ t \in Slow
    /\ run' = [run EXCEPT ![t] = @ \cup {clock}]
    /\ clock' = clock + 1
    /\ UNCHANGED <<scan, unsettled, finding, fix, gone, report>>

Over(t, r, row) ==
    /\ run' = [run EXCEPT ![t] = @ \ {r}]
    /\ scan' = [scan EXCEPT ![t] = Append(@, row)]
    /\ clock' = clock + 1

\* The file's jobs, or the target's files, group its violations.
ScoreOf(t, seen) ==
    ComputeScore({}, [g \in {GroupOf[p] : p \in Prints} |-> {p \in seen : GroupOf[p] = g}],
                 SeverityOf, Weight)

\* The findings are upserted and the scan is recorded in one transaction.
CompleteScan(t) ==
    \E r \in run[t], seen \in SUBSET Prints :
        /\ Over(t, r, [status |-> "completed", score |-> ScoreOf(t, seen),
                       created |-> r, completed |-> clock])
        /\ finding' = [finding EXCEPT ![t] = [p \in Prints |->
               IF p \in seen
               THEN Derived(t, [@[p] EXCEPT !.scan = Len(scan[t]) + 1, !.resolved = FALSE])
               ELSE @[p]]]
        /\ unsettled' = [unsettled EXCEPT ![t] = @ \cup {seen}]
        /\ UNCHANGED <<fix, gone, report, ops>>

FailScan(t) ==
    /\ Counted("fail")
    /\ \E r \in run[t] :
          Over(t, r, [status |-> "failed", score |-> 0, created |-> r, completed |-> clock])
    /\ UNCHANGED <<unsettled, finding, fix, gone, report>>

Settled(f) ==
    [f EXCEPT !.resolved = TRUE,
              !.status = IF @ \in {"open", "fix_in_progress"} THEN "resolved" ELSE @]

\* A later transaction resolves what the scan did not see.
ResolveStale(t) ==
    \E seen \in unsettled[t] :
        /\ unsettled' = [unsettled EXCEPT ![t] = @ \ {seen}]
        /\ finding' = [finding EXCEPT ![t] = [p \in Prints |->
               IF Exists(t, p) /\ ~@[p].resolved /\ p \notin seen
               THEN Derived(t, Settled(@[p])) ELSE @[p]]]
        /\ UNCHANGED <<scan, run, fix, gone, clock, report, ops>>

\* A worker dies: its transaction is rolled back, or its last step is lost.
Crash(t) ==
    /\ Counted("crash")
    /\ run[t] # {} \/ unsettled[t] # {}
    /\ run' = [run EXCEPT ![t] = {}]
    /\ unsettled' = [unsettled EXCEPT ![t] = {}]
    /\ UNCHANGED <<scan, finding, fix, gone, clock, report>>

-----------------------------------------------------------------------------
(* Findings, fixes and files *)

Toggled(f) == [f EXCEPT !.muted = ~@]

\* A workflow finding is muted by its column, another by its state machine.
Mute(t, p) ==
    /\ Counted("mute")
    /\ Exists(t, p) /\ Idle(t, "ignore")
    /\ IF EngineOf[t] = "workflow"
       THEN /\ ~finding[t][p].resolved \/ finding[t][p].muted
            /\ finding' = [finding EXCEPT ![t][p] = Derived(t, Toggled(@))]
       ELSE \/ /\ finding[t][p].status = "open"
               /\ finding' = [finding EXCEPT ![t][p].status = "ignored"]
            \/ /\ finding[t][p].status = "ignored"
               /\ finding' = [finding EXCEPT ![t][p].status = "open"]
    /\ UNCHANGED <<scan, run, unsettled, fix, gone, clock, report>>

Selected(t) ==
    IF EngineOf[t] = "workflow"
    THEN {tp[2] : tp \in {u \in LatestUnresolvedFindings : u[1] = t}}
    ELSE {p \in Prints : Exists(t, p) /\ ~finding[t][p].resolved /\ ~finding[t][p].muted}

\* The workflow engine drops the links of the old fix, the others keep them.
Relinked(t, f, selected) == [f EXCEPT !.linked = selected \/ (@ /\ EngineOf[t] # "workflow")]

\* The old fix goes, and a pending one is linked to what is open.
GenerateFix(t) ==
    /\ Counted("fix")
    /\ fix[t] \notin InFlight /\ Idle(t, "generate") /\ Selected(t) # {}
    /\ fix' = [fix EXCEPT ![t] = "pending"]
    /\ finding' = [finding EXCEPT ![t] = [p \in Prints |->
           Derived(t, Relinked(t, @[p], p \in Selected(t)))]]
    /\ UNCHANGED <<scan, run, unsettled, gone, clock, report>>

\* The tasks and webhooks move the fix along its machine.
MoveFix(t) ==
    /\ \E e \in DOMAIN FixMachine :
          /\ Can(FixMachine, e, fix[t])
          /\ fix' = [fix EXCEPT ![t] = Advance(FixMachine, e, fix[t])]
    /\ UNCHANGED <<scan, run, unsettled, finding, gone, clock, report, ops>>

\* A sync finds a workflow file gone from its branch.
RemoveFile(t) ==
    /\ Counted("remove")
    /\ EngineOf[t] = "workflow" /\ t \notin gone
    /\ run[t] = {} /\ unsettled[t] = {}
    /\ gone' = gone \cup {t}
    /\ finding' = [finding EXCEPT ![t] = [p \in Prints |->
           IF Exists(t, p) THEN Derived(t, [@[p] EXCEPT !.resolved = TRUE]) ELSE @[p]]]
    /\ fix' = [fix EXCEPT ![t] = IF @ = "none" THEN @
                                 ELSE TryAdvance(FixMachine, "supersede_deleted_file", @)]
    /\ UNCHANGED <<scan, run, unsettled, clock, report>>

-----------------------------------------------------------------------------
(* A request for the overview, one statement after the other *)

ReadFindings ==
    /\ Counted("view")
    /\ report.step = "idle"
    /\ \E e \in Engines :
          report' = [NoReport EXCEPT !.step = "counted", !.engine = e, !.open = OpenCount(e)]
    /\ UNCHANGED <<scan, run, unsettled, finding, fix, gone, clock>>

ReadPipeline ==
    /\ report.step = "counted"
    /\ report' = [report EXCEPT !.step = "done",
                                !.buckets = FixPipeline(report.engine, report.open)]
    /\ UNCHANGED <<scan, run, unsettled, finding, fix, gone, clock, ops>>

Answer ==
    /\ report.step = "done"
    /\ report' = NoReport
    /\ UNCHANGED <<scan, run, unsettled, finding, fix, gone, clock, ops>>

-----------------------------------------------------------------------------
Init ==
    /\ scan = [t \in Targets |-> <<>>]
    /\ run = [t \in Targets |-> {}]
    /\ unsettled = [t \in Targets |-> {}]
    /\ finding = [t \in Targets |-> [p \in Prints |-> NoFinding]]
    /\ fix = [t \in Targets |-> "none"]
    /\ gone = {}
    /\ clock = 1
    /\ report = NoReport
    /\ ops = 0

Next ==
    \/ \E t \in Targets :
          \/ BeginScan(t) \/ CompleteScan(t) \/ FailScan(t) \/ ResolveStale(t) \/ Crash(t)
          \/ GenerateFix(t) \/ MoveFix(t) \/ RemoveFile(t)
          \/ \E p \in Prints : Mute(t, p)
    \/ ReadFindings \/ ReadPipeline \/ Answer

Spec == Init /\ [][Next]_vars

-----------------------------------------------------------------------------
TypeOK ==
    /\ \A t \in Targets :
          /\ \A i \in DOMAIN scan[t] : scan[t][i] \in ScanRow
          /\ run[t] \subseteq 1 .. clock /\ unsettled[t] \subseteq SUBSET Prints
          /\ \A p \in Prints : finding[t][p] \in Finding
          /\ fix[t] \in FixStatus \cup {"none"}
    /\ gone \subseteq Targets /\ clock \in Nat /\ ops \in 0 .. MaxOps

(* The counts of the overview are those of the finding statistics, by        *)
(* category, however the scans overlap.                                      *)
StatsAgree == OverviewFindings("workflow") = GetFindingStats

(* The buckets of the fix pipeline split the open findings, and the ones     *)
(* without a fix are those the finding list shows as unfixed.                *)
BucketsAgree ==
    \A e \in Engines :
        LET buckets == FixPipeline(e, OpenCount(e))
        IN /\ Sum(buckets) = OpenCount(e)
           /\ e = "workflow" => buckets.unfixed = Cardinality(Unfixed(ListFindings(FALSE)))

(* A generation for the whole repository takes what its page lists as open.  *)
PageIsGenerated == ListFindings(TRUE) = LatestUnresolvedFindings

(* The badge of a repository shows the grade of its page, as long as none of *)
(* its workflow files was deleted.                                           *)
BadgeAgrees == gone = {} => BadgeGrade = RepoGrade

(* The breakdowns of the overview add up: rules to the open findings, the    *)
(* buckets of all engines to those of the summary, grades to what is scored. *)
BreakdownsAddUp ==
    /\ \A e \in Engines :
          /\ MapThenSumSet(LAMBDA p : TopRules(e)[p], Prints) = OpenCount(e)
          /\ MapThenSumSet(LAMBDA i : GradeStats(e)[i], DOMAIN GradeLadder) = Coverage(e).scanned
    /\ Totals.open = MapThenSumSet(LAMBDA e : Sum(FixPipeline(e, OpenCount(e))), Engines)

(* What two pages compute by queries of their own, they agree on.            *)
PagesAgree == StatsAgree /\ BucketsAgree /\ BreakdownsAddUp /\ PageIsGenerated /\ BadgeAgrees

(* The grade shown for a target is explained by the findings shown with it:  *)
(* its score is that of the violations that are attributed to its latest     *)
(* scan, whatever failed, crashed, was muted or fixed since.                 *)
GradeExplained ==
    \A t \in Targets \ (Slow \cup gone) : Completed(t) # {} =>
        TargetScore(t) = <<ScoreOf(t, {p \in Prints : Exists(t, p) /\ LatestOnly(t, p)})>>

(* As long as no two scans of a file overlap, the overview and the list of   *)
(* repositories give the workflow files the same score and the same grade;   *)
(* and a category with nothing open in it never scores below the repository. *)
ScoresAgree ==
    LET average == AverageOf(Branch("workflow", FALSE) \ gone)
        scores == CategoryScores
        stats == GetFindingStats
    IN /\ Coverage("workflow").average = IF average = <<>> THEN <<>> ELSE <<Rounded(average[1])>>
       /\ GradeOf(Coverage("workflow").average) = ListGrade
       /\ scores # <<>> =>
             \A c \in Categories : stats[c].open = 0 => scores[1][c] >= average[1]

(* Commits between the two statements of a request never make it answer with *)
(* less than it counted, or with a negative bucket.                          *)
ReportIsSane ==
    report.step = "done" => /\ Sum(report.buckets) >= report.open
                            /\ \A b \in Buckets : report.buckets[b] >= 0

(* What the repository has open is reported to Code Scanning.                *)
OpenIsInSarif == ListFindings(TRUE) \subseteq CollectFindings("workflow")
=============================================================================
