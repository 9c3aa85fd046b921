# GreenSecOps: TLA+ models and proofs

GreenSecOps scans the CI workflows, Terraform roots, Docker files and Ansible
projects of GitHub repositories, has an LLM write fixes, and delivers them as
pull requests. It is a FastAPI application with Celery workers; PostgreSQL
holds the rows, Redis the locks, counters and the task queue, and GitHub and
Stripe call back through webhooks. This directory models the parts of
`src/backend/app` whose correctness depends on how those actors interleave.

Paths below are relative to `src/backend/app` unless they start with `docs/`.

## Inventory

| Component | State it keeps | Operations | What is hard | What makes it correct |
|---|---|---|---|---|
| Lifecycle tables (`services/state_machines`) | none; partial functions on states | `advance`, `try_advance`, `force_to` | callers pass a row loaded long ago | every write of a status is an edge of the table |
| Fix generation (`services/workflow_fixes.py`, `workers/tasks/fix_generation.py`) | one `workflow_fix` row per file, the Redis counter of a run | create and replace rows, dispatch, claim, call the LLM, record, count off the batch, auto-deliver | rows are deleted and recreated while tasks hold them; lost and duplicated tasks; the counter is the only record of what is left | a pending row has a task; one worker per row; one notification per run, not before its end |
| Fix delivery (`workers/tasks/fix_delivery.py`, `services/delivery_pr.py`) | fix rows, `pull_request` rows, the branch on GitHub | load, closed-PR guard, prechecks, claim, push, record | the PR is closed or merged during the push; the branch is shared | what counts as delivered has content and a PR; PR state and fix state agree |
| Fix routes (`api/routes/workflow_fixes.py`) | none of their own | generate, regenerate, retry, reject, deliver, sync | not all are gated on activity; they delete rows under workers | no row in a worker's hands is replaced |
| PR webhooks (`services/github/event_handlers.py`, `api/routes/webhooks.py`) | `pull_request.pr_state` | merge, close, reopen, opened, draft toggle, review, CI, delete branch | late, duplicated and reordered events | side effects on fixes follow the PR state |
| Workflow sync, scans, auto-queue (`services/workflow_sync.py`, `workers/tasks/static_analysis.py`) | `workflow_file`, scan and finding rows, the Redis scan lock | sync, analyse, resolve, requeue fixes | the lock expires; a scan replaces rows in flight | each file has its latest findings; fixes follow the files |
| Maintenance (`workers/tasks/maintenance.py`) | none of its own | sweep stuck rows, retry transient failures, refresh mergeable state | races late workers | nothing is in flight for ever |
| Activity gate (`services/state_machines/engine_target.py`, `api/engine_routes.py`) | derived | `require_idle` | check, then act | deliver and generate exclude one another |
| Fix branches (`services/github/fix_delivery.py`) | GitHub refs | rebase, refuse to overwrite, update or open a PR | user pushes between check and forced push | user commits survive |
| File engines (`services/scan_runner.py`, `file_fix_generation.py`, `file_fix_delivery.py`, `api/engine_routes.py`) | scan, finding and fix rows per scan target, the target lock, usage | scan, mute, generate, deliver, push and PR webhooks | requests that pass the gate together; a redelivered message after the LLM was paid | the newest scan decides what is open; no unpaid call; what is in flight has a task |
| Subscriptions (`services/billing/lifecycle.py`, `api/routes/billing.py`, `workers/tasks/billing.py`) | one `billing_subscription` row per user, the Stripe event ids already handled | webhook handlers, checkout and plan change, dunning pass, rollover | reordered and repeated events, a daily job on a list loaded earlier, a final state an account can come back from | entitlement follows payment; each failure gets one grace window; each reminder once |
| Quota (`services/billing/quota.py`, `usage.py`) | usage records per period | enforce, record | read, then write; several engines on one allowance | tasks overrun a period by a bounded number of records; no LLM call goes unpaid |
| Cloud accounts (`workers/tasks/cloud_scan.py`, `api/routes/cloud.py`, `services/cloud/aws_collector.py`) | account status, scan and finding rows, the Redis lock | connect, verify, enable, disable, scan, mute | an hour between reading the row and writing it; calls of the collector that are denied or fail | open findings are those of the last scan; a missing permission makes no finding |
| Repository access (`api/routes/installations.py`, `workers/tasks/installation_sync.py`, `crud.py`) | repository status and switch, installation of the organisation, memberships, Redis keys | access webhooks, installation sync, PATCH, deletions | webhooks late or lost while a sync holds an old list; check and write of the repository slots | the write gate follows the status; a repository is reached with its own organisation's token |
| Telemetry (`api/routes/telemetry.py`, `workers/tasks/dynamic_analysis.py`, `docker_telemetry_analysis.py`) | run rows, enrichments | ingest, re-trigger, enrich | duplicate tasks, the row moves after its tasks were sent | what counts as enriched has its findings, once |
| Polling (`workers/tasks/polling.py`) | cursors on repositories and PR records | push, PR and command polling | a snapshot against a newer row; a webhook did the same already | the record comes to agree with GitHub; every head is scanned; commands are obeyed |
| Pages, scores, badges, SARIF (`services/engine_scores.py`, `scoring.py`, `sarif_report.py`, `api/routes/overview.py`, `workflow_findings.py`, `badges.py`) | none | queries | each page has a query of its own over rows that move | two pages say the same of the same repository |
| Which file belongs where (`services/engines.py`, `ansible/discovery.py`, `docker/compose_merge.py`) | none | fetch a target, match a push, merge Compose files | the fetch and the match of a push are separate code | no change under a target goes unscanned |
| Gates of a rewrite (`services/file_fix_generation.py`, `workers/tasks/fix_generation.py`, `services/llm`) | none | vet what the LLM wrote | the LLM may answer anything | an accepted fix keeps comments and pins and adds no violation |
| Proposal of the telemetry action (`api/routes/repositories.py`, `services/github/sha_resolver.py`) | none of its own | inject the step and its permission, pin actions, put the badge into the README, open a PR | the file is text, the LLM edits the README, tags move | nothing else in the file or the README changes; proposed twice, nothing is left to do |
| Ansible documents (`services/ansible/parser.py`) | none | flatten plays, blocks and tasks, tell module from arguments | nesting, inherited keywords, several spellings of one task | every task is reported once, with the keywords that hold for it |
| Reference cache (`services/ref_cache.py`) | Redis keys and locks | check, lock, recheck, fetch | the lock expires under its holder | one fetch per miss |
| Rate limits, SSE, the other parsers of one document, auth | none or trivial | | | |

`PROJECT.json` lists every component with its status, and every hazard with the
line where it bites and the property that would catch it.

## Modules

| Module | Contents |
|---|---|
| `StateMachines` | The tables of `services/state_machines` as records of partial functions; `Can`, `Advance`, `TryAdvance`. Every module that fires an event uses them. |
| `FixLifecycle` | The abstract promise of `fix.py`: a row moves along edges of `FixMachine` only; a row is replaced only by a new pending one. |
| `FixPipeline` | The workflow fixes of one repository: routes, webhooks, Celery tasks, scans, sweeper, crashes. Implements `FixLifecycle`. |
| `FixBranch` | One delivery to GitHub, call by call: the branch, its pull requests, their record, users, webhooks, the poller's snapshots. |
| `FixGuards` | The gates between what the LLM answers and a fix that is ready. |
| `BranchMirror` | The abstract promise of `workflow_sync`: the stored files are those of one commit. |
| `WorkflowScans` | The scans of one branch: the Redis lock, the fetch at a commit, sync, analysis, findings, retries, the nightly sweep. Implements `BranchMirror`. |
| `EngineTargets` | One Terraform, Docker or Ansible target: scans, findings, fixes, the gate, usage, delivery, faults. |
| `TargetFiles` | Which files a target owns, which pushes scan it again, which build is shown under it. |
| `ComposeMerge` | The documents the Docker rules read: Compose files merged with their overrides. |
| `ActionIntegration` | The proposal of the telemetry action: insertion, pins, README badge, when a PR is opened. |
| `AnsibleParser` | What a playbook, a task file and a mapping become for the Ansible rules. |
| `PullRequestMirror` | Webhooks and poller over the pull requests and the default branch of one repository. |
| `RepoAccess` | Installations, repositories, memberships, the enabled switch and its slots. |
| `UsageLedger` | The allowance of an organisation: read, then recorded. |
| `CloudPosture`, `TelemetryRuns` | The posture scans of an AWS account; the analyses of CI telemetry. Both extend `UsageLedger`. |
| `AwsCollector` | What a posture scan collects when calls are denied or fail, and what the rules report of it. |
| `OrgAnalyses` | The composition: cloud scans and telemetry of one organisation on one ledger, the collector as `AwsCollector` says. |
| `Scoring` | Penalties, scores, means and grades in exact arithmetic. |
| `Dashboard` | Every query that picks a latest scan, counts findings or averages scores, over rows that move. |
| `Billing` | Subscriptions: Stripe, its webhook, the routes, the dunning pass. |
| `MC...` | Instances for TLC: symmetry, sets of events, and the small inputs of the pure modules. |
| `...Proofs` | Theorems of the module they are named after (`FixBranchProofs`: also of `PullRequestMirror`), see Proofs. |

`FixPipeline` treats a push to a branch as one step, and `FixBranch` opens that
step up; `FixPipeline` takes a scan's result as a choice, and `WorkflowScans`
says how it comes about. Their agreements are on the rows they share: the
status of a fix, the record of a pull request, the findings of a file.

### How FixPipeline corresponds to the code

* `fix[f]` is the `WorkflowFix` row of file `f` (`workflow_fix.workflow_file_id`
  is unique), `Absent` when there is none. Rows are deleted and recreated, so
  each carries an id; `made[f]` is the last id given out.
* `pr[b]` is `pr_state` of the `PullRequest` row of branch `b`. The branch names
  are deterministic (`wf_fix_branch`, `repo_fix_branch`): a file's own branch is
  named by the file, the shared one is `RepoBranch`. `head[b]` is what the last
  push left on the branch.
* `batch[k]` is the Redis counter of a generation run and whether its `ready`
  set is non-empty.
* `job[j]` is a Celery task in the broker or on a worker, with what it has
  loaded. `file[f]` says whether the file is on the default branch and has open
  findings.
* **Atomicity.** One database transaction is one step. A task that calls the LLM
  or GitHub between two transactions takes several: `GenStart`, then `GenSucceed`
  or `GenFail`, then `GenCount` (the Redis decrement and `_maybe_auto_deliver`);
  `DelPrecheck`, `DelClaim`, `DelPush`, then `DelSucceed` or `DelFail`. The last
  step writes from what the task loaded (SQLAlchemy's `UPDATE ... WHERE id`,
  with no version column), whatever the row has become; if the row is gone the
  UPDATE matches nothing, the task raises and nothing is counted (`GenLost`,
  `DelLost`).
* **Crashes.** With `task_acks_late` an unacknowledged message comes back
  (`Redelivered`); Celery acknowledges the message of a pool process that is
  lost, since `task_reject_on_worker_lost` is not set, so a crash may also lose
  the task. Both outcomes are in `Crash`.
* **Choices of the environment.** What the LLM answers, which findings a scan
  reports, what GitHub says of a PR, whether a commit adds or removes the file,
  and which of several PRs was updated last are nondeterministic.

Abstracted: the contents of files, finding rows (one flag per file), usage
records and quota refusals, SSE and logs. Left out: comment and disabled
delivery modes, forced pushes of users (`externally_modified`), Redis failures
and the expiry of the batch keys, a task that runs twice at once because it
outlived the visibility timeout, the early error returns of
`_load_generation_context` for deleted findings, and the window between
`require_idle` and the write that follows it.

### How Billing corresponds to the code

* `row[a]` is the `BillingSubscription` of account `a`: `since` is
  `past_due_since` (the deadline is always `Grace` days later), `stage` is
  `dunning_stage`, `end` is `period_end`, and `customer` stands for the two
  stored Stripe ids, which are set and cleared together; 0 is none. Its fields
  `failed` and `mails` are history, not columns: the day of the last failure and
  the mails sent in this window.
* `bill[a]` is `a`'s subscription at Stripe, modelled from the events the webhook
  handles. Each change appends events to `sent[a]` with what they carry; the
  webhook handles any event not yet in `handled[a]` (`billing_webhook_event`),
  in any order, in one transaction each. A redelivery of a handled event changes
  nothing and is not a step.
* `HandleEvent` is `stripe_webhook`; `Applied` is its dispatch on the event type;
  `Upserted`, `Deleted`, `PaymentFailed` are its handlers; `Transition` is
  `lifecycle.transition` with the columns each state implies.
* `StartDunning` loads the rows that are `past_due` and works on them up to the
  first that changes, whose commit expires what SQLAlchemy has loaded. So each
  later row (`DunNext`) is read when its turn comes, and its status, which is not
  looked at again, may have changed. `DunningDies` drops the rest of the list.
  The stamp of a missing `past_due_since` and the reminder or expiry after it
  are two commits in the code and one step here.
* `visited[a]` and `ordered[a]` are history: a pass acted on a row that had moved
  on; the events were handled in order so far.
* `Init` lets every account be new, or have bought a plan and be paid up.

Abstracted: wall-clock time (a day is the unit of the windows and of the pass,
which ends on the day it starts), which dates end a month (`Month` days for both
the calendar and Stripe), invoices, mails other than payment-failed ones, and the
match by subscription id, which never differs from the match by customer.
Left out: trials and incomplete subscriptions, a second subscription opened by a
checkout while the first lives on, a checkout that is paid later, and two
handlers that write one row at the same time.

### How WorkflowScans corresponds to the code

* `log` is the branch at GitHub, one tree per commit. `row[f]` is the
  `WorkflowFile` of a path with `live` for `deleted_at IS NULL` and `content`;
  `finding[f][r]` is the finding of a rule. `task[t]` is a scan: what it was asked
  for (`what`, `force`, `bill`), its retries, the commit it reads (`pinned`, `at`,
  `seen`) and the paths it still has to analyse, has analysed (`fresh`), and has
  analysed without resolving what is gone (`stale`).
* `Acquire`, `Busy` and `Leave` are the Redis lock of `scan_support.py`; `Expire`
  is its TTL, and `ExpireEarly` (an event, `slow`) the TTL of a run that is still
  at work.
* `ResolveHead`, `Fetch` and `Sync` are `workflow_sync`: the branch head, then the
  files at that commit, then one transaction that replaces the set. `RefUnresolved`
  and the unpinned `Fetch` are the fallbacks. `older` compares `resolved_at`: a sync
  that holds an older tree than the stored one leaves rows alone.
* `SkipDuplicate` is `deduplication.py` (a content with a completed scan is not
  analysed again); `AnalysisSucceeds` commits scan and findings; `ResolveStale` is the
  transaction after it.
* `RetryTransient` is the sweeper's part, `Nightly` the beat; `Release` is the rescan of every
  repository after new rules were shipped.

Left out: badges, events, enrichment, the auto-fix queue (it is in `FixPipeline`).

### How EngineTargets corresponds to the code

* One target and its files. `scan` is the newest scan row and the tree it is
  about, `finding[p][r]` a row, `fix[p]` the `TerraformFix`, `DockerFix` or
  `AnsibleFix` row, `queue[p]` its messages at the broker, `pr` the record of the
  target's branch, `used` and `paid` the usage records, `calls` the requests made
  to the LLM.
* `job[j]` is a request or a task. A route reads rows (the gate, the quota), waits
  and writes; a task claims, calls, writes. Each is a step of its own, so two requests
  can pass one gate.
* `queue[p]` counts messages by what they name: findings, or only the measurements of builds (a Docker
  fix asked for from the runtime findings). An analysis that is run again deletes the measurements
  (`EvidenceSwept`); a message that names only these ends in `no_findings_found` and leaves its row
  pending, although `_load_enrichments` says of a missing one that "it must not fail the fix"
  (`docker_fix_generation.py:58-66`).
* `faults` counts what no user does: a worker that dies, a message that is lost, measurements that are
  replaced under a message that names them.
* Left out: several targets on one shared branch, and the client of GitHub
  (`FixBranch` has it).

### How FixBranch corresponds to the code

* A content is a number: a user's push makes a new one, `-v` is what the generator
  made of `v`. `branch` has its head, whether a user's commit is on it, what commit
  it was built on and from which rewrite. `gh` are the pull requests ever opened from
  it, `rec` the one `PullRequest` row.
* `ReadBase`, `CheckFresh`, `ListPulls`, `RefuseToOverwrite`, `Rebase`, `UpdatePull`,
  `CreatePull`, `RecordPull` are the calls of `services/github/fix_delivery.py` in
  their order; a user may do anything between two of them. `Errs` is any of them failing.
* `told` keeps every webhook, so that each may come late, twice, or never. `PollSnapshot`
  and `PollApply` are the poller's fetch and its commit.
* `Fetched` says which of the two engines delivers: the file engines compare with
  the base as of delivery, workflow fixes with what the rewrite was made of.

### How PullRequestMirror corresponds to the code

* `pull[p]` is the pull request at GitHub, `record[p]` its row, `polledHead` the
  `last_polled_head_sha`, `asked` the scans that were queued. `Webhook` handles any
  event under way; `Sent` may lose it. `StartPoll`, `FetchPr`, `ApplyPr`, `EnqueuePush`,
  `SaveHead` are `polling.py`; `Crash` drops the poll between two of them.
* The repository stays enabled. `ApplyPr` is one step (its handlers run in one
  session). `Unreadable` are pull requests whose comments GitHub fails to list.

### How RepoAccess corresponds to the code

* `inst`, `suspended`, `granted`, `archived` and `home` are GitHub's side; `issued`
  is history. `repo[r]` is the `Repository` row, `org` and `owners` the organisation and
  its memberships by `joined_at`; `syncKey` and `scanKey` the Redis keys that keep a
  sync or an initial scan from being queued twice.
* `GitHubWebhook` handles any webhook in any order; a redelivery is dropped by its
  delivery id, which is set before the event is handled. `FetchRepositories`,
  `UpsertRepositories`, `EnqueueInitialScans` are the sync task, and webhooks fall between.
* `CheckQuota` and `EnableRepository` are the two halves of `PATCH`; `paid` is history:
  against whose allowance a repository was switched on.
* A sync writes each row in a transaction of its own; here the rows go in one
  step, as no property relates two rows.

Left out: `auto_fix_enabled`, superusers, renames.

### How CloudPosture, TelemetryRuns, UsageLedger and OrgAnalyses correspond to the code

* `used[e]` counts the records of one period. `Allows` is `enforce_quota`, `RecordUsage`
  the record; they are steps of different tasks, which is the point.
* `scan[j]` is a `cloud_scan` task: it loads the account, assumes the role, collects,
  and writes findings and account status from what it loaded. `behind` says that a
  worker died between the commit of a scan and the resolution of what it no longer saw.
* A telemetry task checks the allowance, pays in a transaction of its own, starts,
  deletes the old enrichments of the run, inserts its own and fires `enrich`. `stored[r]`
  is the set of tasks whose enrichments are in the table; `met` the runs two tasks
  replaced at once.
* What a collection reports is `ReportsOf(Types)`, computed by `AwsCollector` from an
  account and a pattern of failing calls, not chosen freely.

### How AwsCollector corresponds to the code

An account is a record of sets of resources with what the rules look at. `F.denied`
are the calls that AWS refuses, `F.broken` those that raise something else. Each
`Collect...` is the collector of that name and drops, keeps or defaults a resource as
its `except` clauses do; each rule is the rego rule of that name. A listing that fails
may lose any of its resources, which includes every way to stop between two pages.
`QuietReport` are the rules that test a value for being there; `LoudReport` those that
take an absent value for a violation.

### How FixGuards, TargetFiles and ComposeMerge correspond to the code

* `FixGuards`: a document is a sequence of lines. Parsers, the kind of an Ansible file
  and the verdict of OPA are functions in a record `E`, of which nothing is assumed.
  `RunFixGeneration` is the gate sequence of workflow fixes (`WorkflowError`),
  `GenerateFileFix` that of the engines (`FileError`).
* `TargetFiles`: a path is a sequence of directory names and a name split in stem,
  infixes and suffix. `Belongs` is what `engines.py` and `discovery.py` fetch; `Enqueues` is
  the match of a push; `RuntimeFindings` is the window of `docker.py`. A root that names a
  file is left out.
* `ComposeMerge`: a service maps fields to scalars, lists, mappings or null; nested
  mappings hold scalars.

### How ActionIntegration corresponds to the code

* A workflow is a sequence of lines as `_inject_action_into_workflow` tells them apart: the head of a
  job, its `permissions` (a mapping with its scopes line by line, or another form), its `steps`, a step
  with the action it uses, other text. `InsertAll` makes the insertions from the bottom up, as the code
  does. `Loads` is the loader of YAML as far as repeated keys and misplaced scopes go.
* A README is a sequence of lines, each a sequence of words. What the LLM answers is any README, an
  empty answer, or an exception. `BadgeOnlyAdded` is the check of that answer, `InsertBadgeSimple` the
  fallback.
* A remote maps each action to its tags, branches, releases and tag objects; `ResolvePinnedRef` and
  `ResolveActionShas` are `sha_resolver.py`.
* `IntegrateAction` is the route: refused when the repository is not accessible, busy or without an
  installation, else the changed files and the README in one delivery.

Left out: flow-style lists and mappings, steps shared by YAML aliases, and GitHub's rule that a job's own
`permissions` block replaces the inherited ones.

### How AnsibleParser corresponds to the code

A YAML value has a kind, the line that introduces it and the last line it spans, as
`convert_with_positions` keeps them. `FlattenTasks` walks blocks in the order in which they run and passes
keywords down; it is a recursive function on lists. `ConvertTask`, `ModuleArgs` and `ResolveAction` tell a
task's module from its arguments. Two short names stand for the table `_BUILTIN_MODULES`.

### How Scoring and Dashboard correspond to the code

* `Scoring` keeps a point of the 0-100 scale in `Point` parts, so that the means over
  files and categories are exact; the code uses floats and rounds for display. Grades
  are cut in tenths of a point as shown.
* `Dashboard`: `scan[t]` are finished scans, `run[t]` those under way. Each operator is
  one query of one endpoint (`ListGrade`, `Coverage`, `Overview...`, the badge, the
  SARIF report), with its own order (`created_at` or `completed_at`) and its own filters.
  A request for the overview reads in two statements (`ReadFindings`, `ReadPipeline`), between
  which tasks commit; `Answer` ends it.

## Runs

A run asks one group of questions of one module. External events (requests,
webhooks at their source, commits, crashes) count against `MaxOps`; task steps, deliveries of
events, timers, sweeps and nightly runs do not. Deadlock is not checked: when the events are used
up and nothing is queued, the system rightly stops.

| Run | Instance | Shows |
|---|---|---|
| `all` | `MCFixPipeline`, 1 file, 3 task slots, 2 batches, 3 events of any kind, `FairSweep` | `PendingHasTask`, `DeliveredIsBacked`, `NothingIsForgotten`, and that nothing is in flight for ever (`InFlightEnds`) |
| `shared` | `MCFixPipeline`, 2 files, 3 events that take no row from its task (`OpsOwned`) | `OneWorkerPerRow`, `LandedIsMerged`, `ClosedIsWithdrawn`, `BatchNotEarly`, and the implementation of `FixLifecycle` (`FollowsLifecycle`) |
| `branch` | `MCFixBranch`, 2 deliveries, 6 events | `ChangesAreKept`, `WorkSeenIsKept`, `RecordIsReal` |
| `scans` | `MCWorkflowScans`, 2 files, 2 contents, 2 tasks, 2 events, runs end within their lock | `OneRun`, `FreshAgrees`, `DeletedIsQuiet`, and the implementation of `BranchMirror` (`MirrorsOneCommit`) |
| `catches` | `MCWorkflowScans`, 1 file, 2 tasks, 3 events: push, crash, a run that outlasts its lock; `Live` | `CatchesUp` |
| `targets` | `MCEngineTargets`, 1 file, 2 contents, 2 tasks, 4 events, 1 fault, allowances of 2 | `ReportedIsOpen`, `CallsArePaid`, `InFlightHasTask`; the pure modules |
| `pulls` | `MCPullRequestMirror`, 1 PR, 3 events | `CommandsObeyed`, `Converges`, `HeadIsScanned` |
| `access` | `MCRepoAccess`, 2 users, 2 accounts, 3 repositories, 2 requests, 2 syncs, 1 slot, 2 events | `FlagFollowsStatus`, `OwnInstallation`, `OneInitialScan`, `RevivedOnce`, `SlotsBound`, `PayerStays` |
| `posture` | `MCOrgAnalyses`, 2 cloud scans with 3 events, 1 telemetry run with 2 workers and 3 events, an allowance of 2 | `WithinAllowance`, `OpenIsReported`, `EnrichedIsStored`; `AwsCollector` |
| `pages` | `MCDashboard`, two workflow files (one on a feature branch) and a Docker target, 2 findings each, 3 events | `GradeExplained`, `PagesAgree`, `ScoresAgree`, `ReportIsSane` |
| `billing` | `Billing`, 1 account, 3 facts of any kind, days 0 to 3, windows and months of 2 days, reminders on days 0 and 1 | `GraceIsKept`, `RemindersRecorded`, `PaidIsServed`, `GoneIsFree` |
| `sarif` | `MCDashboard`, as `pages`, scans and fixes only | a violation, see below |

**Pure modules.** TLC evaluates assumptions of the MC modules on every run.
`MCEngineTargets` has those of `FixGuards` (`WorkflowGates`, `FileGates`, `GatesAccept`: every
document of at most two lines against every other), of `TargetFiles` (`PushesRescan`,
`SomePushesDoNot`, `BuildsOwnedOnce`, `PagesArePartitioned`, `LabelsAreKinds`: 25 paths, four
roots, three engines) and of `ComposeMerge` (`Configurations`: a file and its override, two
services, fields of each shape), and of `AnsibleParser` (`Flattened`, `Spellings`, `Plays`, `BadFilesDrop`:
every block of two items over one another, every spelling of a task, playbooks of two plays, files that
are none). `MCFixBranch` has those of `ActionIntegration`: `JobsAreKept` and `InjectedAtMostOnce` (every
workflow of at most two jobs over seven forms of permissions and four of steps), `ReadmesAreKept` and
`BadgesStayTogether` (every README of at most three lines against every answer of the LLM with the
badge anywhere), `NothingLeftToPropose` (a proposal that was merged leaves nothing for the next) and
`PinnedSteps`; `RepeatedKeys` says where the insertion cannot be joined to the file (see below).
`MCOrgAnalyses` has that of `AwsCollector` (`QuietAccount`: every
set of denied calls on a clean account and on one that violates every rule).

### Bounds

* **Fixes.** A race needs a task that holds a row and an event that changes it; three events
  replace, deliver, close or reopen around a task in flight, and three slots hold two competing
  tasks and a scan. Two files are what a shared branch, a shared batch and a PR record with two fixes
  need; no step relates three. `shared` leaves out crashes, sweeps, the manual sync, rejections,
  forced deliveries and files that go: under them some of its properties fail, for the reasons listed below; the
  theorems say which property needs which of them left out.
* **Branch.** Six events reach: generate, deliver, push by the user, close, reopen, and a late
  webhook of the first closing. Two deliveries are one with the branch in hand and one that
  overtakes it.
* **Scans.** Two tasks and two contents let an older tree arrive after a newer one; two files let a
  run stop between two. `catches` has the third event that it takes to lose the lock and the
  content in one history.
* **Engine targets.** Four events are a scan or a push, a request, a second request and a delivery;
  with one path each interleaving of the two tasks is on the row they share.
* **Pull requests.** One poll runs at a time (beat sends the next after ten minutes). Webhooks of
  lifecycle and CI arrive late and reordered; all others, and any the choice `Sent` drops, are lost
  before they are sent, which is what the poller has to make up for.
* **Access.** Two syncs and two requests are a check and a write with another between them; one
  slot is the boundary; a repository that no installation covers and one that is in the list of one
  account and belongs to another both occur.
* **Posture.** Cloud scans end within the hour of their lock (`InTime`). Two tasks of one engine and
  one of the other are enough to overrun an allowance of two.
* **Pages.** One file on a feature branch with a slow scan makes the orders by creation and by
  completion differ; two findings of different severity and category make every table differ.
* **Billing.** Three facts reach a failure, a payment and the next failure, and an end followed by a
  new subscription and a failure; a window of two days begins, is reminded of and ends within four
  days. Handlers, passes and rollovers are not bounded. Accounts meet only on the dunning list; that a
  pass committed another account's row first is a choice of `StartDunning`, so one account is enough.

`GraceIsKept` sets aside rows that a pass acted on after they had moved on (see below).
`PaidIsServed` and `GoneIsFree` speak of accounts in step with Stripe: every event handled, and in
order. Out of order the row may follow the older event, and nothing repairs it before the next one.

The type invariant of a module is its `TypeOK`. It is proved for every module with a proof module (for
`RepoAccess` and `Dashboard` as the parts `Types` and `Typed` of their invariants), and TLC finds it to
hold for `PullRequestMirror` (replace the INVARIANTS of the cfg by `TypeOK`); no run is spent on it.

### Fairness

* `FixPipeline!FairSweep`: `WF(Age)` says that thirty minutes pass, `WF(Sweep)` that beat runs
  `sweep_stuck_states` every hour (`celery_app.py`). Nothing is assumed of the workers, which may all
  be dead.
* `WorkflowScans!Live`: workers run (`WF` of a task's step), the lock's TTL expires, beat sends the
  nightly scan, and GitHub answers again (`SF` of the fetches that may fail).
* `PullRequestMirror!Spec`: beat starts polls, workers finish them, a webhook that was not lost
  arrives (`WF`), and a request that GitHub is asked again and again succeeds at last (`SF`).

### Where the code and its documentation disagree

One of these is a run that must find the violation: `sarif` (`OpenIsInSarif`). `sarif_report.py:120`
says the report has "Every finding a repository currently has open for one engine"; the query at
`:133` selects on the status column, which becomes `fix_in_progress` when a fix is linked, and stays
so while every page counts the finding as open. The same query drops engine findings that were reopened,
whose status stays `resolved`.

The others were met while modelling. The models contain each of these behaviours; the property that would deny it is
weakened or its run excludes the event.

*Fixes of workflows.*

* A worker whose LLM call was out when the fix was rejected writes `ready` from its copy
  (`fix_generation.py:551`), though `docs/state-machines.md:268` calls `rejected_by_user` terminal.
* `POST .../fixes` replaces generating rows (`workflow_fixes.py:325`), though `fix.py:24-25` says
  that they may not be regenerated out from under the worker. The task whose row was replaced raises before it is
  counted: its run never ends, and auto-delivery does not fire.
* If one of several fixes of a delivery is rejected and regenerated meanwhile, the delivery's commit fails as a whole.
  The other fixes stay in `delivering` until the hourly sweep fails them, also when they were pushed.
* Branch names are deterministic, so a delivery after the merge records onto the merged row
  (`delivery_pr.py:103-104`: "Merged PRs never reach here").
* A second delivery rebuilds the shared branch with its own files only; the merge then lands fixes
  that are not on it (`enums.py:103`: landed means on the branch).
* The manual PR sync closes or merges the record and leaves its fixes `delivered`.
* A worker that dies between the Redis decrement and the acknowledgement is counted twice, and the
  notification is published early.
* A rescan fires `restore` on any superseded fix, also one whose PR the user closed, and one that had no
  content when it was superseded. `DeliveredIsBacked` holds all the same: the delivery checks for content.
* A delivery that reopens a closed record does not restore the other fixes the close had superseded.
* The sweeper judges by `created_at`: a delivery started on an old row can be failed at once.
* The pin gate compares the last use of an action only, and not actions that were added or dropped. An
  empty remote file (`remote_content or raw_content`) falls back to the stored copy.

*Branches and pull requests.*

* A merge followed by the automatic deletion of the branch counts as a rejection when the deletion
  arrives first (`file_fix_delivery.py:167`, `fix_delivery.py:109`).
* A deletion on the base branch passes the freshness check, and the fix brings the file back. Only the
  author of the head commit is checked for the user's work; the file engines rebuild the branch without
  the user's changes. `externally_modified` is cleared by a forced delivery.
* `opened` on a record that exists keeps the old URL. A stale snapshot of the poller may close or
  reopen the record of a newer PR until the next poll. Only open and draft PRs are polled, so a lost
  `reopened` is never repaired; a reopened draft is recorded `open` until a poll.
* The comment cursor is the time the poll began (`polling.py:262-263`), so comments are read twice; it
  moves also when the comments could not be fetched, and then their commands are lost. `reconcile`
  applies old commands again. Comments are applied PR by PR, not in the order they were written.
* `check_suite` is matched by branch, not by commit; the poller aggregates runs differently.
  `synchronize` leaves `head_sha` alone, and a push webhook does not move the poller's cursor, so a
  head is scanned twice.

*Scans.*

* A content analysed before is skipped as a duplicate: a file that returns to it may not
  show its findings until a forced scan.
* A scan row of an engine is not committed before its scan ends, so `scanning` is never visible to the gate
  (`docs/state-machines.md:114-117`). A scan that finds no files leaves old findings open.
  Scans of pushes may run out of order, the older one last.
* Muting an engine finding never sets `ignored_at`. Fixes of the engines do not move when their PR is merged or
  closed by a webhook, and the sweeper does not look at them.
* `normalize_root_path` strips slashes only: a root `./infra` or `a//b` matches no push. A busy sibling crowds
  builds out of the window of `list_runtime_findings`. An Ansible project under a skipped directory
  classifies nothing.

*Accounts.*

* The dunning pass stamps a row that recovered after the list was loaded (`workers/tasks/billing.py:78`),
  and the next failure inherits the stamp, against `models/db/billing.py:50-52`.
* `canceled` is final (`state_machines/billing.py:43`): an account that buys again is charged and keeps the
  limits of Free (`billing/lifecycle.py:58-59` says it gets its plan back when a payment succeeds).
* A cancellation resumed in the portal while its event is in flight is ended by the pass, for good. Stripe's
  `unpaid` on a row that has not seen the failure opens a grace window. With reminder day 0 the
  webhook's mail and the first pass's mail are both sent.
* `docs/state-machines.md:549-552` says that access events leave `enabled` alone; losing access clears it, and
  `unarchived` sets it without asking for the quota. The status has one axis and forgets a second
  cause. An event of an old installation overwrites `installation_id`; the 90 s key of a sync can
  swallow the one that is needed. An organisation without owners has no quota. `create_external`
  makes a new organisation each time.
* A cloud scan overwrites `disabled` from the row it read before (`cloud_scan.py:125,205`,
  `cloud_account.py:6-9`), and no worker looks at the switch. A collector that fails as a whole resolves
  that type's findings; calls for details that are refused read as absent values, so some rules (`LoudReport`)
  report violations that are not there, among them `ebs_uses_aws_managed_key`, whose comment calls that
  "the one thing cloud rules here must never do". A scan that crashed keeps the account locked for an hour.
* Telemetry: `trigger_scan` sends its tasks before it commits `queued`. A run that quota refuses stays
  `queued` until the sweep fails it. Nothing forbids two rows for one run and phase, nor two tasks that replace
  findings at once and store them twice (`met`); a crash after the charge is charged again.

*Proposals of the telemetry action.* A job whose `permissions` are null or a flow mapping, or give `id-token`
another value, gets a key twice or a scope that no mapping has, and the proposed file no longer loads (`RepeatedKeys`). When the LLM's provider raises, the badge is left out, although `repositories.py:571`
says "or None on failure" and `:649` that the fallback is "for when the LLM is unavailable". The rules see the
keyword `args` of an Ansible task only when its module is a key of its own, not with `action` or
`local_action`; a task's `tags` and `when` replace those of its block, where Ansible adds them up.

*Pages.* The overview's CI findings include those of feature branches, which its coverage excludes
(`engines.py:313-315`: they "inflate every CI count on the dashboard"). The remainder `unfixed` does not keep the buckets
summing to `open` (`overview.py:340-345`) when commits fall between the two counts. The list and the page
of a repository round on different sides of a grade (`engine_scores.py:123-126`). A badge counts deleted
files. A crash between the commit of a scan and `resolve_stale` leaves findings open that the
overview hides.

## Proofs

`tlapm` checks every theorem to its last leaf. They hold for any values of the constants that
satisfy the named assumptions of the component's module (finitely many files, null values that are none of
the names, event kinds among `OpKinds`; TLC evaluates them on each run). A theorem that holds only without
some external events says so in its statement, as an assumption on `Ops`; below it says why, and the runs
leave out the same events. None of these restrictions is there to ease a proof: TLC finds a violation as soon as one of the
excluded events is let back in. In `FixPipeline`, `sync` breaks `LandedIsMerged` and `ClosedIsWithdrawn`, `crash`
breaks `BatchNotEarly` and `GeneratingHasTask`, each of `force`, `file` and `sweep` breaks `OneWorkerPerRow`,
`FollowsLifecycle` and `FinalStays`, and `reject` breaks `FollowsLifecycle`; runs that outlast their lock
break the restricted theorems of `WorkflowScans`, `OpenIsReported` and `ScoresAgree`; a base that was fetched before the
delivery (`Fetched = TRUE`) breaks `ChangesAreKept`. The argument is the same throughout: an
inductive invariant that implies the property, with a lemma for each action or group of actions that can disturb it.

### FixPipeline

| Theorem | States | Assumes |
|---|---|---|
| `TypeCorrect` | `TypeOK` | |
| `Backed` | `DeliveredIsBacked` | |
| `Remembered` | `NothingIsForgotten` (of every step) | |
| `PendingServed` | `PendingHasTask` | |
| `LandsMerged`, `CloseWithdraws` | `LandedIsMerged`, `ClosedIsWithdrawn` | no manual PR sync |
| `RunsEndLast` | `BatchNotEarly` | no crash |
| `WorkedByOne` | `OneWorkerPerRow` | no forced delivery, vanishing file or sweep |
| `KeepsToLifecycle` | `FollowsLifecycle`: implements `FixLifecycle` | these, and no rejection |
| `FinalIsFinal` | `FinalStays` (of every step) | no forced delivery, vanishing file or sweep |
| `GenerationsEnd` | `GeneratingHasTask` | no crash |
| `OnlyLossStrands` | `NoneLeftBehind` (of every step) | no crash |

* **`BackedInv`.** The last step of a delivery writes `delivered` without looking at the content, so the content
  of the rows that a task holds must be known since its precheck, and that a row cannot be confused with its
  successor. `BackedInv` adds `Numbered` (a row's id is the last one given out, so a task holding an older id
  has lost its row) and `Carried` (a row that a claimed delivery still holds has content). Every action either
  keeps a row (`Kept`) or renews it under a new id (`Renewed`).
* **`PendingInv`** adds `Single`, that a generation task names one file: a start takes the row of its own task
  and no other, so every other pending row keeps the task it waits for. It holds under crashes and
  sweeps too: no crash takes a message that no worker has taken.
* **`MergeInv`** proves the two properties of the PR record together, on top of `BackedInv`: a late
  `delivered` must not be written on a record that has been closed. The manual sync moves the
  record and leaves the fixes, so it is excluded; crashes, sweeps and forced deliveries are not.
* **`BatchInv`** counts the tasks of a run as a finite set. A crash between the decrement and the
  acknowledgement counts a task twice, so it is excluded.
* **`WorkInv`** adds `Owners`: the row a task works on says `generating` or `delivering`, or `rejected_by_user`, and
  nothing else takes a row in these states. That no delivery is forced (`Unforced`) and no file is gone (`AllPresent`)
  follows from the assumption: a forced delivery, a scan of a file that went, and the sweeper let a second
  worker take a row that the first still has.
* **`LifeInv`** adds that the last row made is the one there is. Then each write of a task, route or webhook is an edge of
  `FixMachine` (`FollowsEdge`, one lemma per action) and maps to a step of `FixLifecycle`. A rejection is excluded
  because the worker's outcome is then written over `rejected_by_user`.
* **`FinalIsFinal`** follows from `WorkInv`: nobody works on a row that is `landed` or `no_op`, no edge leaves
  these states, and only a renewed row has another id. Rejections are allowed here.
* **`GenerationsEnd`** and **`OnlyLossStrands`** are what can be proved of `InFlightEnds`, which is a liveness property. With
  `PendingServed` they say which rows in flight have a task that will end it. A pending or
  generating row always has (`HeldInv`; a crash takes it, and then the sweeper is needed). A delivering row has, with one
  exception, which TLC finds: two fixes are claimed by one delivery, the user rejects and
  regenerates one of them, and the delivery's commit fails for both (`DelLost`). The other row stays in
  `delivering` until the hourly sweep. `NoneLeftBehind` says that this is the only way. TLC checked
  both on small instances without crashes (4 events on one file, 3 on two).

### EngineTargets

* **`TargetTypes`**: `TypeOK`, together with `JobsShaped` (what a job of each kind may hold).
* **`ReportsStayOpen`** (`ReportedIsOpen`). `ScanInv`: runs hold the lock, so there is one at a time, and a run
  that has reported is the newest completed scan until it ends; what it resolves is not among what it reported.
* **`EveryCallIsPaid`** (`CallsArePaid`). `CallInv`: `calls + Cardinality(Pending) + Cardinality(Working) <= paid`. A pending
  row, or a task that has claimed one, may make one call; any other message of the file finds the row taken. This
  covers redeliveries, and two requests that passed one gate.
* **`FlightsEnd`** (`InFlightHasTask`), and nothing is in flight on a target that was removed (`FlightInv`).
* **`AcceptedWorkflowFix`**, **`AcceptedFileFix`**: what an accepted rewrite keeps, for any document, parser and verdict
  (`FixGuards`). **`NoChangeIsLost`**: a push that changes a file the scan of a target reads queues that scan
  (`TargetFiles`).

### FixBranch

* **`BranchTypes`**; **`RecordIsTrue`** (`RecordIsReal`). `Real`: every webhook, snapshot and task names a pull request
  there is, and a state that it has been in; histories only grow (`Grown`).
* **`SeenWorkStays`** (`WorkSeenIsKept`). `Heads`: commits are numbered in the order they are pushed, and an unforced
  delivery that looked at the branch holds no commit of a user's.
* **`ChangesSurvive`** (`ChangesAreKept`), for workflow fixes (`Fetched = FALSE`). A delivery past the freshness check
  carries the rewrite of the base commit it found (`BranchKept`). An earlier form of the property, which also spoke of
  a base that is itself a merged rewrite, could not be proved: it is false from three deliveries and ten events on,
  beyond the bounds of the run, when the file is deleted between the read of the base and the freshness
  check (which a deletion passes, see above) and comes back by a merge. The property now speaks of a base that
  users pushed. For the file engines (`Fetched = TRUE`) it is no promise of the code, which compares the
  base with what it was when the delivery began.

### PullRequestMirror

Proved in `FixBranchProofs`, of the instance `Mirror`.

* **`NoCommandMissed`** (`NoneMissed`, the first part of `CommandsObeyed`), for any webhooks, crashes and number of pull
  requests. `CursorInv`: what a poll has read of a pull request and not yet applied begins at its cursor and goes at least
  as far as where the cursor will be moved. Nothing moves a cursor but the poll that is under way.
* **`PolledCommandsObeyed`** (`CommandsObeyed`), if no webhook tells of comments and all of them are on one pull request, as
  in the run. `EffectInv`: no command beyond what the poll has read was carried out, and `muted` is what the last
  one says. Both assumptions are needed: a webhook may carry out a newer command before a poll carries out an
  older one again, and a poll takes commands pull request by pull request, not in the order they were written.
* **`RecordNotAhead`**, **`MirrorTypes`**: a record says merged, or names a head, only after GitHub did. `MirrorInv`: every
  webhook under way and every snapshot a poll holds tells something that has happened. A merge is final at GitHub
  and heads only grow, so what is late is still true. `MirrorConstants` are the value constraints
  of the module's `ASSUME`, which an instance does not bring along.
* **`CursorsNeverRewind`** (of every step), on top of `CursorInv`: a poll writes the time it began, and no cursor is beyond
  that while it is under way (`PollIsLast`). So no poll reads again what a cursor has passed.

### WorkflowScans

Under `"slow" \notin Ops` (no run outlasts its lock, which is what the ten minutes of the TTL are for):

* **`OneAtATime`** (`OneRun`), **`FindingsAreCurrent`** (`FreshAgrees`), **`GoneHasNoFindings`** (`DeletedIsQuiet`),
  **`MirrorsCommits`** (every step implements `BranchMirror`). One inductive invariant: `TypeOK`, `OneRun`, `NoneOlder` (no
  running task holds a tree older than the stored one, so the comparison of `resolved_at` never fires),
  `DeletedIsQuiet`, and for each task that it reads a commit there is (`ReadsCommit`), holds the files of it
  (`HoldsFiles`), has stored what it read (`StoredAsRead`) and has reported what its files violate (`Reported`).
* **`ScansArePaid`**: the scans of one repository are charged within the allowance. A run takes stock once, after its sync, and
  then counts down by itself, so the invariant (`SpentInv`) is that what was used and the budget of the run at work
  are together within the limit; it needs `OneRun`, because two runs would both have counted on the same rest.

Without it, when runs overlap:

* **`WorkflowTypes`**; **`FilesAreReal`**: what is stored of a file is what the commit its row names holds there, although
  the stored files together may be those of no commit; **`NoFindingInvented`**: a finding, open or resolved, is of a rule
  that its file violated in some commit. `AnyInv` says the same of what a running task has read (`RealTask`); a
  run that skips a file a newer one wrote takes the content from the row, so what it holds is real file by
  file and no longer one tree. The `catches` run shows that these runs also catch up.

### OrgAnalyses

* **`TypeCorrect`**; **`Allowed`** (`WithinAllowance`), if there is a task slot at all. `DueInv` counts every task
  that has passed the check and has not yet added its record.
* **`Current`** (`OpenIsReported`), if no scan outlasts its lock (`InTime`, as in the run). `ScanInv`: the scan about to
  resolve is the one committed last, and everything it reported is open.
* **`Enriched`** (`EnrichedIsStored`). `EnrichInv`: alone with its run, a task replaces all there is.
* **`QuietRulesInventNothing`** (`AwsCollector`): for any account, regions and failures, a quiet rule reports no
  resource that it would not report if every call were answered. Collector by collector: what is
  listed is a part of what exists, and a field that a quiet rule reads is as it is or absent.

### Billing

* **`BillingTypes`** and **`GraceKept`**: `GraceIsKept` needs that an active row carries no window. `GraceInv` says so
  row by row (`Graced`), and that every upsert in the log names a status that `_STATUS_EVENTS` lists (`Said`). A
  pass keeps `Graced` of a row that is still past_due, and sets `visited` on any other. The log only grows (`LogKept`).
* **`RemindersCount`** (`RemindersRecorded`). `CountsMails`: an active row owes no mail that the next failure could add to.
* **`Served`** (`PaidIsServed`), **`Freed`** (`GoneIsFree`). Both are about accounts in step with Stripe, and neither is
  inductive: before the last event is handled the row is behind. `StepInv` says what the row is after each
  prefix of the log. `LogOk` is about Stripe alone (the last event tells what became of the subscription, events since
  the last checkout are of its customer), `RowOk` about the row: if the events were handled in order, the
  first `k` of them, and every checkout is among these, the row is as event `k` told (`RowAt`).

### RepoAccess

* **`GateFollows`** (`FlagFollowsStatus`), **`NoForeignToken`** (`OwnInstallation`), **`ScannedOnce`** (`OneInitialScan`),
  **`NoSecondRevival`** (`RevivedOnce`). The invariant `IInv` has the types these need (`Types`), and
  `Named`: whatever names an installation (a webhook under way, a sync, an organisation, a granted
  repository) names one its account had; `RowsOwned` and `AllFlagged` for the rows; `Keyed`: a scan that waits
  holds its Redis key; `Accounted`: revivals and the webhooks that may still revive are together at most the
  unarchivals.
* **`SlotsHold`** (`SlotsBound`), **`PayerKeeps`** (`PayerStays`). `SlotInv` adds `Joined` (no user owns an organisation twice),
  `Funded` (what was switched on against an allowance is on, and its owner still pays) and `Within`: the repositories
  a user pays for and the requests that have passed the check are together at most
  `RepoLimit + Cardinality(Requests) - 1`. The attempt to prove an earlier form failed for good reasons: a
  user who was deleted may come back under the same name, and the payer of an organisation may change while a
  request that asked the former one is under way. `paid` forgets a repository then, as its allowance is nobody's or
  another's.
* **`AccessTypes`** (`TypeOK`). A row is written in part by many actions, and a function with one field of a missing row is
  no row. `TypeInv` says that every scan, request, sync and listing under way is of a repository that has a row (`Listed`,
  `Requested`, `Waited`), and rows are never dropped (`RowsLast`), so nothing that comes late writes into nothing.

### Dashboard

* **`GradeShown`** (`GradeExplained`), **`ReportSane`** (`ReportIsSane`), **`PagesTellTheSame`** (`PagesAgree`). `Inv` types the rows,
  links a finding that is in progress to its fix (`LinkedToFix`) and says of a target that is not `Slow` that its latest scan is
  latest by creation and by completion (`Ordered`). `AllApart`: no two scans have one time of completion, so that "the
  latest" names one.
* **`ScoresTellTheSame`** (`ScoresAgree`), if the scans of a default-branch workflow file do not overlap
  (`FilesOneByOne`). The run has the same restriction: only its file on a feature branch is `Slow`. The assumption is needed:
  one page takes the latest scan by completion, the other by creation.
* These pages are sums over sets (`MapThenSumSet`), which is defined by recursion on subsets. The module begins with
  a small library of sums, each fact of it proved by the least counterexample (`Smallest`): strict inclusion is
  well-founded on the subsets of a finite set (`FS_StrictSubsetOrderingWellFounded`), so a property that
  fails for some subset fails for one all of whose proper subsets have it. This needs no theorem with an operator
  parameter, which the provers cannot instantiate.
* **`FewerNeverWorse`** (`Scoring`): one finding more gives no better score and no better grade, for any partition of the
  findings into groups, although a group's score stops at zero and the mean is rounded down. `PenaltyGrows` (a sum
  over a part is at most the sum over the whole), `TotalLess` (a mean of lesser scores) and `RungGrows` (the ladder).
  Category scores have no such theorem: they are relative to the other categories.
* **`DashboardTypes`** (`TypeOK`): scores lie between 0 and `Full` (`ScoreBetween`), and each write of the status column
  or of a fix stays within its values (`Rest`).

### Only model-checked

* Liveness (`InFlightEnds`, `CatchesUp`, `Converges`, `HeadIsScanned`): it needs fairness and `ENABLED`, which are out of
  the prover's reach.
* What a recursive definition over documents computes (`ComposeMerge`, `AnsibleParser`, `ActionIntegration`): TLC
  evaluates these on every small document.
* `OpenIsInSarif`, which is violated.

## Plan

Done: the modules above, with the runs and theorems listed. What is left, in the order of its worth:

1. Several targets of an engine on the shared branch; comment mode and forced pushes of users in `FixPipeline`.
2. Trials, two Stripe subscriptions of one account, and checkouts that are paid later in `Billing`.
3. The redelivery of a task that still runs (visibility timeout), in `FixPipeline` and `EngineTargets`.
4. `RefCache`: the check-lock-recheck pattern of `ref_cache.py`.

## Not modelled

* Rate limits (a configuration of a library), SSE streams (published and forgotten, but for the
  notification of a batch), authentication, users and organisations as CRUD of single requests: no
  state that two actors share.
* The parsers of single documents but for playbooks (YAML, HCL, Dockerfiles), the rego rules but for the
  cloud domain, and the prompts: pure functions of a document. The models take what a rule or the LLM says as a choice.
* The GitHub Action and the web client: clients of the API that keep no state of the server.
* Redis as a whole failing, and the rows of PostgreSQL under write skew between two transactions of one
  route, except where a model splits the check from the write.
* Session handling of the AWS client, marketplace events, invoices, and the mergeable refresh, whose
  300 s key may drop a later push until the next one.
