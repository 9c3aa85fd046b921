---------------------------- MODULE FixPipeline ----------------------------
(***************************************************************************)
(* The workflow-fix pipeline of one repository: the WorkflowFix rows, the  *)
(* PullRequest rows of its fix branches, and the Celery tasks that         *)
(* generate, deliver and rescan, interleaved with the API routes, the      *)
(* GitHub webhooks, the sweeper and worker crashes.                        *)
(*                                                                         *)
(* Every database transaction is one atomic step.  A task that holds a row *)
(* across an LLM or GitHub call takes several steps, and its last step     *)
(* writes from what it loaded, whatever the row has become: rows carry no  *)
(* version and are not locked, so the UPDATE names only the row's id.      *)
(***************************************************************************)
EXTENDS Naturals, FiniteSets, StateMachines

CONSTANTS
    Files,       \* workflow files on the default branch
    RepoBranch,  \* the repository-wide fix branch; a file's own branch is the file
    NoPr,        \* a fix without pr_id
    Jobs,        \* task slots: the Celery tasks that can exist at once
    Batches,     \* batch ids: the generation runs that can exist at once
    NoBatch,     \* a generation task outside any batch
    AutoFix,     \* repository.auto_fix_enabled
    Ops,         \* the kinds of external event this instance allows
    MaxOps       \* how many external events may happen

OpKinds == {"generate", "regenerate", "retry", "reject", "deliver", "force",
            "scan", "file", "lifecycle", "opened", "draft", "sync", "crash", "sweep"}

ASSUME OpsAssumption == Ops \subseteq OpKinds /\ MaxOps \in Nat /\ AutoFix \in BOOLEAN
ASSUME FilesAssumption == IsFiniteSet(Files)
ASSUME NamesAssumption == /\ RepoBranch \notin Files
                          /\ NoPr \notin Files \cup {RepoBranch}
                          /\ NoBatch \notin Batches

VARIABLES
    fix,      \* fix[f]: the file's WorkflowFix row (at most one per file), or Absent
    made,     \* made[f]: how many rows the file has had; the last one's id
    file,     \* file[f]: whether f is on the default branch, and has open findings
    pr,       \* pr[b]: pr_state of the branch's PullRequest row, or "none"
    head,     \* head[b]: the files whose fix the last push put on branch b
    batch,    \* batch[k]: the Redis keys of a generation run
    job,      \* job[j]: the task in slot j
    ops       \* external events so far

vars == <<fix, made, file, pr, head, batch, job, ops>>

Branches == Files \cup {RepoBranch}

-----------------------------------------------------------------------------
(* Rows and tasks *)

(* old: created_at is past the sweeper's cutoff.                             *)
(* manual: every finding of the fix is needs_manual_work.                    *)
Row == [id : Nat, st : FixStatus \cup {"absent"}, content : BOOLEAN,
        manual : BOOLEAN, pr : Branches \cup {NoPr}, old : BOOLEAN]

Absent == [id |-> 0, st |-> "absent", content |-> FALSE, manual |-> FALSE,
           pr |-> NoPr, old |-> FALSE]

NewRow(f) == [Absent EXCEPT !.id = made[f] + 1, !.st = "pending"]

Move(row, status) == [row EXCEPT !.st = status]

Fire(row, event) == Move(row, Advance(FixMachine, event, row.st))

TryFire(row, event) == IF Can(FixMachine, event, row.st) THEN Fire(row, event) ELSE row

(* A generation task names its file and, once it runs, the row it loaded; ok *)
(* is its outcome, from the commit until it is counted off the batch.        *)
(* A delivery task names the rows it was queued with (0: not in the task)    *)
(* and, after its prechecks, the files it will push.                         *)
Job == [kind : {"idle", "gen", "del", "scan"},
        phase : {"queued", "checked", "running", "pushed", "ended"},
        files : SUBSET Files, rows : [Files -> Nat],
        batch : Batches \cup {NoBatch}, branch : Branches, force : BOOLEAN, ok : BOOLEAN]

Idle == [kind |-> "idle", phase |-> "queued", files |-> {}, rows |-> [f \in Files |-> 0],
         batch |-> NoBatch, branch |-> RepoBranch, force |-> FALSE, ok |-> FALSE]

GenTask(f, k) == [Idle EXCEPT !.kind = "gen", !.files = {f}, !.batch = k]

DelTask(rows, b, force) ==
    [Idle EXCEPT !.kind = "del", !.rows = rows, !.branch = b, !.force = force]

ScanTask == [Idle EXCEPT !.kind = "scan"]

Free == {j \in Jobs : job[j].kind = "idle"}

RowIds(F, rows) == [f \in Files |-> IF f \in F THEN rows[f].id ELSE 0]

(* The row a task loaded is still the file's row. *)
Holds(j, f) == job[j].rows[f] = fix[f].id /\ fix[f].st # "absent"

EmptyBatch == [left |-> 0, ready |-> FALSE]

FreshBatch(k) == batch[k] = EmptyBatch /\ \A j \in Jobs : job[j].batch # k

External(kind) == kind \in Ops /\ ops < MaxOps /\ ops' = ops + 1

-----------------------------------------------------------------------------
(* What the repository, or one file, is busy with.  A workflow scan's row is *)
(* inserted and finished in one transaction, so none is ever seen active.    *)

Activity(F) ==
    IF \E f \in F : fix[f].st = "delivering" THEN "delivering"
    ELSE IF \E f \in F : fix[f].st \in {"pending", "generating"} THEN "generating"
    ELSE "idle"

Blocks == [generate |-> {"scanning", "delivering"},
           deliver  |-> {"scanning", "generating", "delivering"}]

RequireIdle(F, action) == Activity(F) \notin Blocks[action]

-----------------------------------------------------------------------------
(* Replacing rows and queueing their generation *)

(* One pending row per file of F; the rows they replace are deleted. *)
Recreate(F) ==
    /\ fix'  = [f \in Files |-> IF f \in F THEN NewRow(f) ELSE fix[f]]
    /\ made' = [f \in Files |-> IF f \in F THEN made[f] + 1 ELSE made[f]]

(* init_fix_batch: the counter starts at the number of tasks. *)
RunCountedOnce(n) == [left |-> 1, ready |-> FALSE]

InitBatch(n) == [left |-> n, ready |-> FALSE]

(* One generation task per file of F under a fresh batch, in slots that are *)
(* free or given up by the caller.                                          *)
Dispatch(F, own) ==
    \E k \in Batches, place \in [F -> Free \cup own] :
        /\ FreshBatch(k)
        /\ \A f, g \in F : place[f] = place[g] => f = g
        /\ batch' = [batch EXCEPT ![k] = InitBatch(Cardinality(F))]
        /\ job' = [j \in Jobs |->
                     IF \E f \in F : place[f] = j
                       THEN GenTask(CHOOSE f \in F : place[f] = j, k)
                     ELSE IF j \in own THEN Idle ELSE job[j]]

-----------------------------------------------------------------------------
(* API routes *)

(* POST /repositories/{id}/fixes for the findings of the files of F.  Every  *)
(* fix of those files that is not delivered is replaced, in flight or not.   *)
Generate(F, force) ==
    LET replaced == {f \in F : force \/ fix[f].st # "delivered"} IN
    /\ External("generate")
    /\ RequireIdle(Files, "generate")
    /\ \A f \in F : file[f].open
    /\ replaced # {}
    /\ Recreate(replaced)
    /\ Dispatch(replaced, {})
    /\ UNCHANGED <<file, pr, head>>

(* delete_orphaned_closed_prs, once the fixes of F are gone. *)
DropOrphanedClosedPrs(F) ==
    pr' = [b \in Branches |->
             IF pr[b] = "closed" /\ \A f \in Files \ F : fix[f].pr # b
               THEN "none" ELSE pr[b]]

Regenerable(f) ==
    /\ fix[f].st \notin InFlight \cup {"absent"}
    /\ fix[f].pr # NoPr => pr[fix[f].pr] # "merged"
    /\ file[f].open

ReplaceFixes(F) ==
    /\ External("regenerate")
    /\ F # {}
    /\ Recreate(F)
    /\ DropOrphanedClosedPrs(F)
    /\ Dispatch(F, {})
    /\ UNCHANGED <<file, head>>

(* POST /repositories/{id}/fixes/regenerate *)
RegenerateRepository ==
    /\ RequireIdle(Files, "generate")
    /\ ReplaceFixes({f \in Files : Regenerable(f)})

(* POST /fixes/{id}/regenerate *)
RegenerateFix(f) ==
    /\ RequireIdle({f}, "generate")
    /\ Regenerable(f)
    /\ ReplaceFixes({f})

(* POST /fixes/{id}/retry: the row is reused, created_at, content, PR and all. *)
RetriedRow(row) == Fire(row, "regenerate")

RetryNotQueued(f) ==
    /\ External("retry")
    /\ RequireIdle({f}, "generate")
    /\ file[f].open
    /\ Can(FixMachine, "regenerate", fix[f].st)
    /\ fix' = [fix EXCEPT ![f] = RetriedRow(@)]
    /\ UNCHANGED <<made, file, pr, head, batch, job>>

RetryFix(f) ==
    /\ External("retry")
    /\ RequireIdle({f}, "generate")
    /\ file[f].open
    /\ Can(FixMachine, "regenerate", fix[f].st)
    /\ fix' = [fix EXCEPT ![f] = RetriedRow(@)]
    /\ \E j \in Free : job' = [job EXCEPT ![j] = GenTask(f, NoBatch)]
    /\ UNCHANGED <<made, file, pr, head, batch>>

(* DELETE /fixes/{id}: not gated on activity. *)
RejectFix(f) ==
    /\ External("reject")
    /\ Can(FixMachine, "reject", fix[f].st)
    /\ fix' = [fix EXCEPT ![f] = Fire(@, "reject")]
    /\ UNCHANGED <<made, file, pr, head, batch, job>>

QueueDelivery(F, b, force) ==
    \E j \in Free : job' = [job EXCEPT ![j] = DelTask(RowIds(F, fix), b, force)]

Deliverable(f, force) == fix[f].st = "ready" \/ (force /\ fix[f].st # "absent")

(* POST /fixes/{id}/deliveries *)
DeliverFix(f, force) ==
    /\ External(IF force THEN "force" ELSE "deliver")
    /\ Deliverable(f, force)
    /\ RequireIdle({f}, "deliver")
    /\ QueueDelivery({f}, IF fix[f].pr # NoPr THEN fix[f].pr ELSE f, force)
    /\ UNCHANGED <<fix, made, file, pr, head, batch>>

(* POST /repositories/{id}/deliveries.  The branch is that of the linked PR  *)
(* updated last, merged or not; any event on a PR can make it the last.      *)
DeliverRepository(force) ==
    LET F      == {f \in Files : Deliverable(f, force)}
        linked == {fix[f].pr : f \in Files} \ {NoPr}
    IN
    /\ External(IF force THEN "force" ELSE "deliver")
    /\ RequireIdle(Files, "deliver")
    /\ F # {}
    /\ \E b \in IF linked # {} THEN linked ELSE {RepoBranch} : QueueDelivery(F, b, force)
    /\ UNCHANGED <<fix, made, file, pr, head, batch>>

(* _relink_orphaned_fixes *)
Relinked(f) ==
    CASE fix[f].st = "absent" \/ fix[f].pr # NoPr -> fix[f].pr
      [] fix[f].st # "absent" /\ fix[f].pr = NoPr /\ pr[f] # "none" -> f
      [] fix[f].st \in DeliveredStatuses /\ fix[f].pr = NoPr /\ pr[f] = "none"
         /\ pr[RepoBranch] # "none" -> RepoBranch
      [] OTHER -> NoPr

(* POST /repositories/{id}/pull-requests/sync: seen[b] is what GitHub says   *)
(* of each open PR.  Only the PR rows change, not the fixes on them.         *)
SyncPullRequests ==
    /\ External("sync")
    /\ \E seen \in [{b \in Branches : pr[b] = "open"} -> {"open", "merge", "close"}] :
         pr' = [b \in Branches |->
                  IF b \in DOMAIN seen /\ seen[b] # "open"
                    THEN TryAdvance(PullRequestMachine, seen[b], pr[b]) ELSE pr[b]]
    /\ fix' = [f \in Files |-> [fix[f] EXCEPT !.pr = Relinked(f)]]
    /\ UNCHANGED <<made, file, head, batch, job>>

-----------------------------------------------------------------------------
(* GitHub webhooks *)

LifecycleEvents == {"merge", "close", "reopen"}

EveryCloseLands == [merge |-> "land", close |-> "land", reopen |-> "restore"]

(* What each event does to the fixes on the PR. *)
SideEffect == [merge |-> "land", close |-> "supersede_closed_pr", reopen |-> "restore"]

(* handle_pull_request_lifecycle: the fixes' side effects happen whether or  *)
(* not the event was legal for the PR row.                                   *)
Touched(b, event) ==
    {f \in Files : /\ fix[f].pr = b
                   /\ Can(FixMachine, SideEffect[event], fix[f].st)
                   /\ event = "reopen" => fix[f].st = "superseded_by_closed_pr"}

PullRequestLifecycle(b, event) ==
    /\ External("lifecycle")
    /\ pr[b] # "none"
    /\ pr' = [pr EXCEPT ![b] = TryAdvance(PullRequestMachine, event, @)]
    /\ fix' = [f \in Files |-> IF f \in Touched(b, event)
                                 THEN Fire(fix[f], SideEffect[event]) ELSE fix[f]]
    /\ \E resolved \in SUBSET (IF event = "merge" THEN Touched(b, event) ELSE {}) :
         file' = [f \in Files |-> IF f \in resolved THEN [file[f] EXCEPT !.open = FALSE]
                                                    ELSE file[f]]
    /\ UNCHANGED <<made, head, batch, job>>

(* pull_request opened: a PR opened by hand from a fix branch. *)
PullRequestOpened(b) ==
    /\ External("opened")
    /\ pr' = [pr EXCEPT ![b] = IF @ = "none" THEN "open"
                               ELSE TryAdvance(PullRequestMachine, "reopen", @)]
    /\ UNCHANGED <<fix, made, file, head, batch, job>>

PullRequestDraftToggle(b, event) ==
    /\ External("draft")
    /\ Can(PullRequestMachine, event, pr[b])
    /\ pr' = [pr EXCEPT ![b] = Advance(PullRequestMachine, event, @)]
    /\ UNCHANGED <<fix, made, file, head, batch, job>>

(* Somebody commits to the default branch: f appears there or disappears. *)
CommitFile(f) ==
    /\ External("file")
    /\ file' = [file EXCEPT ![f].present = ~@]
    /\ UNCHANGED <<fix, made, pr, head, batch, job>>

-----------------------------------------------------------------------------
(* run_fix_generation *)

(* _record_batch_result: count the task off its batch's Redis counter. *)
Counted(k, ok) ==
    IF k = NoBatch THEN batch
    ELSE [batch EXCEPT ![k] = IF @.left <= 1 THEN EmptyBatch
                              ELSE [left |-> @.left - 1, ready |-> @.ready \/ ok]]

(* The tail of a generation task.  If it was the last of its batch and any   *)
(* file became ready, _maybe_auto_deliver queues every fix ready by then.    *)
EndGeneration(j, ok) ==
    LET k       == job[j].batch
        wanted  == k # NoBatch /\ batch[k].left <= 1 /\ (ok \/ batch[k].ready) /\ AutoFix
        isReady == {f \in Files : fix[f].st = "ready"}
        reused  == {b \in Branches : pr[b] \in PrState \ {"merged"}}
    IN
    /\ batch' = Counted(k, ok)
    /\ IF wanted /\ isReady # {}
         THEN \E b \in IF reused # {} THEN reused ELSE {RepoBranch} :
                job' = [job EXCEPT ![j] = DelTask(RowIds(isReady, fix), b, FALSE)]
         ELSE job' = [job EXCEPT ![j] = Idle]

TakesUnfinished(f) == fix[f].st \in {"pending", "generating"}

TakesFailed(f) == fix[f].st \in {"pending", "failed"}

(* A task looks for its file's pending row. *)
Takes(f) == fix[f].st = "pending"

(* Without a pending row there is nothing to generate. *)
GenStart(j) ==
    /\ job[j].kind = "gen" /\ job[j].phase = "queued"
    /\ \E f \in job[j].files :
         IF Takes(f)
           THEN /\ fix' = [fix EXCEPT ![f] = Move(@, "generating")]
                /\ job' = [job EXCEPT ![j].phase = "running", ![j].rows[f] = fix[f].id]
                /\ UNCHANGED batch
           ELSE /\ EndGeneration(j, FALSE)
                /\ UNCHANGED fix
    /\ UNCHANGED <<made, file, pr, head, ops>>

(* The LLM answered.  The row's status is written from the copy loaded at   *)
(* the start, so it overwrites whatever the row has become.                 *)
GenSucceed(j) ==
    /\ job[j].kind = "gen" /\ job[j].phase = "running"
    /\ \E f \in job[j].files, flagged \in BOOLEAN :
         /\ Holds(j, f)
         /\ fix' = [fix EXCEPT ![f] =
                      [Move(@, Advance(FixMachine, "generation_succeeded", "generating"))
                         EXCEPT !.content = TRUE, !.manual = flagged]]
    /\ job' = [job EXCEPT ![j].phase = "ended", ![j].ok = TRUE]
    /\ UNCHANGED <<made, file, pr, head, batch, ops>>

(* The row a failed attempt leaves: its earlier content stays. *)
WipedRow(row) == [Move(row, "failed") EXCEPT !.content = FALSE]

FailedRow(row) == Move(row, Advance(FixMachine, "generation_failed", "generating"))

(* The file is gone from the remote, the call raised, or the rewrite was    *)
(* refused.                                                                 *)
GenFail(j) ==
    /\ job[j].kind = "gen" /\ job[j].phase = "running"
    /\ \E f \in job[j].files : Holds(j, f) /\ fix' = [fix EXCEPT ![f] = FailedRow(@)]
    /\ job' = [job EXCEPT ![j].phase = "ended"]
    /\ UNCHANGED <<made, file, pr, head, batch, ops>>

GenCount(j) ==
    /\ job[j].kind = "gen" /\ job[j].phase = "ended"
    /\ EndGeneration(j, job[j].ok)
    /\ UNCHANGED <<fix, made, file, pr, head, ops>>

(* The row was deleted meanwhile: the UPDATE matches nothing and the task    *)
(* raises.  Nothing is counted off the batch.                                *)
GenLost(j) ==
    /\ job[j].kind = "gen" /\ job[j].phase = "running"
    /\ \E f \in job[j].files : ~Holds(j, f)
    /\ job' = [job EXCEPT ![j] = Idle]
    /\ UNCHANGED <<fix, made, file, pr, head, batch, ops>>

-----------------------------------------------------------------------------
(* deliver_fixes_batch, delivery mode pr *)

(* The task's row for f is one it may deliver. *)
Loads(j, f) == Holds(j, f) /\ (job[j].force \/ fix[f].st = "ready")

EmptyNeverFound(f) == FALSE

(* full_content was never generated. *)
IsEmpty(f) == ~fix[f].content

(* Load the task's rows, honour a PR the user closed, and set aside what     *)
(* cannot be delivered.  One transaction.                                    *)
DelPrecheck(j) ==
    LET t       == job[j]
        loaded  == {f \in Files : Loads(j, f)}
        empty   == {f \in loaded : IsEmpty(f)}
        useless == {f \in loaded \ empty : fix[f].manual}
        kept    == (loaded \ empty) \ useless
        closed  == ~t.force /\ pr[t.branch] = "closed"
    IN
    /\ t.kind = "del" /\ t.phase = "queued"
    /\ fix' = [f \in Files |->
                 CASE f \in loaded /\ closed ->
                        [Fire(fix[f], "supersede_closed_pr") EXCEPT !.pr = t.branch]
                   [] f \in empty /\ ~closed ->
                        IF t.force THEN Move(fix[f], "failed") ELSE Fire(fix[f], "precheck_failed")
                   [] f \in useless /\ ~closed ->
                        IF t.force THEN Move(fix[f], "no_op") ELSE Fire(fix[f], "precheck_no_op")
                   [] OTHER -> fix[f]]
    /\ job' = [job EXCEPT ![j] = IF closed \/ kept = {} THEN Idle
                                 ELSE [@ EXCEPT !.phase = "checked", !.files = kept]]
    /\ UNCHANGED <<made, file, pr, head, batch, ops>>

(* The rows are read again; unless forced, one that is no longer ready makes *)
(* the whole task raise before anything is written.                          *)
DelClaim(j) ==
    LET t     == job[j]
        legal == \A f \in t.files : Loads(j, f)
    IN
    /\ t.kind = "del" /\ t.phase = "checked"
    /\ fix' = [f \in Files |-> IF legal /\ f \in t.files
                                 THEN Move(fix[f], "delivering") ELSE fix[f]]
    /\ job' = [job EXCEPT ![j] = IF legal THEN [@ EXCEPT !.phase = "running"] ELSE Idle]
    /\ UNCHANGED <<made, file, pr, head, batch, ops>>

(* GitHub: the branch is rebuilt on the base branch with these files only,   *)
(* and its PR created or updated.                                            *)
DelPush(j) ==
    /\ job[j].kind = "del" /\ job[j].phase = "running"
    /\ head' = [head EXCEPT ![job[j].branch] = job[j].files]
    /\ job' = [job EXCEPT ![j].phase = "pushed"]
    /\ UNCHANGED <<fix, made, file, pr, batch, ops>>

RecordedWithoutReopen(state) ==
    IF state = "none" THEN "open" ELSE TryAdvance(PullRequestMachine, "redeliver", state)

(* record_pull_request: upsert by branch, reopen, else redeliver. *)
Recorded(state) ==
    IF state = "none" THEN "open"
    ELSE TryAdvance(PullRequestMachine,
                    IF Can(PullRequestMachine, "reopen", state) THEN "reopen" ELSE "redeliver",
                    state)

(* Written from the copies loaded when the rows were claimed. *)
DelSucceed(j) ==
    LET t == job[j] IN
    /\ t.kind = "del" /\ t.phase = "pushed"
    /\ \A f \in t.files : Holds(j, f)
    /\ pr' = [pr EXCEPT ![t.branch] = Recorded(@)]
    /\ fix' = [f \in Files |->
                 IF f \in t.files
                   THEN [Move(fix[f], Advance(FixMachine, "delivery_succeeded", "delivering"))
                           EXCEPT !.pr = t.branch]
                   ELSE fix[f]]
    /\ job' = [job EXCEPT ![j] = Idle]
    /\ UNCHANGED <<made, file, head, batch, ops>>

(* GitHub refused, before the push or after it.  If that was because somebody *)
(* has changed a file on the base branch, a forced rescan is queued.         *)
DelFail(j) ==
    LET t == job[j] IN
    /\ t.kind = "del" /\ t.phase \in {"running", "pushed"}
    /\ \A f \in t.files : Holds(j, f)
    /\ fix' = [f \in Files |->
                 IF f \in t.files
                   THEN Move(fix[f], Advance(FixMachine, "delivery_failed", "delivering"))
                   ELSE fix[f]]
    /\ \/ job' = [job EXCEPT ![j] = Idle] /\ UNCHANGED ops
       \/ job' = [job EXCEPT ![j] = ScanTask] /\ External("file")
    /\ UNCHANGED <<made, file, pr, head, batch>>

(* One of the rows was deleted meanwhile: the commit fails as a whole, and  *)
(* with it the record of the PR.                                            *)
DelLost(j) ==
    /\ job[j].kind = "del" /\ job[j].phase \in {"running", "pushed"}
    /\ \E f \in job[j].files : ~Holds(j, f)
    /\ job' = [job EXCEPT ![j] = Idle]
    /\ UNCHANGED <<fix, made, file, pr, head, batch, ops>>

-----------------------------------------------------------------------------
(* run_static_analysis, as far as it touches fixes *)

(* A push, the API, the poller or the nightly pass asks for a scan. *)
RequestScan ==
    /\ External("scan")
    /\ \E j \in Free : job' = [job EXCEPT ![j] = ScanTask]
    /\ UNCHANGED <<fix, made, file, pr, head, batch>>

(* sync_workflow_files, under the repository's scan lock.  A fix of a file   *)
(* that is there is restored, one of a file that is not is superseded.       *)
ScanSync(j) ==
    LET there == {f \in Files : file[f].present} IN
    /\ job[j].kind = "scan" /\ job[j].phase = "queued"
    /\ \A i \in Jobs : ~(job[i].kind = "scan" /\ job[i].phase = "running")
    /\ fix' = [f \in Files |->
                 TryFire(fix[f], IF f \in there THEN "restore" ELSE "supersede_deleted_file")]
    /\ file' = [f \in Files |->
                  IF f \in there THEN file[f] ELSE [file[f] EXCEPT !.open = FALSE]]
    /\ job' = [job EXCEPT ![j].phase = "running", ![j].files = there]
    /\ UNCHANGED <<made, pr, head, batch, ops>>

(* _auto_queue_fix_generation: open is the set of files with open findings   *)
(* after the scan, changed the set of files freshly analysed.                *)
AutoQueue(j, open, changed) ==
    LET target == {f \in open : fix[f].pr # NoPr => pr[fix[f].pr] # "merged"}
        keep   == {f \in target \ changed :
                     fix[f].content /\ fix[f].st \in {"ready", "delivered"}}
        redo   == target \ keep
    IN
    IF AutoFix /\ changed # {} /\ redo # {}
      THEN /\ fix' = [f \in Files |->
                        IF f \in redo THEN NewRow(f)
                        ELSE IF f \in keep /\ fix[f].st # "ready" THEN Fire(fix[f], "mark_ready")
                        ELSE fix[f]]
           /\ made' = [f \in Files |-> IF f \in redo THEN made[f] + 1 ELSE made[f]]
           /\ Dispatch(redo, {j})
      ELSE /\ job' = [job EXCEPT ![j] = Idle]
           /\ UNCHANGED <<fix, made, batch>>

(* The files are analysed, then the fixes reconciled with the findings. *)
ScanFinish(j) ==
    /\ job[j].kind = "scan" /\ job[j].phase = "running"
    /\ \E changed \in SUBSET job[j].files : \E violating \in SUBSET changed :
         LET open == violating \cup {f \in Files \ changed : file[f].open} IN
         /\ file' = [f \in Files |-> [file[f] EXCEPT !.open = (f \in open)]]
         /\ AutoQueue(j, open, changed)
    /\ UNCHANGED <<pr, head, ops>>

-----------------------------------------------------------------------------
(* Time, the sweeper, and crashes *)

(* Thirty minutes pass.  Only the sweeper looks at a row's age. *)
Age(f) ==
    /\ "sweep" \in Ops
    /\ fix[f].st # "absent" /\ ~fix[f].old
    /\ fix' = [fix EXCEPT ![f].old = TRUE]
    /\ UNCHANGED <<made, file, pr, head, batch, job, ops>>

GenerationSwept(f) == fix[f].st \in {"pending", "generating"} /\ fix[f].old

(* sweep_stuck_states: every in-flight row created before the cutoff. *)
IsSwept(f) == fix[f].st \in InFlight /\ fix[f].old

Sweep ==
    LET found == {f \in Files : IsSwept(f)} IN
    /\ "sweep" \in Ops
    /\ found # {}
    /\ fix' = [f \in Files |-> IF f \in found THEN Fire(fix[f], "swept") ELSE fix[f]]
    /\ UNCHANGED <<made, file, pr, head, batch, job, ops>>

(* The task as the broker delivers it again. *)
Redelivered(task) ==
    CASE task.kind = "gen"  -> [task EXCEPT !.phase = "queued", !.rows = Idle.rows, !.ok = FALSE]
      [] task.kind = "del"  -> [task EXCEPT !.phase = "queued", !.files = {}]
      [] task.kind = "scan" -> ScanTask

(* A worker dies.  task_acks_late: its message was not acknowledged and comes *)
(* back; but Celery acknowledges that of a pool process that is lost.  A      *)
(* generation task may have been counted off its batch already.               *)
Crash(j) ==
    /\ External("crash")
    /\ job[j].kind # "idle" /\ job[j].phase # "queued"
    /\ \/ UNCHANGED batch
       \/ job[j].phase = "ended" /\ batch' = Counted(job[j].batch, job[j].ok)
    /\ \E task \in {Idle, Redelivered(job[j])} : job' = [job EXCEPT ![j] = task]
    /\ UNCHANGED <<fix, made, file, pr, head>>

-----------------------------------------------------------------------------
Init ==
    /\ fix = [f \in Files |-> Absent]
    /\ made = [f \in Files |-> 0]
    /\ file = [f \in Files |-> [present |-> TRUE, open |-> TRUE]]
    /\ pr = [b \in Branches |-> "none"]
    /\ head = [b \in Branches |-> {}]
    /\ batch = [k \in Batches |-> EmptyBatch]
    /\ job = [j \in Jobs |-> Idle]
    /\ ops = 0

Request ==
    \/ \E F \in SUBSET Files, force \in BOOLEAN : Generate(F, force)
    \/ RegenerateRepository
    \/ \E f \in Files : \/ RegenerateFix(f)
                        \/ RetryFix(f)
                        \/ RejectFix(f)
                        \/ \E force \in BOOLEAN : DeliverFix(f, force)
    \/ \E force \in BOOLEAN : DeliverRepository(force)
    \/ SyncPullRequests
    \/ RequestScan

GitHub ==
    \/ \E b \in Branches : \/ \E event \in LifecycleEvents : PullRequestLifecycle(b, event)
                           \/ PullRequestOpened(b)
                           \/ \E event \in {"convert_to_draft", "mark_ready_for_review"} :
                                PullRequestDraftToggle(b, event)
    \/ \E f \in Files : CommitFile(f)

Work(j) ==
    \/ GenStart(j) \/ GenSucceed(j) \/ GenFail(j) \/ GenCount(j) \/ GenLost(j)
    \/ DelPrecheck(j) \/ DelClaim(j) \/ DelPush(j) \/ DelSucceed(j) \/ DelFail(j) \/ DelLost(j)
    \/ ScanSync(j) \/ ScanFinish(j)

Next ==
    \/ Request
    \/ GitHub
    \/ \E j \in Jobs : Work(j) \/ Crash(j)
    \/ \E f \in Files : Age(f)
    \/ Sweep

Spec == Init /\ [][Next]_vars

(* Time passes and Celery beat fires the sweeper every hour. *)
FairSweep == Spec /\ (\A f \in Files : WF_vars(Age(f))) /\ WF_vars(Sweep)

-----------------------------------------------------------------------------
(* Invariants *)

(* Every variable has its type: one row at most per file, a legal status, a *)
(* PR state or no PR row, well-formed tasks.                                *)
TypeOK ==
    /\ fix \in [Files -> Row]
    /\ made \in [Files -> Nat]
    /\ file \in [Files -> [present : BOOLEAN, open : BOOLEAN]]
    /\ pr \in [Branches -> PrState \cup {"none"}]
    /\ head \in [Branches -> SUBSET Files]
    /\ batch \in [Batches -> [left : Nat, ready : BOOLEAN]]
    /\ job \in [Jobs -> Job]
    /\ ops \in Nat

(* A pending fix always has a generation task waiting for it, whatever was  *)
(* replaced, retried, restored or crashed: the routes queue one task for    *)
(* each row they create, a task takes at most one row, and a task that dies *)
(* goes back to the broker.                                                 *)
PendingHasTask ==
    \A f \in Files : fix[f].st = "pending" =>
        \E j \in Jobs : job[j].kind = "gen" /\ job[j].phase = "queued" /\ job[j].files = {f}

(* What counts as delivered has content that was pushed and names the PR it *)
(* was pushed to, and no link dangles: the precheck of the delivery task,   *)
(* the writes of its last step and the deletion of closed PR records on a   *)
(* regenerate agree.                                                        *)
DeliveredIsBacked ==
    \A f \in Files :
        /\ fix[f].st \in {"delivered", "landed"} => fix[f].content
        /\ fix[f].st \in DeliveredStatuses => fix[f].pr # NoPr
        /\ fix[f].pr # NoPr => pr[fix[f].pr] # "none"

(* A fix has landed only if the PR record it is linked to says merged, even  *)
(* when GitHub's events come late, twice or out of order.                    *)
LandedIsMerged ==
    \A f \in Files : fix[f].st = "landed" => pr[fix[f].pr] = "merged"

(* No fix counts as delivered on a PR the user closed: closing the PR        *)
(* withdraws it, and a delivery that ends after the close reopens the record. *)
ClosedIsWithdrawn ==
    \A f \in Files : fix[f].st = "delivered" => pr[fix[f].pr] # "closed"

Running(j, f) == f \in job[j].files /\ job[j].phase \in {"running", "pushed"}
                 /\ job[j].kind \in {"gen", "del"} /\ Holds(j, f)

(* No two tasks work on the same row at the same time, though the same fix  *)
(* may have been queued many times.                                         *)
OneWorkerPerRow ==
    \A f \in Files : \A i, j \in Jobs : Running(i, f) /\ Running(j, f) => i = j

Tasks(k) == {j \in Jobs : job[j].batch = k}

(* The aggregated notification of a generation run is never published while *)
(* one of its tasks is outstanding: the Redis counter never runs ahead of   *)
(* the tasks, through replaced rows and skipped tasks.  (A worker that dies *)
(* just after it was counted is counted again; no run has that crash here.) *)
BatchNotEarly == \A k \in Batches : Cardinality(Tasks(k)) <= batch[k].left

-----------------------------------------------------------------------------
(* Action properties *)

SameRow(f) == fix[f].st # "absent" /\ fix'[f].id = fix[f].id

(* Deleting the PR records nobody needs never clears the link of a fix that *)
(* lives on, and a rewrite is never lost once a row has one.                *)
NothingIsForgotten ==
    [][\A f \in Files : SameRow(f) =>
         /\ fix[f].pr # NoPr => fix'[f].pr # NoPr
         /\ fix[f].content => fix'[f].content]_vars

-----------------------------------------------------------------------------
(* The rows as the abstract fix lifecycle sees them. *)

Lifecycle == INSTANCE FixLifecycle WITH id <- [f \in Files |-> fix[f].id],
                                        st <- [f \in Files |-> fix[f].st]

(* Every task, route and webhook moves a fix only along an edge of FixMachine, *)
(* although each task writes from a copy it loaded long before.                *)
FollowsLifecycle == Lifecycle!Spec

-----------------------------------------------------------------------------
(* Liveness *)

(* No fix stays in flight forever, whatever crashes: its worker writes an   *)
(* outcome, or the row is replaced, or the sweeper fails it.                *)
InFlightEnds ==
    \A f \in Files : \A n \in 1 .. MaxOps * 2 :
        (fix[f].id = n /\ fix[f].st \in InFlight)
            ~> ~(fix[f].id = n /\ fix[f].st \in InFlight)
=============================================================================
