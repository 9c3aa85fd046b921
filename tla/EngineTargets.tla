--------------------------- MODULE EngineTargets ---------------------------
(***************************************************************************)
(* One scan target of a file engine (a Terraform root, a Docker target or  *)
(* an Ansible project; the three run the same code): its scans, findings   *)
(* and fixes, the routes that queue work on it, and the tasks that do it.  *)
(*                                                                         *)
(* A route or task that reads rows, waits, and writes them later is two    *)
(* steps, and the second writes from what the first has read.              *)
(***************************************************************************)
EXTENDS Naturals, FiniteSets, Sequences

CONSTANTS
    Paths,        \* the files under the target's root
    Contents,     \* what a file may contain
    Gone,         \* no content: the path does not exist
    Rules,        \* the engine's enabled rules
    Reports,      \* the rules each content violates
    Jobs,         \* slots for requests and tasks that are under way
    Limit,        \* the month's allowance of analyses
    FixLimit,     \* the month's allowance of generations
    MaxBusy,      \* retries of a scan that finds the lock taken
    MaxRetries,   \* retries of a task that cannot reach GitHub
    Ops,          \* the kinds of event this instance allows
    MaxOps,       \* how many requests and other outside events may happen
    MaxFaults     \* how many faults

OpKinds == {"push", "scan", "sarif", "switch", "remove", "mute", "generate",
            "measure", "deliver", "pr"} \cup {"crash", "lost", "swept"}

ASSUME OpsAssumption == Ops \subseteq OpKinds /\ {MaxOps, MaxFaults} \subseteq Nat
ASSUME CountsAssumption == {Limit, FixLimit, MaxBusy, MaxRetries} \subseteq Nat
ASSUME ReportsAssumption == Reports \in [Contents -> SUBSET Rules]
ASSUME NamesAssumption == Gone \notin Contents /\ IsFiniteSet(Paths)

S == INSTANCE StateMachines

VARIABLES
    log,       \* the trees of the default branch, one per commit
    target,    \* the target's row: on, off, or removed
    scan,      \* the newest scan row, and the tree it is about
    finding,   \* finding[p][r]: the finding of rule r in file p
    fix,       \* fix[p]: the fix row of file p
    queue,     \* queue[p]: generation messages of file p at the broker, by what they name
    pr,        \* the pull-request record of the target's branch
    used,      \* analyses recorded this month
    paid,      \* generations recorded this month
    calls,     \* calls made to the LLM
    lock,      \* whether the Redis key of the scan lock exists
    job,       \* job[j]: the request or task in slot j
    ops,       \* counted events so far
    faults     \* counted faults so far

vars == <<log, target, scan, finding, fix, queue, pr, used, paid, calls, lock, job, ops, faults>>

-----------------------------------------------------------------------------
(* Rows *)

Trees == [Paths -> Contents \cup {Gone}]

Empty == [p \in Paths |-> Gone]

Tree == log[Len(log)]

Violations(tree, p) == IF tree[p] = Gone THEN {} ELSE Reports[tree[p]]

Scan == [status : {"none", "completed", "failed", "no_targets"}, tree : Trees]

(* open: resolved_at is NULL.  status is a column of its own. *)
Finding == [open : BOOLEAN, status : {"none", "open", "resolved", "ignored"},
            manual : BOOLEAN, linked : BOOLEAN]

NoFinding == [open |-> FALSE, status |-> "none", manual |-> FALSE, linked |-> FALSE]

FixStatus == {"none", "pending", "generating", "ready", "delivering", "delivered", "failed"}

Fix == [status : FixStatus, content : BOOLEAN]

NoFix == [status |-> "none", content |-> FALSE]

Forced == {"ready", "delivered", "failed"}

FindingMachine ==
    [resolve  |-> [s \in {"open"} |-> "resolved"],
     ignore   |-> [s \in {"open"} |-> "ignored"],
     unignore |-> [s \in {"ignored"} |-> "open"]]

(* What a generation message names: findings, which stay as long as their   *)
(* target, or measurements of builds alone.                                 *)
Evidence == {"findings", "measured"}

(* at: the commit to scan, 0 for the head of the branch.  paths: what a     *)
(* request will queue, what a worker generates, what a delivery will push;  *)
(* fresh: those of a request that had no row; bare: those without a finding.*)
Job == [kind : {"none", "scan", "generate", "deliver"},
        stage : {"asked", "queued", "locked", "fetched", "reported", "resolved",
                  "claimed", "selected"},
        at : Nat, seen : Trees, tries : Nat, force : BOOLEAN,
        paths : SUBSET Paths, fresh : SUBSET Paths, bare : SUBSET Paths]

NoJob == [kind |-> "none", stage |-> "queued", at |-> 0, seen |-> Empty, tries |-> 0,
          force |-> FALSE, paths |-> {}, fresh |-> {}, bare |-> {}]

Free(j) == job[j].kind = "none"

At(j, kind, stage) == job[j].kind = kind /\ job[j].stage = stage

Scanning(j) == job[j].kind = "scan" /\ job[j].stage # "queued"

Counted(kind) == kind \in Ops /\ ops < MaxOps /\ ops' = ops + 1 /\ UNCHANGED faults

Fault(kind) == kind \in Ops /\ faults < MaxFaults /\ faults' = faults + 1 /\ UNCHANGED ops

Enqueue(new) == \E j \in Jobs : Free(j) /\ job' = [job EXCEPT ![j] = new]

End(j) == job' = [job EXCEPT ![j] = NoJob]

ScanOf(k) == [NoJob EXCEPT !.kind = "scan", !.at = k]

-----------------------------------------------------------------------------
(* The gate of the routes.  A scan row is committed only when its scan is   *)
(* over, so no session but the scan's own ever sees one that is active.     *)

Activity ==
    IF \E p \in Paths : fix[p].status = "delivering" THEN "delivering"
    ELSE IF \E p \in Paths : fix[p].status \in {"pending", "generating"} THEN "generating"
    ELSE "idle"

Blocks == [scan |-> {"scanning", "generating", "delivering"},
           generate |-> {"scanning", "delivering"},
           deliver |-> {"scanning", "generating", "delivering"},
           remove |-> {"scanning", "generating", "delivering"},
           ignore |-> {"scanning"}]

Permitted(action) == Activity \notin Blocks[action]

Exists == target # "removed"

(* The default branch moves; the push webhook queues a scan of the commit, *)
(* unless it is lost or the push touches nothing under the root.           *)
Push ==
    /\ Counted("push")
    /\ \E tree \in Trees \ {Tree} : log' = Append(log, tree)
    /\ (target = "on" /\ Enqueue(ScanOf(Len(log) + 1))) \/ UNCHANGED job
    /\ UNCHANGED <<target, scan, finding, fix, queue, pr, used, paid, calls, lock>>

TriggerTargetScan ==
    /\ Counted("scan")
    /\ target = "on" /\ Permitted("scan") /\ used < Limit
    /\ Enqueue(ScanOf(0))
    /\ UNCHANGED <<log, target, scan, finding, fix, queue, pr, used, paid, calls, lock>>

(* A workflow of the repository asks over OIDC, past the gate. *)
TriggerCodeScanningScans ==
    /\ Counted("sarif")
    /\ target = "on" /\ used < Limit
    /\ Enqueue(ScanOf(0))
    /\ UNCHANGED <<log, target, scan, finding, fix, queue, pr, used, paid, calls, lock>>

UpdateTarget ==
    /\ Counted("switch") /\ Exists
    /\ target' = IF target = "on" THEN "off" ELSE "on"
    /\ UNCHANGED <<log, scan, finding, fix, queue, pr, used, paid, calls, lock, job>>

(* The rows of the target go with it. *)
DeleteTarget ==
    /\ Counted("remove") /\ Exists /\ Permitted("remove")
    /\ target' = "removed"
    /\ scan' = [status |-> "none", tree |-> Empty]
    /\ finding' = [p \in Paths |-> [r \in Rules |-> NoFinding]]
    /\ fix' = [p \in Paths |-> NoFix]
    /\ UNCHANGED <<log, queue, pr, used, paid, calls, lock, job>>

(* Muting writes the status, and leaves ignored_at as it is. *)
SetFindingIgnored ==
    /\ Counted("mute") /\ Permitted("ignore")
    /\ \E p \in Paths, r \in Rules, event \in {"ignore", "unignore"} :
          /\ S!Can(FindingMachine, event, finding[p][r].status)
          /\ finding' = [finding EXCEPT ![p][r].status = S!Advance(FindingMachine, event, @)]
    /\ UNCHANGED <<log, target, scan, fix, queue, pr, used, paid, calls, lock, job>>

-----------------------------------------------------------------------------
(* run_file_scan, under the target's lock *)

LockNotChecked == TRUE

LockFree == ~lock

Acquire(j) ==
    /\ At(j, "scan", "queued") /\ LockFree
    /\ lock' = TRUE
    /\ job' = [job EXCEPT ![j].stage = "locked"]
    /\ UNCHANGED <<log, target, scan, finding, fix, queue, pr, used, paid, calls, ops, faults>>

Later(j) == IF job[j].tries < MaxBusy THEN [job[j] EXCEPT !.tries = @ + 1] ELSE NoJob

Busy(j) ==
    /\ At(j, "scan", "queued") /\ ~LockFree
    /\ job' = [job EXCEPT ![j] = Later(j)]
    /\ UNCHANGED <<log, target, scan, finding, fix, queue, pr, used, paid, calls, lock, ops, faults>>

(* A run ends, and deletes the lock key, whoever has set it by now. *)
Leave(j, next) == lock' = FALSE /\ job' = [job EXCEPT ![j] = next]

(* No target, or no allowance: checked before anything is fetched. *)
Refused(j) ==
    /\ At(j, "scan", "locked") /\ (~Exists \/ used >= Limit)
    /\ Leave(j, NoJob)
    /\ UNCHANGED <<log, target, scan, finding, fix, queue, pr, used, paid, calls, ops, faults>>

(* The files of the commit the scan is for, or of the branch as it is now. *)
TreeOf(j) == IF job[j].at = 0 THEN Tree ELSE log[job[j].at]

Fetch(j) ==
    /\ At(j, "scan", "locked") /\ Exists /\ used < Limit
    /\ job' = [job EXCEPT ![j] = [@ EXCEPT !.stage = "fetched",
                                           !.seen = TreeOf(j)]]
    /\ UNCHANGED <<log, target, scan, finding, fix, queue, pr, used, paid, calls, lock, ops, faults>>

Again(j) ==
    IF job[j].tries < MaxRetries
      THEN [job[j] EXCEPT !.stage = "queued", !.tries = @ + 1] ELSE NoJob

FetchFails(j) ==
    /\ At(j, "scan", "locked") /\ Exists /\ used < Limit
    /\ Leave(j, Again(j))
    /\ UNCHANGED <<log, target, scan, finding, fix, queue, pr, used, paid, calls, ops, faults>>

(* There is nothing under the root: no charge, and no finding is touched. *)
NoTargets(j) ==
    /\ At(j, "scan", "fetched") /\ Exists /\ job[j].seen = Empty
    /\ scan' = [status |-> "no_targets", tree |-> Empty]
    /\ Leave(j, NoJob)
    /\ UNCHANGED <<log, target, finding, fix, queue, pr, used, paid, calls, ops, faults>>

(* A rule that reports again has its finding opened again; the status column *)
(* keeps what it holds.                                                      *)
Reopened(f) == [f EXCEPT !.open = TRUE, !.status = IF @ = "none" THEN "open" ELSE @]

PersistFindings(j) ==
    finding' = [p \in Paths |-> [r \in Rules |->
                  IF r \in Violations(job[j].seen, p) THEN Reopened(finding[p][r])
                                                       ELSE finding[p][r]]]

Charge(j) == used' = used + 1

(* The scan row, its charge and what it reports are one transaction. *)
AnalysisSucceeds(j) ==
    /\ At(j, "scan", "fetched") /\ Exists /\ job[j].seen # Empty
    /\ scan' = [status |-> "completed", tree |-> job[j].seen]
    /\ PersistFindings(j)
    /\ Charge(j)
    /\ job' = [job EXCEPT ![j].stage = "reported"]
    /\ UNCHANGED <<log, target, fix, queue, pr, paid, calls, lock, ops, faults>>

(* The policy engine fails: the scan row is failed, and charged. *)
AnalysisFails(j) ==
    /\ At(j, "scan", "fetched") /\ Exists /\ job[j].seen # Empty
    /\ scan' = [status |-> "failed", tree |-> job[j].seen]
    /\ Charge(j)
    /\ Leave(j, NoJob)
    /\ UNCHANGED <<log, target, finding, fix, queue, pr, paid, calls, ops, faults>>

Resolved(f) ==
    IF f.open THEN [f EXCEPT !.open = FALSE, !.status = S!TryAdvance(FindingMachine, "resolve", @)]
              ELSE f

(* resolve_stale_findings, in a transaction of its own. *)
ResolveStale(j) ==
    /\ At(j, "scan", "reported") /\ Exists
    /\ finding' = [p \in Paths |-> [r \in Rules |->
                     IF r \in Violations(job[j].seen, p) THEN finding[p][r] ELSE Resolved(finding[p][r])]]
    /\ Leave(j, NoJob)
    /\ UNCHANGED <<log, target, scan, fix, queue, pr, used, paid, calls, ops, faults>>

(* The target was removed under a task: its next write fails. *)
LosesTarget(j) ==
    /\ ~Exists /\ job[j].kind # "none"
    /\ ~At(j, "scan", "queued") /\ ~At(j, "scan", "locked")
    /\ End(j)
    /\ lock' = (lock /\ ~Scanning(j))
    /\ UNCHANGED <<log, target, scan, finding, fix, queue, pr, used, paid, calls, ops, faults>>

-----------------------------------------------------------------------------
(* Generating fixes, one whole-file rewrite per file *)

(* The files with open findings; ignored_at, which is never set, mutes none. *)
OpenFiles == {p \in Paths : \E r \in Rules : finding[p][r].open}

(* prepare_pending_fix leaves these rows alone. *)
InFlight(p) == fix[p].status \in {"pending", "generating", "delivering"}

Eligible(p, force) == ~InFlight(p) /\ (force \/ fix[p].status \in {"none", "failed"})

(* A request for some files passes the gate and the quota, and reads the    *)
(* rows ...                                                                 *)
RequestFixes(files) ==
    /\ Exists /\ Permitted("generate")
    /\ files # {} /\ paid + Cardinality(files) <= FixLimit
    /\ \E force \in BOOLEAN :
         LET paths == {p \in files : Eligible(p, force)} IN
         /\ paths # {}
         /\ Enqueue([NoJob EXCEPT !.kind = "generate", !.stage = "asked", !.paths = paths,
                                  !.fresh = {p \in paths : fix[p].status = "none"},
                                  !.bare = paths \ OpenFiles])
    /\ UNCHANGED <<log, target, scan, finding, fix, queue, pr, used, paid, calls, lock>>

GenerateTargetFixes == Counted("generate") /\ RequestFixes(OpenFiles)

(* The files that builds with measurements are built from, which need not   *)
(* have a finding of a scan.                                                *)
GenerateRuntimeFixes ==
    Counted("measure") /\ \E files \in SUBSET Paths : RequestFixes(files)

ChargeFixes(j) == paid' = paid + Cardinality(job[j].paths)

NamedBy(j, p) == IF p \in job[j].bare THEN "measured" ELSE "findings"

Sent(j, paths) ==
    queue' = [p \in Paths |-> IF p \in paths THEN [queue[p] EXCEPT ![NamedBy(j, p)] = @ + 1]
                                             ELSE queue[p]]

DispatchNewRows(j) == Sent(j, job[j].fresh)

Dispatch(j) == Sent(j, job[j].paths)

(* ... and writes them, charges, commits, and sends one message per file.   *)
(* The broker may fail after the commit.                                    *)
QueueFileFixes(j) ==
    /\ At(j, "generate", "asked") /\ Exists
    /\ \A p \in job[j].fresh : fix[p].status = "none"
    /\ fix' = [p \in Paths |-> IF p \in job[j].paths
                                 THEN [status |-> "pending", content |-> FALSE] ELSE fix[p]]
    /\ finding' = [p \in Paths |-> [r \in Rules |->
                     IF p \in job[j].paths \ job[j].bare /\ finding[p][r].open
                       THEN [finding[p][r] EXCEPT !.linked = TRUE] ELSE finding[p][r]]]
    /\ ChargeFixes(j)
    /\ \/ Dispatch(j) /\ UNCHANGED <<ops, faults>>
       \/ Fault("lost") /\ UNCHANGED queue
    /\ End(j)
    /\ UNCHANGED <<log, target, scan, pr, used, calls, lock>>

(* Another request has inserted one of the rows: the constraint refuses. *)
QueueConflicts(j) ==
    /\ At(j, "generate", "asked") /\ Exists
    /\ \E p \in job[j].fresh : fix[p].status # "none"
    /\ End(j)
    /\ UNCHANGED <<log, target, scan, finding, fix, queue, pr, used, paid, calls, lock, ops, faults>>

Consumed(p, named) == queue' = [queue EXCEPT ![p][named] = @ - 1]

AnyRow(p) == fix[p].status # "none"

Claimable(p) == fix[p].status = "pending"

(* The task takes the pending row of its file; without one it is skipped. *)
Claim(j, p, named) ==
    /\ queue[p][named] > 0 /\ Free(j) /\ Claimable(p)
    /\ Consumed(p, named)
    /\ fix' = [fix EXCEPT ![p].status = "generating"]
    /\ job' = [job EXCEPT ![j] = [NoJob EXCEPT !.kind = "generate", !.stage = "claimed",
                                               !.paths = {p},
                                               !.bare = IF named = "measured" THEN {p} ELSE {}]]
    /\ UNCHANGED <<log, target, scan, finding, pr, used, paid, calls, lock, ops, faults>>

Skip(p, named) ==
    /\ queue[p][named] > 0 /\ ~Claimable(p)
    /\ Consumed(p, named)
    /\ UNCHANGED <<log, target, scan, finding, fix, pr, used, paid, calls, lock, job, ops, faults>>

(* The builds were analysed again, so the measurements named are gone: the  *)
(* task ends before it looks at the row.                                    *)
EvidenceSwept(p) ==
    /\ Fault("swept") /\ queue[p]["measured"] > 0
    /\ Consumed(p, "measured")
    /\ UNCHANGED <<log, target, scan, finding, fix, pr, used, paid, calls, lock, job>>

(* The file cannot be read: the row fails, without an LLM call. *)
NotGenerated(j, p) ==
    /\ At(j, "generate", "claimed") /\ Exists /\ p \in job[j].paths
    /\ fix' = [fix EXCEPT ![p].status = "failed"]
    /\ End(j)
    /\ UNCHANGED <<log, target, scan, finding, queue, pr, used, paid, calls, lock, ops, faults>>

(* The findings the reply is about: none if the message names none. *)
Group(j, p) == IF p \in job[j].bare THEN {} ELSE {r \in Rules : finding[p][r].linked}

(* One LLM call, whose rewrite passes the gates or does not. *)
Generated(j, p) ==
    /\ At(j, "generate", "claimed") /\ Exists /\ p \in job[j].paths
    /\ calls' = calls + 1
    /\ \/ fix' = [fix EXCEPT ![p].status = "failed"] /\ UNCHANGED finding
       \/ /\ fix' = [fix EXCEPT ![p] = [status |-> "ready", content |-> TRUE]]
          /\ \E unfixed \in SUBSET Group(j, p) :
                finding' = [finding EXCEPT ![p] =
                  [r \in Rules |-> IF r \in Group(j, p)
                                     THEN [finding[p][r] EXCEPT !.manual = r \in unfixed]
                                     ELSE finding[p][r]]]
    /\ End(j)
    /\ UNCHANGED <<log, target, scan, queue, pr, used, paid, lock, ops, faults>>

-----------------------------------------------------------------------------
(* Delivering the ready fixes of the target as one pull request *)

DeliverTargetFixes ==
    /\ Counted("deliver") /\ Exists /\ Permitted("deliver")
    /\ \E force \in BOOLEAN : Enqueue([NoJob EXCEPT !.kind = "deliver", !.force = force])
    /\ UNCHANGED <<log, target, scan, finding, fix, queue, pr, used, paid, calls, lock>>

(* A rewrite whose findings were all declined is an edit nobody asked for. *)
ResolvesSomething(p) ==
    LET linked == {r \in Rules : finding[p][r].linked /\ finding[p][r].open} IN
    linked = {} \/ \E r \in linked : ~finding[p][r].manual

Deliverable(p, force) ==
    /\ fix[p].status \in IF force THEN Forced ELSE {"ready"}
    /\ fix[p].content /\ ResolvesSomething(p)

Selected(j) == {p \in Paths : Deliverable(p, job[j].force)}

(* The rows are selected; the files are fetched then, from GitHub. *)
Select(j) ==
    /\ At(j, "deliver", "queued")
    /\ job' = [job EXCEPT ![j] =
                 IF Selected(j) = {} \/ (~@.force /\ pr = "closed") THEN NoJob
                 ELSE [@ EXCEPT !.stage = "selected", !.paths = Selected(j)]]
    /\ UNCHANGED <<log, target, scan, finding, fix, queue, pr, used, paid, calls, lock, ops, faults>>

DeliveryFetchFails(j) ==
    /\ At(j, "deliver", "selected") /\ Exists
    /\ job' = [job EXCEPT ![j] = [Again(j) EXCEPT !.paths = {}]]
    /\ UNCHANGED <<log, target, scan, finding, fix, queue, pr, used, paid, calls, lock, ops, faults>>

(* The claim writes the rows that were selected, whatever they hold by now. *)
ClaimDelivery(j) ==
    /\ At(j, "deliver", "selected") /\ Exists
    /\ fix' = [p \in Paths |-> IF p \in job[j].paths
                                 THEN [fix[p] EXCEPT !.status = "delivering"] ELSE fix[p]]
    /\ job' = [job EXCEPT ![j].stage = "claimed"]
    /\ UNCHANGED <<log, target, scan, finding, queue, pr, used, paid, calls, lock, ops, faults>>

Recorded == IF pr \in {"none", "closed"} THEN "open" ELSE pr

DeliveryEnds(j, status) ==
    /\ At(j, "deliver", "claimed") /\ Exists
    /\ fix' = [p \in Paths |-> IF p \in job[j].paths
                                 THEN [fix[p] EXCEPT !.status = status] ELSE fix[p]]
    /\ End(j)
    /\ UNCHANGED <<log, target, scan, finding, queue, used, paid, calls, lock, ops, faults>>

Delivered(j) == DeliveryEnds(j, "delivered") /\ pr' = Recorded

NotDelivered(j) == DeliveryEnds(j, "failed") /\ UNCHANGED pr

(* The webhooks of the branch's pull request move its record, and no fix. *)
PullRequestMoves ==
    /\ Counted("pr")
    /\ \/ pr \in {"open"} /\ pr' \in {"closed", "merged"}
       \/ pr = "closed" /\ pr' = "open"
    /\ UNCHANGED <<log, target, scan, finding, fix, queue, used, paid, calls, lock, job>>

-----------------------------------------------------------------------------
(* Faults *)

(* A worker dies: its message is delivered again, its lock key stays, and   *)
(* the LLM may have answered already.                                       *)
Crash(j) ==
    /\ Fault("crash")
    /\ \/ /\ Scanning(j) \/ (job[j].kind = "deliver" /\ job[j].stage # "queued")
          /\ job' = [job EXCEPT ![j] = [@ EXCEPT !.stage = "queued", !.seen = Empty,
                                                 !.paths = {}]]
          /\ UNCHANGED <<queue, calls>>
       \/ /\ At(j, "generate", "claimed")
          /\ calls' \in {calls, calls + 1}
          /\ Dispatch(j)
          /\ End(j)
    /\ UNCHANGED <<log, target, scan, finding, fix, pr, used, paid, lock>>

(* The key of a dead scan runs out.  A scan that outlasts its own key is in *)
(* WorkflowScans, whose lock is the same.                                   *)
Expire ==
    /\ lock /\ \A j \in Jobs : ~Scanning(j)
    /\ lock' = FALSE
    /\ UNCHANGED <<log, target, scan, finding, fix, queue, pr, used, paid, calls, job, ops, faults>>

-----------------------------------------------------------------------------

Init ==
    /\ log \in {<<tree>> : tree \in Trees}
    /\ target = "on"
    /\ scan = [status |-> "none", tree |-> Empty]
    /\ finding = [p \in Paths |-> [r \in Rules |-> NoFinding]]
    /\ fix = [p \in Paths |-> NoFix]
    /\ queue = [p \in Paths |-> [named \in Evidence |-> 0]]
    /\ pr = "none"
    /\ used = 0 /\ paid = 0 /\ calls = 0
    /\ lock = FALSE
    /\ job = [j \in Jobs |-> NoJob]
    /\ ops = 0 /\ faults = 0

Request ==
    \/ Push \/ TriggerTargetScan \/ TriggerCodeScanningScans \/ UpdateTarget
    \/ DeleteTarget \/ SetFindingIgnored \/ GenerateTargetFixes
    \/ GenerateRuntimeFixes \/ DeliverTargetFixes \/ PullRequestMoves

ScanStep(j) ==
    \/ Acquire(j) \/ Busy(j) \/ Refused(j) \/ Fetch(j) \/ FetchFails(j)
    \/ NoTargets(j) \/ AnalysisSucceeds(j) \/ AnalysisFails(j) \/ ResolveStale(j)

GenerateStep(j) ==
    \/ QueueFileFixes(j) \/ QueueConflicts(j)
    \/ \E p \in Paths : \/ \E named \in Evidence : Claim(j, p, named)
                         \/ NotGenerated(j, p) \/ Generated(j, p)

DeliverStep(j) ==
    \/ Select(j) \/ DeliveryFetchFails(j) \/ ClaimDelivery(j)
    \/ Delivered(j) \/ NotDelivered(j)

Step(j) == ScanStep(j) \/ GenerateStep(j) \/ DeliverStep(j) \/ LosesTarget(j)

Next ==
    \/ Request
    \/ \E j \in Jobs : Step(j) \/ Crash(j)
    \/ \E p \in Paths : EvidenceSwept(p) \/ \E named \in Evidence : Skip(p, named)
    \/ Expire

Spec == Init /\ [][Next]_vars

-----------------------------------------------------------------------------
(* Properties *)

(* Every variable has its type. *)
TypeOK ==
    /\ log \in Seq(Trees) /\ Len(log) > 0
    /\ target \in {"on", "off", "removed"}
    /\ scan \in Scan
    /\ finding \in [Paths -> [Rules -> Finding]]
    /\ fix \in [Paths -> Fix]
    /\ queue \in [Paths -> [Evidence -> Nat]]
    /\ pr \in {"none", "open", "closed", "merged"}
    /\ {used, paid, calls} \subseteq Nat
    /\ lock \in BOOLEAN
    /\ job \in [Jobs -> Job]
    /\ {ops, faults} \subseteq Nat

(* Whatever was reported by the newest completed scan is shown: no other    *)
(* scan, retry or redelivery resolves it, and a violation that was resolved *)
(* once is opened again.                                                    *)
ReportedIsOpen ==
    scan.status = "completed" =>
        \A p \in Paths : \A r \in Violations(scan.tree, p) : finding[p][r].open

(* Every call to the LLM was charged, and none is made twice for a charge:  *)
(* not by a redelivered message, nor by two requests for one file.          *)
CallsArePaid == calls <= paid

WorksOn(j, p) == p \in job[j].paths /\ job[j].stage = "claimed"

(* As long as no worker has died, no message was lost and no measurement    *)
(* was swept before its task ran, a fix in flight has the message or the    *)
(* task that will take it out of flight, even when several requests passed  *)
(* the gate together.                                                       *)
InFlightHasTask ==
    faults = 0 => \A p \in Paths :
        InFlight(p) => \/ fix[p].status = "pending" /\ \E named \in Evidence : queue[p][named] > 0
                       \/ \E j \in Jobs : WorksOn(j, p)
=============================================================================
