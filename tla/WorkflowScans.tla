--------------------------- MODULE WorkflowScans ---------------------------
(***************************************************************************)
(* The CI-workflow scans of one branch of one repository: the stored       *)
(* WorkflowFile rows, their findings, the scan tasks that sync and analyse *)
(* them under a Redis lock, the routes, webhooks and beats that queue the  *)
(* tasks, and GitHub, whose branch moves meanwhile.                        *)
(*                                                                         *)
(* Every database transaction is one atomic step; the calls to GitHub, to  *)
(* the policy engine and to Redis fall between the steps.                  *)
(***************************************************************************)
EXTENDS Naturals, FiniteSets, Sequences

CONSTANTS
    Files,        \* workflow paths
    Contents,     \* what a file may contain
    Gone,         \* no content: the path is not on the branch
    Rules,        \* the enabled rules
    Reports,      \* the rules each content violates
    Tasks,        \* task slots: the scans that can exist at once
    Limit,        \* the month's allowance of analyses
    MaxRetries,   \* Celery's retry budget of a task
    MaxAuto,      \* MAX_AUTO_RETRY_ATTEMPTS
    Ops,          \* the kinds of event this instance allows
    MaxOps        \* how many of them may happen

OpKinds == {"push", "manual", "sync", "file", "release", "retry", "crash", "slow"}

Trees == [Files -> Contents \cup {Gone}]

Empty == [f \in Files |-> Gone]

ASSUME OpsAssumption == Ops \subseteq OpKinds /\ MaxOps \in Nat
ASSUME CountsAssumption == {Limit, MaxRetries, MaxAuto} \subseteq Nat
ASSUME ReportsAssumption == Reports \in [Contents -> SUBSET Rules]
ASSUME NamesAssumption == Gone \notin Contents /\ IsFiniteSet(Files)

VARIABLES
    log,       \* the branch's trees at GitHub, one per commit
    row,       \* row[f]: the WorkflowFile row of path f
    finding,   \* finding[f]: the findings of f, open or resolved
    done,      \* contents with a completed scan on this branch
    flaky,     \* flaky[f][c]: failed scans of f with content c, transient
    used,      \* analyses recorded in this billing period
    lock,      \* whether the Redis key of the scan lock exists
    task,      \* task[t]: the Celery task, or request, in slot t
    older,     \* older[t]: the running tasks whose resolved_at is older than t's
    ops        \* counted events so far

vars == <<log, row, finding, done, flaky, used, lock, task, older, ops>>

Tree == log[Len(log)]

-----------------------------------------------------------------------------
(* Rows, findings and tasks *)

(* content outlives the soft delete.  at: the commit that was read.          *)
(* beats: the running tasks whose resolved_at is older than fetched_at.      *)
Row == [live : BOOLEAN, content : Contents \cup {Gone}, at : Nat, beats : SUBSET Tasks]

NoRow == [live |-> FALSE, content |-> Gone, at |-> 0, beats |-> {}]

FindingState == {"none", "open", "resolved"}

(* what: the paths a scan is for, {} for a manual sync.  pinned, at, seen:  *)
(* whether the head was resolved, the commit that was read, and what it     *)
(* holds.  todo, fresh: paths to analyse, and analysed by this run; stale:  *)
(* the path whose findings the run has still to reconcile.                  *)
Task == [stage : {"idle", "queued", "stamped", "resolved", "read", "synced"},
         what : SUBSET Files, force : BOOLEAN, bill : BOOLEAN, tries : Nat,
         pinned : BOOLEAN, at : Nat, seen : Trees, budget : Nat,
         todo : SUBSET Files, fresh : SUBSET Files, stale : SUBSET Files]

NotRunning(stage, what, force, bill, tries) ==
    [stage |-> stage, what |-> what, force |-> force, bill |-> bill, tries |-> tries,
     pinned |-> FALSE, at |-> 0, seen |-> Empty, budget |-> 0,
     todo |-> {}, fresh |-> {}, stale |-> {}]

Idle == NotRunning("idle", {}, FALSE, FALSE, 0)

Scan(what, force, bill) == NotRunning("queued", what, force, bill, 0)

(* A message as the broker keeps it, delivered again from its beginning. *)
Requeued(t, tries) == NotRunning("queued", task[t].what, task[t].force, task[t].bill, tries)

Known == {f \in Files : row[f].live}

Open(f) == {r \in Rules : finding[f][r] = "open"}

Working(t) == task[t].stage \notin {"idle", "queued"}

Counted(kind) == kind \in Ops /\ ops < MaxOps /\ ops' = ops + 1

(* enforce_quota, on the number of files the database knows. *)
Allowed == LET n == Cardinality(Known) IN used + (IF n = 0 THEN 1 ELSE n) <= Limit

Enqueue(scan) ==
    \E t \in Tasks :
        /\ task[t].stage = "idle"
        /\ task' = [task EXCEPT ![t] = scan]
        /\ UNCHANGED <<row, finding, done, flaky, used, lock, older>>

(* The stamp of a task that is over is of no more use. *)
Forget(t) ==
    /\ older' = [u \in Tasks |-> IF u = t THEN {} ELSE older[u] \ {t}]
    /\ row' = [f \in Files |-> [row[f] EXCEPT !.beats = @ \ {t}]]

(* A run ends, and deletes the lock key, whoever has set it by now. *)
Leave(t, next) ==
    /\ lock' = FALSE
    /\ task' = [task EXCEPT ![t] = next]
    /\ Forget(t)

-----------------------------------------------------------------------------
(* What queues a scan *)

(* The branch moves; its push webhook queues a scan, unless it is lost. *)
Push ==
    /\ Counted("push")
    /\ \E tree \in Trees \ {Tree} : log' = Append(log, tree)
    /\ \/ Enqueue(Scan(Files, FALSE, TRUE))
       \/ UNCHANGED <<row, finding, done, flaky, used, lock, task, older>>

(* The dashboard's button and the Code Scanning workflow. *)
TriggerRepositoryScan ==
    /\ Counted("manual") /\ Allowed
    /\ \E force \in BOOLEAN : Enqueue(Scan(Files, force, TRUE))
    /\ UNCHANGED log

TriggerFileScan ==
    /\ Counted("file") /\ used < Limit
    /\ \E f \in Files, force \in BOOLEAN :
          row[f].content # Gone /\ Enqueue(Scan({f}, force, TRUE))
    /\ UNCHANGED log

SyncRepositoryWorkflows == Counted("sync") /\ Enqueue(Scan({}, FALSE, FALSE)) /\ UNCHANGED log

(* New rules were shipped: every repository is scanned again. *)
Release == Counted("release") /\ Enqueue(Scan(Files, TRUE, TRUE)) /\ UNCHANGED log

(* The nightly reconciliation, without end. *)
Nightly == Enqueue(Scan(Files, FALSE, TRUE)) /\ UNCHANGED <<log, ops>>

(* The hourly retry of failures that were the platform's own. *)
RetryTransient ==
    /\ Counted("retry")
    /\ \E f \in Files, c \in Contents : flaky[f][c] \in 1 .. MaxAuto - 1
    /\ Enqueue(Scan(Files, TRUE, FALSE))
    /\ UNCHANGED log

-----------------------------------------------------------------------------
(* One run of a scan task, or of the manual sync *)

LockNotChecked == TRUE

LockFree == ~lock

(* SET NX EX, then resolved_at is stamped. *)
Acquire(t) ==
    /\ task[t].stage = "queued" /\ LockFree
    /\ lock' = TRUE
    /\ task' = [task EXCEPT ![t].stage = "stamped"]
    /\ older' = [older EXCEPT ![t] = {u \in Tasks : Working(u)}]
    /\ UNCHANGED <<log, row, finding, done, flaky, used, ops>>

(* Another run holds the lock: Celery retries the task, up to its budget; *)
(* the manual sync answers 409.                                           *)
Busy(t) ==
    /\ task[t].stage = "queued" /\ ~LockFree
    /\ task' = [task EXCEPT ![t] =
                  IF task[t].what # {} /\ task[t].tries < MaxRetries
                    THEN Requeued(t, task[t].tries + 1) ELSE Idle]
    /\ UNCHANGED <<log, row, finding, done, flaky, used, lock, older, ops>>

(* The head is resolved to a commit, and what is read later is that commit. *)
ResolveHead(t) ==
    /\ task[t].stage = "stamped"
    /\ task' = [task EXCEPT ![t] = [@ EXCEPT !.stage = "resolved", !.pinned = TRUE,
                                             !.at = Len(log), !.seen = Tree]]
    /\ UNCHANGED <<log, row, finding, done, flaky, used, lock, older, ops>>

(* The head cannot be resolved: the branch name will be read. *)
ResolveFails(t) ==
    /\ task[t].stage = "stamped"
    /\ task' = [task EXCEPT ![t].stage = "resolved"]
    /\ UNCHANGED <<log, row, finding, done, flaky, used, lock, older, ops>>

(* What the branch name is answered with: the branch as it is now, or, when *)
(* GitHub does not find it, an empty listing.                               *)
Listings == {Tree, Empty}

Fetch(t) ==
    /\ task[t].stage = "resolved"
    /\ IF task[t].pinned
         THEN task' = [task EXCEPT ![t].stage = "read"]
         ELSE \E seen \in Listings :
                task' = [task EXCEPT ![t] = [@ EXCEPT !.stage = "read", !.at = Len(log),
                                                      !.seen = seen]]
    /\ UNCHANGED <<log, row, finding, done, flaky, used, lock, older, ops>>

(* The listing cannot be read: the lock is released and the task retried. *)
FetchFails(t) ==
    /\ task[t].stage = "resolved"
    /\ Leave(t, IF task[t].what # {} /\ task[t].tries < MaxRetries
                  THEN Requeued(t, task[t].tries + 1) ELSE Idle)
    /\ UNCHANGED <<log, finding, done, flaky, used, ops>>

AlwaysBelieved(t) == TRUE

(* An empty listing of a head that was not resolved says nothing. *)
Believed(t) == task[t].pinned \/ task[t].seen # Empty

RefUnresolved(t) ==
    /\ task[t].stage = "read" /\ ~Believed(t)
    /\ Leave(t, Idle)
    /\ UNCHANGED <<log, finding, done, flaky, used, ops>>

(* The rows a sync with a later resolved_at has written. *)
SkippedStale(t) == {f \in Files : task[t].seen[f] # Gone /\ t \in row[f].beats}

Missing(t) == IF SkippedStale(t) = {} THEN {f \in Files : task[t].seen[f] = Gone} ELSE {}

ResolvedNothing(f, rules) == finding[f]

Resolved(f, rules) ==
    [r \in Rules |-> IF finding[f][r] = "open" /\ r \in rules THEN "resolved" ELSE finding[f][r]]

FindingsKept(t) == finding' = finding

ReconcileMissing(t) ==
    finding' = [f \in Files |-> IF f \in Missing(t) THEN Resolved(f, Rules) ELSE finding[f]]

Remaining(t) == IF used < Limit THEN Limit - used ELSE 0

(* sync_workflow_files, from the load of the rows to its one commit: the    *)
(* files that were read are written, but for those a newer sync wrote; if   *)
(* there is none of these, the others are soft-deleted.  Then the run takes *)
(* stock of what it will analyse and of the allowance.                      *)
Sync(t) ==
    /\ task[t].stage = "read" /\ Believed(t)
    /\ row' = [f \in Files |->
                 IF f \in Missing(t) THEN [row[f] EXCEPT !.live = FALSE]
                 ELSE IF task[t].seen[f] = Gone \/ f \in SkippedStale(t) THEN row[f]
                 ELSE [live |-> TRUE, content |-> task[t].seen[f], at |-> task[t].at,
                       beats |-> older[t]]]
    /\ ReconcileMissing(t)
    /\ LET seen == [f \in Files |-> IF f \in SkippedStale(t) THEN row[f].content
                                                             ELSE task[t].seen[f]]
       IN task' = [task EXCEPT ![t] =
                     [@ EXCEPT !.stage = "synced", !.seen = seen, !.budget = Remaining(t),
                               !.todo = {f \in task[t].what : seen[f] # Gone}]]
    /\ UNCHANGED <<log, done, flaky, used, lock, older, ops>>

-----------------------------------------------------------------------------
(* Analysing the files of a run, one by one *)

Exhausted(t) == task[t].bill /\ task[t].budget = 0

Due(t, f) ==
    /\ task[t].stage = "synced" /\ task[t].stale = {}
    /\ f \in task[t].todo /\ ~Exhausted(t)

IsDuplicate(c) == c \in done

(* The scan row, its usage record and its outcome are one transaction. *)
Charge(t) == IF task[t].bill THEN 1 ELSE 0

Analysed(t, f) ==
    [task[t] EXCEPT !.todo = @ \ {f}, !.budget = IF task[t].bill THEN @ - 1 ELSE @]

SkipDuplicate(t, f) ==
    /\ Due(t, f) /\ ~task[t].force /\ IsDuplicate(task[t].seen[f])
    /\ task' = [task EXCEPT ![t].todo = @ \ {f}]
    /\ UNCHANGED <<log, row, finding, done, flaky, used, lock, older, ops>>

Analyses(t, f) == Due(t, f) /\ (task[t].force \/ ~IsDuplicate(task[t].seen[f]))

(* Findings are matched by fingerprint; one that recurs is opened again. *)
Upserted(f, rules) == [r \in Rules |-> IF r \in rules THEN "open" ELSE finding[f][r]]

AnalysisSucceeds(t, f) ==
    LET c == task[t].seen[f] IN
    /\ Analyses(t, f)
    /\ finding' = [finding EXCEPT ![f] = Upserted(f, Reports[c])]
    /\ done' = done \cup {c}
    /\ used' = used + Charge(t)
    /\ task' = [task EXCEPT ![t] = [Analysed(t, f) EXCEPT !.fresh = @ \cup {f}, !.stale = {f}]]
    /\ UNCHANGED <<log, row, flaky, lock, older, ops>>

(* The policy engine fails; the failure is transient, or the content's own. *)
AnalysisFails(t, f) ==
    /\ Analyses(t, f)
    /\ \/ UNCHANGED flaky
       \/ flaky' = [flaky EXCEPT ![f][task[t].seen[f]] = IF @ < MaxAuto THEN @ + 1 ELSE @]
    /\ used' = used + Charge(t)
    /\ task' = [task EXCEPT ![t] = Analysed(t, f)]
    /\ UNCHANGED <<log, row, finding, done, lock, older, ops>>

(* A transaction of its own: what the run did not report is resolved. *)
ResolveStale(t, f) ==
    /\ f \in task[t].stale
    /\ finding' = [finding EXCEPT ![f] = Resolved(f, Rules \ Reports[task[t].seen[f]])]
    /\ task' = [task EXCEPT ![t].stale = {}]
    /\ UNCHANGED <<log, row, done, flaky, used, lock, older, ops>>

Finish(t) ==
    /\ task[t].stage = "synced" /\ task[t].stale = {}
    /\ task[t].todo = {} \/ Exhausted(t)
    /\ Leave(t, Idle)
    /\ UNCHANGED <<log, finding, done, flaky, used, ops>>

-----------------------------------------------------------------------------
(* Faults *)

(* The worker of a run dies: its message is delivered again, its lock stays. *)
Crash(t) ==
    /\ Counted("crash") /\ Working(t)
    /\ task' = [task EXCEPT ![t] = IF @.what # {} THEN Requeued(t, @.tries) ELSE Idle]
    /\ Forget(t)
    /\ UNCHANGED <<log, finding, done, flaky, used, lock>>

KeyWithoutTtl == FALSE /\ UNCHANGED vars

(* The key's TTL runs out, after the death of the run that set it ... *)
Expire ==
    /\ lock /\ \A t \in Tasks : ~Working(t)
    /\ lock' = FALSE
    /\ UNCHANGED <<log, row, finding, done, flaky, used, task, older, ops>>

(* ... or under a run that takes longer. *)
ExpireEarly ==
    /\ Counted("slow")
    /\ lock /\ \E t \in Tasks : Working(t)
    /\ lock' = FALSE
    /\ UNCHANGED <<log, row, finding, done, flaky, used, task, older>>

-----------------------------------------------------------------------------

Init ==
    /\ log \in {<<tree>> : tree \in Trees}
    /\ row = [f \in Files |-> NoRow]
    /\ finding = [f \in Files |-> [r \in Rules |-> "none"]]
    /\ done = {}
    /\ flaky = [f \in Files |-> [c \in Contents |-> 0]]
    /\ used = 0
    /\ lock = FALSE
    /\ task = [t \in Tasks |-> Idle]
    /\ older = [t \in Tasks |-> {}]
    /\ ops = 0

Request ==
    \/ Push \/ TriggerRepositoryScan \/ TriggerFileScan \/ SyncRepositoryWorkflows
    \/ Release \/ Nightly \/ RetryTransient

Read(t) == ResolveHead(t) \/ Fetch(t)

Step(t) ==
    \/ Acquire(t) \/ Busy(t)
    \/ Read(t) \/ ResolveFails(t) \/ FetchFails(t) \/ RefUnresolved(t) \/ Sync(t)
    \/ \E f \in Files : \/ SkipDuplicate(t, f) \/ AnalysisSucceeds(t, f)
                        \/ AnalysisFails(t, f) \/ ResolveStale(t, f)
    \/ Finish(t)

Next ==
    \/ Request
    \/ \E t \in Tasks : Step(t) \/ Crash(t)
    \/ Expire \/ ExpireEarly

Spec == Init /\ [][Next]_vars

FetchPinned(t) == task[t].pinned /\ Fetch(t)

(* Workers run, keys expire, every night comes, and GitHub answers again. *)
Live ==
    /\ Spec
    /\ \A t \in Tasks : /\ WF_vars(Step(t))
                        /\ SF_vars(ResolveHead(t)) /\ SF_vars(FetchPinned(t))
    /\ WF_vars(Expire) /\ WF_vars(Nightly)

-----------------------------------------------------------------------------
(* Properties *)

(* Every variable has its type. *)
TypeOK ==
    /\ log \in Seq(Trees) /\ Len(log) > 0
    /\ row \in [Files -> Row]
    /\ finding \in [Files -> [Rules -> FindingState]]
    /\ done \in SUBSET Contents
    /\ flaky \in [Files -> [Contents -> 0 .. MaxAuto]]
    /\ used \in Nat
    /\ lock \in BOOLEAN
    /\ task \in [Tasks -> Task]
    /\ older \in [Tasks -> SUBSET Tasks]
    /\ ops \in Nat

(* While no run outlasts its lock, one run at most works on the repository, *)
(* and it holds the lock, through retries, failures and dead workers.       *)
OneRun == \A t \in Tasks : Working(t) => lock /\ \A u \in Tasks : Working(u) => t = u

(* What a run has analysed is what is stored, and the open findings are     *)
(* those of the stored content: nothing overtakes a run that is analysing.  *)
FreshAgrees ==
    \A t \in Tasks : \A f \in task[t].fresh \ task[t].stale :
        row[f].live /\ Open(f) = Reports[row[f].content]

(* A file that is not on the branch has no open findings, whatever scan was *)
(* under way when it went.                                                  *)
DeletedIsQuiet == \A f \in Files : ~row[f].live => Open(f) = {}

(* The stored files are always those of one commit. *)
Mirror == INSTANCE BranchMirror WITH
            mirror <- [f \in Files |-> IF row[f].live THEN row[f].content ELSE Gone]

MirrorsOneCommit == Mirror!Spec

(* The stored files catch up with the branch, whatever webhook was lost,    *)
(* whatever failed or died, and even if runs outlast their lock.            *)
CatchesUp ==
    <>[][FALSE]_log => <>[](\A f \in Files : Tree[f] = IF row[f].live THEN row[f].content ELSE Gone)
=============================================================================
