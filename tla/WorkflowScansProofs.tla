------------------------ MODULE WorkflowScansProofs ------------------------
(***************************************************************************)
(* Proofs about WorkflowScans.  As long as no run outlasts its lock ("slow" *)
(* is not among Ops), runs work one at a time, so nothing is ever skipped  *)
(* as older; what a run holds is then the tree of one commit, and, once it *)
(* has synced, what is stored.  The second part is about runs that overlap *)
(* too: the types, and that nothing stored or found was never there.       *)
(***************************************************************************)
EXTENDS WorkflowScans, TLAPS

Stages == {"idle", "queued", "stamped", "resolved", "read", "synced"}

(* A task that has no files under analysis. *)
Blank(a) == a.todo = {} /\ a.fresh = {} /\ a.stale = {}

(* A task that is not running. *)
Waiting(a) ==
    a \in Task /\ a.stage \in {"idle", "queued"} /\ a.pinned = FALSE /\ Blank(a)

(* What a running task has read is the tree of a commit. *)
ReadsCommit(t) ==
    task[t].pinned \/ (task[t].stage = "read" /\ task[t].seen # Empty) =>
        task[t].at \in DOMAIN log /\ task[t].seen = log[task[t].at]

(* The paths under analysis are on the branch, and stored as they were read. *)
HoldsFiles(t) ==
    /\ task[t].stage # "synced" => Blank(task[t])
    /\ \A f \in task[t].todo \cup task[t].fresh \cup task[t].stale : task[t].seen[f] # Gone
    /\ \A f, g \in task[t].stale : f = g

StoredAsRead(t) ==
    task[t].stage = "synced" =>
        \A f \in Files : task[t].seen[f] # Gone =>
            row[f].live /\ row[f].content = task[t].seen[f]

(* Findings agree with what was read, but for those still to be resolved. *)
Reported(t) ==
    /\ \A f \in task[t].fresh \ task[t].stale : Open(f) = Reports[task[t].seen[f]]
    /\ \A f \in task[t].stale : Reports[task[t].seen[f]] \subseteq Open(f)

TaskOK(t) == ReadsCommit(t) /\ HoldsFiles(t) /\ StoredAsRead(t) /\ Reported(t)

NoneOlder == older = [t \in Tasks |-> {}] /\ \A f \in Files : row[f].beats = {}

IInv ==
    /\ TypeOK /\ OneRun /\ NoneOlder /\ DeletedIsQuiet
    /\ \A t \in Tasks : TaskOK(t)

LogGrows == \A i \in DOMAIN log : i \in DOMAIN log' /\ log'[i] = log[i]

RowsAlike == \A f \in Files : row'[f].live = row[f].live /\ row'[f].content = row[f].content

-----------------------------------------------------------------------------
(* Records *)

LEMMA EmptyTree == Empty \in Trees
BY DEF Empty, Trees

LEMMA IdleWaits == Waiting(Idle)
BY EmptyTree DEF Idle, NotRunning, Waiting, Task, Blank

LEMMA ScanWaits ==
    ASSUME NEW what \in SUBSET Files, NEW force \in BOOLEAN, NEW bill \in BOOLEAN
    PROVE  Waiting(Scan(what, force, bill))
BY EmptyTree DEF Scan, NotRunning, Waiting, Task, Blank

LEMMA RequeuedWaits ==
    ASSUME TypeOK, NEW t \in Tasks, NEW tries \in Nat
    PROVE  Waiting(Requeued(t, tries))
<1>1. task[t] \in Task BY DEF TypeOK
<1>2. /\ task[t].what \in SUBSET Files /\ task[t].force \in BOOLEAN /\ task[t].bill \in BOOLEAN
  BY <1>1 DEF Task
<1> QED BY <1>2, EmptyTree DEF Requeued, NotRunning, Waiting, Task, Blank

Fields == {"stage", "what", "force", "bill", "tries", "pinned", "at", "seen", "budget",
           "todo", "fresh", "stale"}

LEMMA TaskFields ==
    ASSUME NEW a
    PROVE  a \in Task <=>
             /\ a = [x \in Fields |-> a[x]]
             /\ a.stage \in Stages /\ a.what \in SUBSET Files /\ a.force \in BOOLEAN
             /\ a.bill \in BOOLEAN /\ a.tries \in Nat /\ a.pinned \in BOOLEAN /\ a.at \in Nat
             /\ a.seen \in Trees /\ a.budget \in Nat /\ a.todo \in SUBSET Files
             /\ a.fresh \in SUBSET Files /\ a.stale \in SUBSET Files
BY DEF Task, Fields, Stages

ToStaged(a, s) == [a EXCEPT !.stage = s]

LEMMA Staged ==
    ASSUME NEW a \in Task, NEW s \in Stages
    PROVE  LET b == ToStaged(a, s)
           IN  /\ b \in Task
               /\ b.stage = s /\ b.pinned = a.pinned /\ b.at = a.at
               /\ b.seen = a.seen /\ b.budget = a.budget
               /\ b.todo = a.todo /\ b.fresh = a.fresh
               /\ b.stale = a.stale
<1> DEFINE b == ToStaged(a, s)
<1>1. a = [x \in Fields |-> a[x]] BY TaskFields
<1>2. b = [x \in Fields |-> CASE x = "stage" -> s [] OTHER -> a[x]]
  BY <1>1 DEF Fields, ToStaged
<1> HIDE DEF b
<1>3. /\ b.stage = s /\ b.what = a.what /\ b.force = a.force
      /\ b.bill = a.bill /\ b.tries = a.tries /\ b.pinned = a.pinned
      /\ b.at = a.at /\ b.seen = a.seen /\ b.budget = a.budget
      /\ b.todo = a.todo /\ b.fresh = a.fresh /\ b.stale = a.stale
  BY <1>2 DEF Fields
<1>4. b = [x \in Fields |-> b[x]] BY <1>2
<1>5. b \in Task BY <1>3, <1>4, TaskFields DEF Stages
<1> QED BY <1>3, <1>5 DEF b

ToPinned(a, at, seen) == [a EXCEPT !.stage = "resolved", !.pinned = TRUE, !.at = at, !.seen = seen]

LEMMA Pinned ==
    ASSUME NEW a \in Task, NEW at \in Nat, NEW seen \in Trees
    PROVE  LET b == ToPinned(a, at, seen)
           IN  /\ b \in Task
               /\ b.stage = "resolved" /\ b.at = at /\ b.seen = seen
               /\ b.budget = a.budget /\ b.todo = a.todo
               /\ b.fresh = a.fresh /\ b.stale = a.stale
<1> DEFINE b == ToPinned(a, at, seen)
<1>1. a = [x \in Fields |-> a[x]] BY TaskFields
<1>2. b = [x \in Fields |-> CASE x = "stage" -> "resolved" [] x = "pinned" -> TRUE
                              [] x = "at" -> at [] x = "seen" -> seen [] OTHER -> a[x]]
  BY <1>1 DEF Fields, ToPinned
<1> HIDE DEF b
<1>3. /\ b.stage = "resolved" /\ b.what = a.what /\ b.force = a.force
      /\ b.bill = a.bill /\ b.tries = a.tries /\ b.pinned = TRUE
      /\ b.at = at /\ b.seen = seen /\ b.budget = a.budget
      /\ b.todo = a.todo /\ b.fresh = a.fresh /\ b.stale = a.stale
  BY <1>2 DEF Fields
<1>4. b = [x \in Fields |-> b[x]] BY <1>2
<1>5. b \in Task BY <1>3, <1>4, TaskFields DEF Stages
<1> QED BY <1>3, <1>5 DEF b

ToFetched(a, at, seen) == [a EXCEPT !.stage = "read", !.at = at, !.seen = seen]

LEMMA Fetched ==
    ASSUME NEW a \in Task, NEW at \in Nat, NEW seen \in Trees
    PROVE  LET b == ToFetched(a, at, seen)
           IN  /\ b \in Task
               /\ b.stage = "read" /\ b.pinned = a.pinned /\ b.at = at
               /\ b.seen = seen /\ b.budget = a.budget /\ b.todo = a.todo
               /\ b.fresh = a.fresh /\ b.stale = a.stale
<1> DEFINE b == ToFetched(a, at, seen)
<1>1. a = [x \in Fields |-> a[x]] BY TaskFields
<1>2. b = [x \in Fields |-> CASE x = "stage" -> "read" [] x = "at" -> at
                              [] x = "seen" -> seen [] OTHER -> a[x]]
  BY <1>1 DEF Fields, ToFetched
<1> HIDE DEF b
<1>3. /\ b.stage = "read" /\ b.what = a.what /\ b.force = a.force
      /\ b.bill = a.bill /\ b.tries = a.tries /\ b.pinned = a.pinned
      /\ b.at = at /\ b.seen = seen /\ b.budget = a.budget
      /\ b.todo = a.todo /\ b.fresh = a.fresh /\ b.stale = a.stale
  BY <1>2 DEF Fields
<1>4. b = [x \in Fields |-> b[x]] BY <1>2
<1>5. b \in Task BY <1>3, <1>4, TaskFields DEF Stages
<1> QED BY <1>3, <1>5 DEF b

ToSynced(a, seen, n, S) == [a EXCEPT !.stage = "synced", !.seen = seen, !.budget = n, !.todo = S]

LEMMA Synced ==
    ASSUME NEW a \in Task, NEW seen \in Trees, NEW n \in Nat, NEW S \in SUBSET Files
    PROVE  LET b == ToSynced(a, seen, n, S)
           IN  /\ b \in Task /\ b.bill = a.bill
               /\ b.stage = "synced" /\ b.pinned = a.pinned /\ b.at = a.at
               /\ b.seen = seen /\ b.budget = n /\ b.todo = S
               /\ b.fresh = a.fresh /\ b.stale = a.stale
<1> DEFINE b == ToSynced(a, seen, n, S)
<1>1. a = [x \in Fields |-> a[x]] BY TaskFields
<1>2. b = [x \in Fields |-> CASE x = "stage" -> "synced" [] x = "seen" -> seen
                              [] x = "budget" -> n [] x = "todo" -> S [] OTHER -> a[x]]
  BY <1>1 DEF Fields, ToSynced
<1> HIDE DEF b
<1>3. /\ b.stage = "synced" /\ b.what = a.what /\ b.force = a.force
      /\ b.bill = a.bill /\ b.tries = a.tries /\ b.pinned = a.pinned
      /\ b.at = a.at /\ b.seen = seen /\ b.budget = n /\ b.todo = S
      /\ b.fresh = a.fresh /\ b.stale = a.stale
  BY <1>2 DEF Fields
<1>4. b = [x \in Fields |-> b[x]] BY <1>2
<1>5. b \in Task BY <1>3, <1>4, TaskFields DEF Stages
<1> QED BY <1>3, <1>5 DEF b

ToSkipped(a, S) == [a EXCEPT !.todo = S]

LEMMA Skipped ==
    ASSUME NEW a \in Task, NEW S \in SUBSET Files
    PROVE  LET b == ToSkipped(a, S)
           IN  /\ b \in Task /\ b.bill = a.bill
               /\ b.stage = a.stage /\ b.pinned = a.pinned /\ b.at = a.at
               /\ b.seen = a.seen /\ b.budget = a.budget /\ b.todo = S
               /\ b.fresh = a.fresh /\ b.stale = a.stale
<1> DEFINE b == ToSkipped(a, S)
<1>1. a = [x \in Fields |-> a[x]] BY TaskFields
<1>2. b = [x \in Fields |-> CASE x = "todo" -> S [] OTHER -> a[x]]
  BY <1>1 DEF Fields, ToSkipped
<1> HIDE DEF b
<1>3. /\ b.stage = a.stage /\ b.what = a.what /\ b.force = a.force
      /\ b.bill = a.bill /\ b.tries = a.tries /\ b.pinned = a.pinned
      /\ b.at = a.at /\ b.seen = a.seen /\ b.budget = a.budget
      /\ b.todo = S /\ b.fresh = a.fresh /\ b.stale = a.stale
  BY <1>2 DEF Fields
<1>4. b = [x \in Fields |-> b[x]] BY <1>2
<1>5. b \in Task BY <1>3, <1>4, TaskFields DEF Stages
<1> QED BY <1>3, <1>5 DEF b

ToSpent(a, S, n) == [a EXCEPT !.todo = S, !.budget = n]

LEMMA Spent ==
    ASSUME NEW a \in Task, NEW S \in SUBSET Files, NEW n \in Nat
    PROVE  LET b == ToSpent(a, S, n)
           IN  /\ b \in Task /\ b.bill = a.bill
               /\ b.stage = a.stage /\ b.pinned = a.pinned /\ b.at = a.at
               /\ b.seen = a.seen /\ b.budget = n /\ b.todo = S
               /\ b.fresh = a.fresh /\ b.stale = a.stale
<1> DEFINE b == ToSpent(a, S, n)
<1>1. a = [x \in Fields |-> a[x]] BY TaskFields
<1>2. b = [x \in Fields |-> CASE x = "todo" -> S [] x = "budget" -> n [] OTHER -> a[x]]
  BY <1>1 DEF Fields, ToSpent
<1> HIDE DEF b
<1>3. /\ b.stage = a.stage /\ b.what = a.what /\ b.force = a.force
      /\ b.bill = a.bill /\ b.tries = a.tries /\ b.pinned = a.pinned
      /\ b.at = a.at /\ b.seen = a.seen /\ b.budget = n /\ b.todo = S
      /\ b.fresh = a.fresh /\ b.stale = a.stale
  BY <1>2 DEF Fields
<1>4. b = [x \in Fields |-> b[x]] BY <1>2
<1>5. b \in Task BY <1>3, <1>4, TaskFields DEF Stages
<1> QED BY <1>3, <1>5 DEF b

ToFound(a, S, T) == [a EXCEPT !.fresh = S, !.stale = T]

LEMMA Found ==
    ASSUME NEW a \in Task, NEW S \in SUBSET Files, NEW T \in SUBSET Files
    PROVE  LET b == ToFound(a, S, T)
           IN  /\ b \in Task /\ b.bill = a.bill
               /\ b.stage = a.stage /\ b.pinned = a.pinned /\ b.at = a.at
               /\ b.seen = a.seen /\ b.budget = a.budget
               /\ b.todo = a.todo /\ b.fresh = S /\ b.stale = T
<1> DEFINE b == ToFound(a, S, T)
<1>1. a = [x \in Fields |-> a[x]] BY TaskFields
<1>2. b = [x \in Fields |-> CASE x = "fresh" -> S [] x = "stale" -> T [] OTHER -> a[x]]
  BY <1>1 DEF Fields, ToFound
<1> HIDE DEF b
<1>3. /\ b.stage = a.stage /\ b.what = a.what /\ b.force = a.force
      /\ b.bill = a.bill /\ b.tries = a.tries /\ b.pinned = a.pinned
      /\ b.at = a.at /\ b.seen = a.seen /\ b.budget = a.budget
      /\ b.todo = a.todo /\ b.fresh = S /\ b.stale = T
  BY <1>2 DEF Fields
<1>4. b = [x \in Fields |-> b[x]] BY <1>2
<1>5. b \in Task BY <1>3, <1>4, TaskFields DEF Stages
<1> QED BY <1>3, <1>5 DEF b

ToSettled(a, S) == [a EXCEPT !.stale = S]

LEMMA Settled ==
    ASSUME NEW a \in Task, NEW S \in SUBSET Files
    PROVE  LET b == ToSettled(a, S)
           IN  /\ b \in Task /\ b.bill = a.bill
               /\ b.stage = a.stage /\ b.pinned = a.pinned /\ b.at = a.at
               /\ b.seen = a.seen /\ b.budget = a.budget
               /\ b.todo = a.todo /\ b.fresh = a.fresh /\ b.stale = S
<1> DEFINE b == ToSettled(a, S)
<1>1. a = [x \in Fields |-> a[x]] BY TaskFields
<1>2. b = [x \in Fields |-> CASE x = "stale" -> S [] OTHER -> a[x]]
  BY <1>1 DEF Fields, ToSettled
<1> HIDE DEF b
<1>3. /\ b.stage = a.stage /\ b.what = a.what /\ b.force = a.force
      /\ b.bill = a.bill /\ b.tries = a.tries /\ b.pinned = a.pinned
      /\ b.at = a.at /\ b.seen = a.seen /\ b.budget = a.budget
      /\ b.todo = a.todo /\ b.fresh = a.fresh /\ b.stale = S
  BY <1>2 DEF Fields
<1>4. b = [x \in Fields |-> b[x]] BY <1>2
<1>5. b \in Task BY <1>3, <1>4, TaskFields DEF Stages
<1> QED BY <1>3, <1>5 DEF b

-----------------------------------------------------------------------------
(* What a step leaves in place *)

LEMMA SameTask ==
    ASSUME NEW t \in Tasks, TaskOK(t), task'[t] = task[t], LogGrows, RowsAlike,
           finding' = finding, task[t] \in Task
    PROVE  TaskOK(t)'
<1>1. ReadsCommit(t)' BY DEF TaskOK, ReadsCommit, LogGrows
<1>2. HoldsFiles(t)' BY DEF TaskOK, HoldsFiles, Blank
<1>3. StoredAsRead(t)' BY DEF TaskOK, StoredAsRead, RowsAlike
<1>4. Reported(t)' BY DEF TaskOK, Reported, Open
<1> QED BY <1>1, <1>2, <1>3, <1>4 DEF TaskOK

(* A task that is not running is not concerned with rows and findings. *)
LEMMA AtRest ==
    ASSUME NEW t \in Tasks, TaskOK(t), ~Working(t), task'[t] = task[t], LogGrows
    PROVE  TaskOK(t)'
<1>1. task[t].stage \in {"idle", "queued"} BY DEF Working
<1>2. Blank(task[t]) BY <1>1 DEF TaskOK, HoldsFiles
<1>3. ReadsCommit(t)' BY DEF TaskOK, ReadsCommit, LogGrows
<1>4. HoldsFiles(t)' BY <1>1, <1>2 DEF HoldsFiles, Blank
<1>5. StoredAsRead(t)' BY <1>1 DEF StoredAsRead
<1>6. Reported(t)' BY <1>2 DEF Reported, Blank
<1> QED BY <1>3, <1>4, <1>5, <1>6 DEF TaskOK

LEMMA Restarted ==
    ASSUME NEW t \in Tasks, Waiting(task'[t])
    PROVE  TaskOK(t)'
<1>1. ReadsCommit(t)' BY DEF Waiting, ReadsCommit
<1>2. HoldsFiles(t)' BY DEF Waiting, HoldsFiles, Blank
<1>3. StoredAsRead(t)' BY DEF Waiting, StoredAsRead
<1>4. Reported(t)' BY DEF Waiting, Reported, Blank
<1> QED BY <1>1, <1>2, <1>3, <1>4 DEF TaskOK

LEMMA QuietStays ==
    ASSUME DeletedIsQuiet, RowsAlike, finding' = finding
    PROVE  DeletedIsQuiet'
BY DEF DeletedIsQuiet, RowsAlike, Open

LEMMA ForgetFacts ==
    ASSUME IInv, NEW t \in Tasks, Forget(t)
    PROVE  /\ row' \in [Files -> Row] /\ RowsAlike
           /\ older' \in [Tasks -> SUBSET Tasks] /\ NoneOlder'
<1>1. row \in [Files -> Row] /\ older = [u \in Tasks |-> {}] /\ \A f \in Files : row[f].beats = {}
  BY DEF IInv, TypeOK, NoneOlder
<1>2. older' = [u \in Tasks |-> {}] BY <1>1 DEF Forget
<1>3. ASSUME NEW f \in Files
      PROVE  /\ row'[f] \in Row /\ row'[f].live = row[f].live
             /\ row'[f].content = row[f].content /\ row'[f].beats = {}
  <2>1. row'[f] = [row[f] EXCEPT !.beats = {} \ {t}] BY <1>1 DEF Forget
  <2>2. row[f] = [live |-> row[f].live, content |-> row[f].content, at |-> row[f].at,
                  beats |-> row[f].beats] /\ row[f] \in Row
    BY <1>1 DEF Row
  <2>3. row'[f] = [live |-> row[f].live, content |-> row[f].content, at |-> row[f].at,
                   beats |-> {}]
    BY <2>1, <2>2
  <2> QED BY <2>2, <2>3 DEF Row
<1>4. row' = [f \in Files |-> row'[f]] BY DEF Forget
<1> QED BY <1>2, <1>3, <1>4 DEF RowsAlike, NoneOlder

LEMMA OnlyOne ==
    ASSUME IInv, NEW t \in Tasks, NEW u \in Tasks, Working(t), u # t
    PROVE  ~Working(u)
BY DEF IInv, OneRun

-----------------------------------------------------------------------------
(* What queues a scan *)

LEMMA EnqueueSafe ==
    ASSUME IInv, NEW a, Waiting(a), Enqueue(a), LogGrows,
           log' \in Seq(Trees), Len(log') > 0, ops' \in Nat
    PROVE  IInv'
<1>1. PICK t \in Tasks : task[t].stage = "idle" /\ task' = [task EXCEPT ![t] = a]
  BY DEF Enqueue
<1>2. /\ task \in [Tasks -> Task] /\ UNCHANGED <<row, finding, done, flaky, used, lock, older>>
      /\ RowsAlike
  BY DEF IInv, TypeOK, Enqueue, RowsAlike
<1>3. task' \in [Tasks -> Task] /\ task'[t] = a /\ \A u \in Tasks \ {t} : task'[u] = task[u]
  BY <1>1, <1>2 DEF Waiting
<1>4. TypeOK' BY <1>2, <1>3 DEF IInv, TypeOK
<1>5. OneRun' BY <1>2, <1>3 DEF IInv, OneRun, Working, Waiting
<1>6. ASSUME NEW u \in Tasks PROVE TaskOK(u)'
  <2>1. CASE u = t BY <2>1, <1>3, Restarted
  <2>2. CASE u # t BY <2>2, <1>2, <1>3, SameTask DEF IInv
  <2> QED BY <2>1, <2>2
<1>7. NoneOlder' BY <1>2 DEF IInv, NoneOlder
<1>8. DeletedIsQuiet' BY <1>2, QuietStays DEF IInv
<1> QED BY <1>4, <1>5, <1>6, <1>7, <1>8 DEF IInv
LEMMA ScanSafe ==
    ASSUME IInv, NEW what \in SUBSET Files, NEW force \in BOOLEAN, NEW bill \in BOOLEAN,
           Enqueue(Scan(what, force, bill)), LogGrows,
           log' \in Seq(Trees), Len(log') > 0, ops' \in Nat
    PROVE  IInv'
<1> DEFINE a == Scan(what, force, bill)
<1>1. Waiting(a) /\ Enqueue(a) BY ScanWaits
<1> HIDE DEF a
<1> QED BY <1>1, EnqueueSafe

LEMMA Requests ==
    ASSUME IInv, Request
    PROVE  IInv'
<1>1. log \in Seq(Trees) /\ Len(log) > 0 /\ ops \in Nat BY DEF IInv, TypeOK
<1>2. log' = log => LogGrows BY DEF LogGrows
<1>3. CASE Push
  <2>1. PICK tree \in Trees : log' = Append(log, tree) BY <1>3 DEF Push
  <2>2. log' \in Seq(Trees) /\ Len(log') > 0 /\ LogGrows /\ ops' \in Nat
    BY <1>1, <1>3, <2>1 DEF LogGrows, Push, Counted
  <2>3. CASE Enqueue(Scan(Files, FALSE, TRUE)) BY <2>2, <2>3, ScanSafe
  <2>4. CASE UNCHANGED <<row, finding, done, flaky, used, lock, task, older>>
    <3>1. RowsAlike BY <2>4 DEF RowsAlike
    <3>2. \A t \in Tasks : task[t] \in Task BY DEF IInv, TypeOK
    <3>3. \A t \in Tasks : TaskOK(t)' BY <2>2, <2>4, <3>1, <3>2, SameTask DEF IInv
    <3>4. TypeOK' /\ OneRun' /\ NoneOlder'
      BY <2>2, <2>4 DEF IInv, TypeOK, OneRun, Working, NoneOlder
    <3> QED BY <2>4, <3>1, <3>3, <3>4, QuietStays DEF IInv
  <2> QED BY <1>3, <2>3, <2>4 DEF Push
<1>4. CASE TriggerRepositoryScan
  <2>1. PICK force \in BOOLEAN : Enqueue(Scan(Files, force, TRUE))
    BY <1>4 DEF TriggerRepositoryScan
  <2>2. log' = log /\ ops' \in Nat BY <1>1, <1>4 DEF TriggerRepositoryScan, Counted
  <2> QED BY <1>1, <1>2, <2>1, <2>2, ScanSafe
<1>5. CASE TriggerFileScan
  <2>1. PICK f \in Files, force \in BOOLEAN : Enqueue(Scan({f}, force, TRUE))
    BY <1>5 DEF TriggerFileScan
  <2>2. log' = log /\ ops' \in Nat BY <1>1, <1>5 DEF TriggerFileScan, Counted
  <2>3. {f} \in SUBSET Files OBVIOUS
  <2> QED BY <1>1, <1>2, <2>1, <2>2, <2>3, ScanSafe
<1>6. CASE SyncRepositoryWorkflows
  <2>1. Enqueue(Scan({}, FALSE, FALSE)) BY <1>6 DEF SyncRepositoryWorkflows
  <2>2. log' = log /\ ops' \in Nat BY <1>1, <1>6 DEF SyncRepositoryWorkflows, Counted
  <2> QED BY <1>1, <1>2, <2>1, <2>2, ScanSafe
<1>7. CASE Release
  <2>1. Enqueue(Scan(Files, TRUE, TRUE)) BY <1>7 DEF Release
  <2>2. log' = log /\ ops' \in Nat BY <1>1, <1>7 DEF Release, Counted
  <2> QED BY <1>1, <1>2, <2>1, <2>2, ScanSafe
<1>8. CASE Nightly
  <2>1. Enqueue(Scan(Files, FALSE, TRUE)) BY <1>8 DEF Nightly
  <2>2. log' = log /\ ops' \in Nat BY <1>1, <1>8 DEF Nightly
  <2> QED BY <1>1, <1>2, <2>1, <2>2, ScanSafe
<1>9. CASE RetryTransient
  <2>1. Enqueue(Scan(Files, TRUE, FALSE)) BY <1>9 DEF RetryTransient
  <2>2. log' = log /\ ops' \in Nat BY <1>1, <1>9 DEF RetryTransient, Counted
  <2> QED BY <1>1, <1>2, <2>1, <2>2, ScanSafe
<1> QED BY <1>3, <1>4, <1>5, <1>6, <1>7, <1>8, <1>9 DEF Request

-----------------------------------------------------------------------------
(* How a run begins and ends *)

(* A running task comes to an end, or starts again from its message. *)
LEMMA StopSafe ==
    ASSUME IInv, NEW t \in Tasks, NEW a, Waiting(a), Working(t), Forget(t),
           task' = [task EXCEPT ![t] = a], UNCHANGED <<log, finding, done, flaky, used>>,
           lock' \in BOOLEAN, ops' \in Nat
    PROVE  IInv'
<1>1. task \in [Tasks -> Task] BY DEF IInv, TypeOK
<1>2. task' \in [Tasks -> Task] /\ task'[t] = a /\ \A u \in Tasks \ {t} : task'[u] = task[u]
  BY <1>1 DEF Waiting
<1>3. RowsAlike /\ row' \in [Files -> Row] /\ older' \in [Tasks -> SUBSET Tasks] /\ NoneOlder'
  BY ForgetFacts
<1>4. TypeOK' BY <1>2, <1>3 DEF IInv, TypeOK
<1>5. \A u \in Tasks : ~Working(u)'
  BY <1>2, OnlyOne DEF Working, Waiting
<1>6. OneRun' BY <1>5 DEF OneRun
<1>7. LogGrows BY DEF LogGrows
<1>8. ASSUME NEW u \in Tasks PROVE TaskOK(u)'
  <2>1. CASE u = t BY <2>1, <1>2, Restarted
  <2>2. CASE u # t BY <2>2, <1>1, <1>2, <1>3, <1>7, SameTask DEF IInv
  <2> QED BY <2>1, <2>2
<1> QED BY <1>3, <1>4, <1>6, <1>8, QuietStays DEF IInv

(* A task is back among the queued ones without having run. *)
LEMMA BusySafe ==
    ASSUME IInv, NEW t \in Tasks, Busy(t)
    PROVE  IInv'
<1> DEFINE a == IF task[t].what # {} /\ task[t].tries < MaxRetries
                  THEN Requeued(t, task[t].tries + 1) ELSE Idle
<1>1. task \in [Tasks -> Task] /\ task[t].tries \in Nat /\ TypeOK BY DEF IInv, TypeOK, Task
<1>2. Waiting(a) BY <1>1, IdleWaits, RequeuedWaits
<1>3. task' = [task EXCEPT ![t] = a] BY DEF Busy
<1> HIDE DEF a
<1>4. task' \in [Tasks -> Task] /\ task'[t] = a /\ \A u \in Tasks \ {t} : task'[u] = task[u]
  BY <1>1, <1>2, <1>3 DEF Waiting
<1>5. UNCHANGED <<log, row, finding, done, flaky, used, lock, older, ops>> /\ LogGrows /\ RowsAlike
  BY DEF Busy, LogGrows, RowsAlike
<1>6. TypeOK' /\ NoneOlder' BY <1>4, <1>5 DEF IInv, TypeOK, NoneOlder
<1>7. OneRun' BY <1>2, <1>4, <1>5 DEF IInv, OneRun, Working, Waiting
<1>8. ASSUME NEW u \in Tasks PROVE TaskOK(u)'
  <2>1. CASE u = t BY <2>1, <1>2, <1>4, Restarted
  <2>2. CASE u # t BY <2>2, <1>1, <1>4, <1>5, SameTask DEF IInv
  <2> QED BY <2>1, <2>2
<1> QED BY <1>5, <1>6, <1>7, <1>8, QuietStays DEF IInv

(* A step of a task before it has synced touches the task alone. *)
LEMMA EarlySafe ==
    ASSUME IInv, NEW t \in Tasks, NEW b \in Task, task' = [task EXCEPT ![t] = b],
           task[t].stage \notin {"idle", "synced"},
           b.stage \in {"stamped", "resolved", "read"}, b.todo = task[t].todo,
           b.fresh = task[t].fresh, b.stale = task[t].stale, ReadsCommit(t)',
           UNCHANGED <<log, row, finding, done, flaky, used, ops, older>>, lock' = TRUE,
           \A u \in Tasks : Working(u) => u = t
    PROVE  IInv'
<1>1. task \in [Tasks -> Task] BY DEF IInv, TypeOK
<1>2. task' \in [Tasks -> Task] /\ task'[t] = b /\ \A u \in Tasks \ {t} : task'[u] = task[u]
  BY <1>1
<1>3. LogGrows /\ RowsAlike BY DEF LogGrows, RowsAlike
<1>4. TypeOK' /\ NoneOlder' BY <1>2 DEF IInv, TypeOK, NoneOlder
<1>5. OneRun' BY <1>2 DEF OneRun, Working
<1>6. Blank(task[t]) BY DEF IInv, TaskOK, HoldsFiles
<1>7. Blank(task'[t]) BY <1>2, <1>6 DEF Blank
<1>8. HoldsFiles(t)' BY <1>2, <1>7 DEF HoldsFiles, Blank
<1>9. StoredAsRead(t)' BY <1>2 DEF StoredAsRead
<1>10. Reported(t)' BY <1>7 DEF Reported, Blank
<1>11. ASSUME NEW u \in Tasks PROVE TaskOK(u)'
  <2>1. CASE u = t BY <2>1, <1>8, <1>9, <1>10 DEF TaskOK
  <2>2. CASE u # t BY <2>2, <1>1, <1>2, <1>3, SameTask DEF IInv
  <2> QED BY <2>1, <2>2
<1> QED BY <1>3, <1>4, <1>5, <1>11, QuietStays DEF IInv
LEMMA AcquireSafe ==
    ASSUME IInv, NEW t \in Tasks, Acquire(t)
    PROVE  IInv'
<1> DEFINE b == ToStaged(task[t], "stamped")
<1>1. task[t] \in Task /\ task \in [Tasks -> Task] /\ older = [u \in Tasks |-> {}]
  BY DEF IInv, TypeOK, NoneOlder
<1>2. \A u \in Tasks : ~Working(u) BY DEF Acquire, LockFree, IInv, OneRun
<1>3. older' = older BY <1>1, <1>2 DEF Acquire
<1>4. task' = [task EXCEPT ![t] = b] BY DEF Acquire, ToStaged
<1>5. /\ b \in Task /\ b.stage = "stamped" /\ b.pinned = task[t].pinned /\ b.at = task[t].at
      /\ b.seen = task[t].seen /\ b.todo = task[t].todo /\ b.fresh = task[t].fresh
      /\ b.stale = task[t].stale
  BY <1>1, Staged DEF Stages
<1> HIDE DEF b
<1>6. task'[t] = b BY <1>1, <1>4
<1>7. ReadsCommit(t)' BY <1>5, <1>6 DEF ReadsCommit, IInv, TaskOK, Acquire
<1> QED BY <1>2, <1>3, <1>4, <1>5, <1>7, EarlySafe DEF Acquire, IInv, TypeOK

LEMMA ReadSafe ==
    ASSUME IInv, NEW t \in Tasks, ResolveHead(t) \/ ResolveFails(t) \/ Fetch(t)
    PROVE  IInv'
<1>1. /\ task[t] \in Task /\ task \in [Tasks -> Task] /\ lock \in BOOLEAN
      /\ log \in Seq(Trees) /\ Len(log) > 0
  BY DEF IInv, TypeOK
<1>2. /\ task[t].stage \in {"stamped", "resolved"} /\ lock' = lock
      /\ UNCHANGED <<log, row, finding, done, flaky, used, ops, older>>
  BY DEF ResolveHead, ResolveFails, Fetch
<1>3. \A u \in Tasks : Working(u) => u = t BY <1>2, OnlyOne DEF Working
<1>0. lock' = TRUE BY <1>1, <1>2 DEF IInv, OneRun, Working
<1>4. Tree \in Trees /\ Len(log) \in Nat /\ Len(log) \in DOMAIN log /\ log[Len(log)] = Tree
  BY <1>1 DEF Tree
<1>5. ReadsCommit(t) BY DEF IInv, TaskOK
<1>6. CASE ResolveHead(t)
  <2> DEFINE a == task[t]
             head == Len(log)
             seen == Tree
             b == ToPinned(a, head, seen)
  <2>1. task' = [task EXCEPT ![t] = b] BY <1>6 DEF ResolveHead, ToPinned
  <2>2. a \in Task /\ head \in Nat /\ seen \in Trees BY <1>1, <1>4
  <2> HIDE DEF a, head, seen
  <2>3. /\ b \in Task /\ b.stage = "resolved" /\ b.at = head /\ b.seen = seen
        /\ b.todo = a.todo /\ b.fresh = a.fresh /\ b.stale = a.stale
    BY <2>2, Pinned
  <2> HIDE DEF b
  <2>4. task'[t] = b BY <1>1, <2>1
  <2>5. ReadsCommit(t)' BY <1>2, <1>4, <2>3, <2>4 DEF ReadsCommit, head, seen
  <2> QED BY <1>0, <1>2, <1>3, <2>1, <2>3, <2>5, EarlySafe DEF a
<1>7. CASE ResolveFails(t)
  <2> DEFINE b == ToStaged(task[t], "resolved")
  <2>1. task' = [task EXCEPT ![t] = b] BY <1>7 DEF ResolveFails, ToStaged
  <2>2. /\ b \in Task /\ b.stage = "resolved" /\ b.pinned = task[t].pinned
        /\ b.at = task[t].at /\ b.seen = task[t].seen
        /\ b.todo = task[t].todo /\ b.fresh = task[t].fresh /\ b.stale = task[t].stale
    BY <1>1, Staged DEF Stages
  <2> HIDE DEF b
  <2>3. task'[t] = b BY <1>1, <2>1
  <2>4. ReadsCommit(t)' BY <1>2, <1>5, <2>2, <2>3 DEF ReadsCommit
  <2> QED BY <1>0, <1>2, <1>3, <2>1, <2>2, <2>4, EarlySafe
<1>8. CASE Fetch(t) /\ task[t].pinned
  <2> DEFINE b == ToStaged(task[t], "read")
  <2>1. task' = [task EXCEPT ![t] = b] BY <1>8 DEF Fetch, ToStaged
  <2>2. /\ b \in Task /\ b.stage = "read" /\ b.pinned = task[t].pinned
        /\ b.at = task[t].at /\ b.seen = task[t].seen
        /\ b.todo = task[t].todo /\ b.fresh = task[t].fresh /\ b.stale = task[t].stale
    BY <1>1, Staged DEF Stages
  <2> HIDE DEF b
  <2>3. task'[t] = b BY <1>1, <2>1
  <2>4. ReadsCommit(t)' BY <1>2, <1>5, <1>8, <2>2, <2>3 DEF ReadsCommit
  <2> QED BY <1>0, <1>2, <1>3, <2>1, <2>2, <2>4, EarlySafe
<1>9. CASE Fetch(t) /\ ~task[t].pinned
  <2>1. PICK seen \in Listings :
           task' = [task EXCEPT ![t] = [task[t] EXCEPT !.stage = "read", !.at = Len(log),
                                                       !.seen = seen]]
    BY <1>9 DEF Fetch
  <2> DEFINE a == task[t]
             head == Len(log)
             b == ToFetched(a, head, seen)
  <2>2. task' = [task EXCEPT ![t] = b] BY <2>1 DEF ToFetched
  <2>3. a \in Task /\ head \in Nat /\ seen \in Trees BY <1>1, <1>4, EmptyTree DEF Listings
  <2> HIDE DEF a, head
  <2>4. /\ b \in Task /\ b.stage = "read" /\ b.pinned = a.pinned /\ b.at = head /\ b.seen = seen
        /\ b.todo = a.todo /\ b.fresh = a.fresh /\ b.stale = a.stale
    BY <2>3, Fetched
  <2> HIDE DEF b
  <2>5. task'[t] = b BY <1>1, <2>2
  <2>6. ReadsCommit(t)' BY <1>2, <1>4, <1>9, <2>4, <2>5 DEF ReadsCommit, Listings, a, head
  <2> QED BY <1>0, <1>2, <1>3, <2>2, <2>4, <2>6, EarlySafe DEF a
<1> QED BY <1>6, <1>7, <1>8, <1>9
-----------------------------------------------------------------------------
(* The sync, which makes the stored files those of one commit *)

LEMMA BelievedIsCommit ==
    ASSUME IInv, NEW t \in Tasks, task[t].stage = "read", Believed(t)
    PROVE  /\ task[t].at \in DOMAIN log /\ task[t].seen = log[task[t].at]
           /\ task[t].seen \in Trees /\ SkippedStale(t) = {}
           /\ Missing(t) = {f \in Files : task[t].seen[f] = Gone}
<1>1. ReadsCommit(t) /\ log \in Seq(Trees) /\ task[t] \in Task
  BY DEF IInv, TaskOK, TypeOK
<1>2. task[t].at \in DOMAIN log /\ task[t].seen = log[task[t].at]
  BY <1>1 DEF ReadsCommit, Believed
<1>3. SkippedStale(t) = {} BY DEF SkippedStale, IInv, NoneOlder
<1> QED BY <1>1, <1>2, <1>3 DEF Missing, Task

(* What the sync writes into a row. *)
LEMMA SyncedRow ==
    ASSUME IInv, NEW t \in Tasks, Sync(t), NEW f \in Files
    PROVE  /\ row'[f] \in Row /\ row'[f].beats = {}
           /\ task[t].seen[f] = Gone => ~row'[f].live
           /\ task[t].seen[f] # Gone => row'[f].live /\ row'[f].content = task[t].seen[f]
<1>1. /\ task[t].seen \in Trees /\ SkippedStale(t) = {}
      /\ Missing(t) = {g \in Files : task[t].seen[g] = Gone}
  BY BelievedIsCommit DEF Sync
<1>2. row[f] \in Row /\ row[f].beats = {} /\ older[t] = {} /\ task[t].at \in Nat
  BY DEF IInv, TypeOK, NoneOlder, Task
<1>3. CASE task[t].seen[f] = Gone
  <2>1. row'[f] = [row[f] EXCEPT !.live = FALSE] BY <1>1, <1>3 DEF Sync
  <2>2. row[f] = [live |-> row[f].live, content |-> row[f].content, at |-> row[f].at,
                  beats |-> row[f].beats]
    BY <1>2 DEF Row
  <2>3. row'[f] = [live |-> FALSE, content |-> row[f].content, at |-> row[f].at,
                   beats |-> row[f].beats]
    BY <2>1, <2>2
  <2> QED BY <1>2, <1>3, <2>3 DEF Row
<1>4. CASE task[t].seen[f] # Gone
  <2>1. row'[f] = [live |-> TRUE, content |-> task[t].seen[f], at |-> task[t].at, beats |-> {}]
    BY <1>1, <1>2, <1>4 DEF Sync
  <2>2. task[t].seen[f] \in Contents \cup {Gone} BY <1>1 DEF Trees
  <2> QED BY <1>2, <1>4, <2>1, <2>2 DEF Row
<1> QED BY <1>3, <1>4

LEMMA RemainingIsNat == ASSUME IInv, NEW t \in Tasks PROVE Remaining(t) \in Nat
BY CountsAssumption DEF IInv, TypeOK, Remaining

LEMMA SyncedTask ==
    ASSUME IInv, NEW t \in Tasks, Sync(t)
    PROVE  /\ task' \in [Tasks -> Task] /\ \A u \in Tasks \ {t} : task'[u] = task[u]
           /\ task'[t].stage = "synced" /\ task'[t].pinned = task[t].pinned
           /\ task'[t].at = task[t].at /\ task'[t].seen = task[t].seen
           /\ \A f \in task'[t].todo : task[t].seen[f] # Gone
           /\ task'[t].fresh = {} /\ task'[t].stale = {}
<1>1. /\ task[t].seen \in Trees /\ SkippedStale(t) = {} BY BelievedIsCommit DEF Sync
<1>2. task[t] \in Task /\ task \in [Tasks -> Task] BY DEF IInv, TypeOK
<1>3. Blank(task[t]) BY DEF IInv, TaskOK, HoldsFiles, Sync
<1>4. [f \in Files |-> IF f \in SkippedStale(t) THEN row[f].content ELSE task[t].seen[f]]
        = task[t].seen
  BY <1>1 DEF Trees
<1> DEFINE a == task[t]
           seen == task[t].seen
           n == Remaining(t)
           S == {f \in task[t].what : task[t].seen[f] # Gone}
           b == ToSynced(a, seen, n, S)
<1>5. task' = [task EXCEPT ![t] = b] BY <1>4 DEF Sync, ToSynced
<1>6. a \in Task /\ seen \in Trees /\ n \in Nat /\ S \in SUBSET Files
  BY <1>1, <1>2, RemainingIsNat DEF Task
<1> HIDE DEF a, seen, n, S
<1>7. /\ b \in Task /\ b.stage = "synced" /\ b.pinned = a.pinned /\ b.at = a.at /\ b.seen = seen
      /\ b.todo = S /\ b.fresh = a.fresh /\ b.stale = a.stale
  BY <1>6, Synced
<1> HIDE DEF b
<1>8. task' \in [Tasks -> Task] /\ task'[t] = b /\ \A u \in Tasks \ {t} : task'[u] = task[u]
  BY <1>2, <1>5, <1>7
<1> QED BY <1>3, <1>7, <1>8 DEF a, seen, S, Blank
LEMMA SyncSafe ==
    ASSUME IInv, NEW t \in Tasks, Sync(t)
    PROVE  IInv'
<1>1. /\ task' \in [Tasks -> Task] /\ \A u \in Tasks \ {t} : task'[u] = task[u]
      /\ task'[t].stage = "synced" /\ task'[t].pinned = task[t].pinned
      /\ task'[t].at = task[t].at /\ task'[t].seen = task[t].seen
      /\ \A f \in task'[t].todo : task[t].seen[f] # Gone
      /\ task'[t].fresh = {} /\ task'[t].stale = {}
  BY SyncedTask
<1>2. /\ task[t].at \in DOMAIN log /\ task[t].seen = log[task[t].at]
      /\ Missing(t) = {f \in Files : task[t].seen[f] = Gone}
  BY BelievedIsCommit DEF Sync
<1>3. /\ UNCHANGED <<log, done, flaky, used, lock, older, ops>>
      /\ finding' = [f \in Files |-> IF f \in Missing(t) THEN Resolved(f, Rules) ELSE finding[f]]
      /\ task[t].stage = "read" /\ row' = [f \in Files |-> row'[f]]
  BY DEF Sync, ReconcileMissing
<1>4. \A f \in Files : row'[f] \in Row BY SyncedRow
<1>5. finding' \in [Files -> [Rules -> FindingState]]
  BY <1>3 DEF Resolved, FindingState, IInv, TypeOK
<1>6. TypeOK'
  <2>1. row' \in [Files -> Row] BY <1>3, <1>4
  <2> QED BY <1>1, <1>3, <1>5, <2>1 DEF IInv, TypeOK
<1>7. OneRun' BY <1>1, <1>3 DEF IInv, OneRun, Working
<1>8. NoneOlder' BY <1>3, SyncedRow DEF IInv, NoneOlder
<1>9. DeletedIsQuiet'
  <2> SUFFICES ASSUME NEW f \in Files, ~row'[f].live PROVE Open(f)' = {}
    BY DEF DeletedIsQuiet
  <2>1. f \in Missing(t) BY <1>2, SyncedRow
  <2>2. finding'[f] = Resolved(f, Rules) BY <1>3, <2>1
  <2> QED BY <2>2 DEF Open, Resolved
<1>10. ASSUME NEW u \in Tasks PROVE TaskOK(u)'
  <2>1. CASE u = t
    <3>1. ReadsCommit(t)' BY <1>1, <1>2, <1>3 DEF ReadsCommit
    <3>2. HoldsFiles(t)' BY <1>1 DEF HoldsFiles
    <3>3. StoredAsRead(t)' BY <1>1, SyncedRow DEF StoredAsRead
    <3>4. Reported(t)' BY <1>1 DEF Reported
    <3> QED BY <2>1, <3>1, <3>2, <3>3, <3>4 DEF TaskOK
  <2>2. CASE u # t
    <3>1. ~Working(u) BY <1>3, <2>2, OnlyOne DEF Working
    <3>2. LogGrows BY <1>3 DEF LogGrows
    <3> QED BY <1>1, <2>2, <3>1, <3>2, AtRest DEF IInv
  <2> QED BY <2>1, <2>2
<1> QED BY <1>6, <1>7, <1>8, <1>9, <1>10 DEF IInv

-----------------------------------------------------------------------------
(* The analysis of one file *)

(* A step of a synced task that only moves on: rows and findings stay. *)
LEMMA MovesOn ==
    ASSUME IInv, NEW t \in Tasks, NEW b \in Task, task' = [task EXCEPT ![t] = b],
           b.stage = task[t].stage, b.pinned = task[t].pinned, b.at = task[t].at,
           b.seen = task[t].seen, b.todo \subseteq task[t].todo,
           b.fresh = task[t].fresh, b.stale = task[t].stale,
           UNCHANGED <<log, row, finding, done, lock, older, ops>>,
           flaky' \in [Files -> [Contents -> 0 .. MaxAuto]], used' \in Nat
    PROVE  IInv'
<1>1. task \in [Tasks -> Task] /\ task[t] \in Task BY DEF IInv, TypeOK
<1>2. task' \in [Tasks -> Task] /\ task'[t] = b /\ \A u \in Tasks \ {t} : task'[u] = task[u]
  BY <1>1
<1>3. LogGrows /\ RowsAlike BY DEF LogGrows, RowsAlike
<1>4. TypeOK' /\ NoneOlder' BY <1>2 DEF IInv, TypeOK, NoneOlder
<1>5. OneRun' BY <1>2 DEF IInv, OneRun, Working
<1>6. ASSUME NEW u \in Tasks PROVE TaskOK(u)'
  <2>1. CASE u = t
    <3>1. TaskOK(t) BY DEF IInv
    <3>2. ReadsCommit(t)' BY <1>2, <3>1 DEF TaskOK, ReadsCommit
    <3>3. HoldsFiles(t)' BY <1>2, <3>1 DEF TaskOK, HoldsFiles, Blank
    <3>4. StoredAsRead(t)' BY <1>2, <3>1 DEF TaskOK, StoredAsRead
    <3>5. Reported(t)' BY <1>2, <3>1 DEF TaskOK, Reported, Open
    <3> QED BY <2>1, <3>2, <3>3, <3>4, <3>5 DEF TaskOK
  <2>2. CASE u # t BY <2>2, <1>1, <1>2, <1>3, SameTask DEF IInv
  <2> QED BY <2>1, <2>2
<1> QED BY <1>3, <1>4, <1>5, <1>6, QuietStays DEF IInv

LEMMA SkipSafe ==
    ASSUME IInv, NEW t \in Tasks, NEW f \in Files, SkipDuplicate(t, f)
    PROVE  IInv'
<1> DEFINE a == task[t]
           S == task[t].todo \ {f}
           b == ToSkipped(a, S)
<1>1. task' = [task EXCEPT ![t] = b] BY DEF SkipDuplicate, ToSkipped
<1>2. a \in Task /\ S \in SUBSET Files /\ S \subseteq a.todo BY DEF IInv, TypeOK, Task
<1> HIDE DEF a, S
<1>3. /\ b \in Task /\ b.stage = a.stage /\ b.pinned = a.pinned /\ b.at = a.at /\ b.seen = a.seen
      /\ b.todo = S /\ b.fresh = a.fresh /\ b.stale = a.stale
  BY <1>2, Skipped
<1> HIDE DEF b
<1>4. /\ UNCHANGED <<log, row, finding, done, lock, older, ops>> /\ flaky' = flaky /\ used' = used
      /\ flaky \in [Files -> [Contents -> 0 .. MaxAuto]] /\ used \in Nat
  BY DEF SkipDuplicate, IInv, TypeOK
<1> QED BY <1>1, <1>2, <1>3, <1>4, MovesOn DEF a

(* What an analysis takes off the list and off the allowance. *)
LEMMA AnalysedFacts ==
    ASSUME IInv, NEW t \in Tasks, NEW f \in Files, Analyses(t, f)
    PROVE  LET b == Analysed(t, f)
           IN  /\ b \in Task /\ b.stage = task[t].stage /\ b.pinned = task[t].pinned
               /\ b.at = task[t].at /\ b.seen = task[t].seen /\ b.todo = task[t].todo \ {f}
               /\ b.fresh = task[t].fresh /\ b.stale = task[t].stale
<1>1. task[t] \in Task /\ task[t].budget \in Nat BY DEF IInv, TypeOK, Task
<1> DEFINE a == task[t]
           S == task[t].todo \ {f}
           n == IF task[t].bill THEN task[t].budget - 1 ELSE task[t].budget
           b == ToSpent(a, S, n)
<1>2. Analysed(t, f) = b BY DEF Analysed, ToSpent
<1>3. ~task[t].bill \/ task[t].budget # 0 BY DEF Analyses, Due, Exhausted
<1>4. n \in Nat BY <1>1, <1>3
<1>5. a \in Task /\ S \in SUBSET Files BY <1>1 DEF Task
<1> HIDE DEF a, S, n
<1>6. /\ b \in Task /\ b.stage = a.stage /\ b.pinned = a.pinned /\ b.at = a.at /\ b.seen = a.seen
      /\ b.todo = S /\ b.fresh = a.fresh /\ b.stale = a.stale
  BY <1>4, <1>5, Spent
<1> HIDE DEF b
<1> QED BY <1>2, <1>6 DEF a, S

LEMMA FailSafe ==
    ASSUME IInv, NEW t \in Tasks, NEW f \in Files, AnalysisFails(t, f)
    PROVE  IInv'
<1> DEFINE b == Analysed(t, f)
<1>1. task' = [task EXCEPT ![t] = b] /\ Analyses(t, f) BY DEF AnalysisFails
<1>2. /\ b \in Task /\ b.stage = task[t].stage /\ b.pinned = task[t].pinned
      /\ b.at = task[t].at /\ b.seen = task[t].seen /\ b.todo = task[t].todo \ {f}
      /\ b.fresh = task[t].fresh /\ b.stale = task[t].stale
  BY <1>1, AnalysedFacts
<1> HIDE DEF b
<1>3. UNCHANGED <<log, row, finding, done, lock, older, ops>> BY DEF AnalysisFails
<1>4. used' \in Nat BY DEF AnalysisFails, Charge, IInv, TypeOK
<1>5. flaky \in [Files -> [Contents -> 0 .. MaxAuto]] /\ MaxAuto \in Nat
  BY CountsAssumption DEF IInv, TypeOK
<1>6. task[t].seen[f] # Gone /\ task[t] \in Task
  BY <1>1 DEF Analyses, Due, IInv, TaskOK, HoldsFiles, TypeOK
<1>7. task[t].seen[f] \in Contents BY <1>6 DEF Task, Trees
<1>8. flaky' \in [Files -> [Contents -> 0 .. MaxAuto]]
  <2> DEFINE c == task[t].seen[f]
             n == IF flaky[f][c] < MaxAuto THEN flaky[f][c] + 1 ELSE flaky[f][c]
             counts == [flaky[f] EXCEPT ![c] = n]
  <2>1. flaky[f][c] \in 0 .. MaxAuto BY <1>5, <1>7
  <2>2. n \in 0 .. MaxAuto BY <1>5, <2>1
  <2>3. flaky' = flaky \/ flaky' = [flaky EXCEPT ![f] = counts] BY DEF AnalysisFails
  <2> HIDE DEF n
  <2>4. counts \in [Contents -> 0 .. MaxAuto] BY <1>5, <2>2
  <2> HIDE DEF counts
  <2> QED BY <1>5, <2>3, <2>4
<1> QED BY <1>1, <1>2, <1>3, <1>4, <1>8, MovesOn
(* The findings of an analysed file are opened, and not yet resolved. *)
LEMMA SucceedSafe ==
    ASSUME IInv, NEW t \in Tasks, NEW f \in Files, AnalysisSucceeds(t, f)
    PROVE  IInv'
<1> DEFINE c == task[t].seen[f]
<1>1. /\ Analyses(t, f) /\ task[t] \in Task /\ task \in [Tasks -> Task]
      /\ finding \in [Files -> [Rules -> FindingState]]
      /\ task[t].stage = "synced" /\ task[t].stale = {} /\ f \in task[t].todo /\ TaskOK(t)
      /\ UNCHANGED <<log, row, flaky, lock, older, ops>>
  BY DEF AnalysisSucceeds, Analyses, Due, IInv, TypeOK
<1>2. c # Gone /\ row[f].live BY <1>1 DEF TaskOK, HoldsFiles, StoredAsRead
<1>3. c \in Contents /\ Reports[c] \subseteq Rules
  BY <1>1, <1>2, ReportsAssumption DEF Task, Trees
<1>4. finding' = [finding EXCEPT ![f] = Upserted(f, Reports[c])] BY DEF AnalysisSucceeds
<1> DEFINE a == Analysed(t, f)
           S == task[t].fresh \cup {f}
           T == {f}
           b == ToFound(a, S, T)
<1>5. task' = [task EXCEPT ![t] = b]
  <2>1. a.fresh = task[t].fresh BY <1>1, AnalysedFacts
  <2>2. task' = [task EXCEPT ![t] = [a EXCEPT !.fresh = a.fresh \cup {f}, !.stale = {f}]]
    BY DEF AnalysisSucceeds
  <2> QED BY <2>1, <2>2 DEF ToFound
<1>6. /\ a \in Task /\ a.stage = task[t].stage /\ a.pinned = task[t].pinned
      /\ a.at = task[t].at /\ a.seen = task[t].seen /\ a.todo = task[t].todo \ {f}
  BY <1>1, AnalysedFacts
<1>7. S \in SUBSET Files /\ T \in SUBSET Files BY <1>1 DEF Task
<1> HIDE DEF a, S, T
<1>8. /\ b \in Task /\ b.stage = a.stage /\ b.pinned = a.pinned /\ b.at = a.at /\ b.seen = a.seen
      /\ b.todo = a.todo /\ b.fresh = S /\ b.stale = T
  BY <1>6, <1>7, Found
<1> HIDE DEF b
<1>9. task' \in [Tasks -> Task] /\ task'[t] = b /\ \A u \in Tasks \ {t} : task'[u] = task[u]
  BY <1>1, <1>5, <1>8
<1>10. /\ finding' \in [Files -> [Rules -> FindingState]]
       /\ \A g \in Files \ {f} : finding'[g] = finding[g]
       /\ Reports[c] \subseteq Open(f)'
  <2>1. Upserted(f, Reports[c]) \in [Rules -> FindingState]
    BY <1>1 DEF Upserted, FindingState
  <2>2. finding'[f] = Upserted(f, Reports[c]) BY <1>1, <1>4
  <2> QED BY <1>1, <1>3, <1>4, <2>1, <2>2 DEF Open, Upserted
<1>11. used' \in Nat /\ done' \in SUBSET Contents
  BY <1>3 DEF AnalysisSucceeds, Charge, IInv, TypeOK
<1>12. TypeOK' BY <1>1, <1>9, <1>10, <1>11 DEF IInv, TypeOK
<1>13. OneRun' BY <1>1, <1>6, <1>8, <1>9 DEF IInv, OneRun, Working
<1>14. NoneOlder' BY <1>1 DEF IInv, NoneOlder
<1>15. DeletedIsQuiet'
  <2> SUFFICES ASSUME NEW g \in Files, ~row[g].live PROVE Open(g)' = {}
    BY <1>1 DEF DeletedIsQuiet
  <2>1. g # f BY <1>2
  <2> QED BY <1>10, <2>1 DEF IInv, DeletedIsQuiet, Open
<1>16. ASSUME NEW u \in Tasks PROVE TaskOK(u)'
  <2>1. CASE u = t
    <3>1. ReadsCommit(t)' BY <1>1, <1>6, <1>8, <1>9 DEF TaskOK, ReadsCommit
    <3>2. HoldsFiles(t)' BY <1>1, <1>2, <1>6, <1>8, <1>9 DEF TaskOK, HoldsFiles, S, T
    <3>3. StoredAsRead(t)' BY <1>1, <1>6, <1>8, <1>9 DEF TaskOK, StoredAsRead
    <3>4. ASSUME NEW g \in task'[t].fresh \ task'[t].stale
          PROVE  Open(g)' = Reports[task'[t].seen[g]]
      <4>1. g \in Files \ {f} /\ g \in task[t].fresh \ task[t].stale
        BY <1>1, <1>7, <1>8, <1>9 DEF S, T
      <4>2. Open(g) = Reports[task[t].seen[g]] BY <1>1, <4>1 DEF TaskOK, Reported
      <4> QED BY <1>6, <1>8, <1>9, <1>10, <4>1, <4>2 DEF Open
    <3>5. \A g \in task'[t].stale : Reports[task'[t].seen[g]] \subseteq Open(g)'
      BY <1>6, <1>8, <1>9, <1>10 DEF T
    <3>6. Reported(t)' BY <3>4, <3>5 DEF Reported
    <3> QED BY <2>1, <3>1, <3>2, <3>3, <3>6 DEF TaskOK
  <2>2. CASE u # t
    <3>1. ~Working(u) BY <1>1, <2>2, OnlyOne DEF Working
    <3>2. LogGrows BY <1>1 DEF LogGrows
    <3> QED BY <1>9, <2>2, <3>1, <3>2, AtRest DEF IInv
  <2> QED BY <2>1, <2>2
<1> QED BY <1>12, <1>13, <1>14, <1>15, <1>16 DEF IInv

(* What the analysis did not report is resolved. *)
LEMMA ResolveStaleSafe ==
    ASSUME IInv, NEW t \in Tasks, NEW f \in Files, ResolveStale(t, f)
    PROVE  IInv'
<1> DEFINE c == task[t].seen[f]
<1>1. /\ f \in task[t].stale /\ task[t] \in Task /\ task \in [Tasks -> Task] /\ TaskOK(t)
      /\ finding \in [Files -> [Rules -> FindingState]]
      /\ UNCHANGED <<log, row, done, flaky, used, lock, older, ops>>
  BY DEF ResolveStale, IInv, TypeOK
<1>2. /\ task[t].stage = "synced" /\ c # Gone /\ \A g \in task[t].stale : g = f
      /\ Reports[c] \subseteq Open(f)
  BY <1>1 DEF TaskOK, HoldsFiles, Blank, Reported
<1>3. row[f].live BY <1>1, <1>2 DEF TaskOK, StoredAsRead
<1>4. c \in Contents /\ Reports[c] \subseteq Rules
  BY <1>1, <1>2, ReportsAssumption DEF Task, Trees
<1> DEFINE a == task[t]
           S == {}
           b == ToSettled(a, S)
<1>5. task' = [task EXCEPT ![t] = b] BY DEF ResolveStale, ToSettled
<1>6. a \in Task /\ S \in SUBSET Files BY <1>1
<1> HIDE DEF a, S
<1>7. /\ b \in Task /\ b.stage = a.stage /\ b.pinned = a.pinned /\ b.at = a.at /\ b.seen = a.seen
      /\ b.todo = a.todo /\ b.fresh = a.fresh /\ b.stale = S
  BY <1>6, Settled
<1> HIDE DEF b
<1>8. task' \in [Tasks -> Task] /\ task'[t] = b /\ \A u \in Tasks \ {t} : task'[u] = task[u]
  BY <1>1, <1>5, <1>7
<1>9. /\ finding' \in [Files -> [Rules -> FindingState]]
      /\ \A g \in Files \ {f} : finding'[g] = finding[g]
      /\ Open(f)' = Reports[c]
  <2>1. Resolved(f, Rules \ Reports[c]) \in [Rules -> FindingState]
    BY <1>1 DEF Resolved, FindingState
  <2>2. finding'[f] = Resolved(f, Rules \ Reports[c]) BY <1>1 DEF ResolveStale
  <2>3. Open(f)' = {r \in Rules : Resolved(f, Rules \ Reports[c])[r] = "open"} BY <2>2 DEF Open
  <2>4. \A r \in Rules : Resolved(f, Rules \ Reports[c])[r] = "open"
                              <=> r \in Open(f) \cap Reports[c]
    BY DEF Resolved, Open
  <2>5. Open(f)' = Reports[c] BY <1>2, <1>4, <2>3, <2>4
  <2> QED BY <1>1, <2>1, <2>5 DEF ResolveStale
<1>10. TypeOK' BY <1>1, <1>8, <1>9 DEF IInv, TypeOK
<1>11. OneRun' BY <1>1, <1>7, <1>8 DEF IInv, OneRun, Working, a
<1>12. NoneOlder' BY <1>1 DEF IInv, NoneOlder
<1>13. DeletedIsQuiet'
  <2> SUFFICES ASSUME NEW g \in Files, ~row[g].live PROVE Open(g)' = {}
    BY <1>1 DEF DeletedIsQuiet
  <2>1. g # f BY <1>3
  <2> QED BY <1>9, <2>1 DEF IInv, DeletedIsQuiet, Open
<1>14. ASSUME NEW u \in Tasks PROVE TaskOK(u)'
  <2>1. CASE u = t
    <3>1. ReadsCommit(t)' BY <1>1, <1>7, <1>8 DEF TaskOK, ReadsCommit, a
    <3>2. HoldsFiles(t)' BY <1>1, <1>2, <1>7, <1>8 DEF TaskOK, HoldsFiles, a, S
    <3>3. StoredAsRead(t)' BY <1>1, <1>7, <1>8 DEF TaskOK, StoredAsRead, a
    <3>4. ASSUME NEW g \in task'[t].fresh \ task'[t].stale
          PROVE  Open(g)' = Reports[task'[t].seen[g]]
      <4>1. CASE g = f BY <1>7, <1>8, <1>9, <4>1 DEF a
      <4>2. CASE g # f
        <5>1. g \in Files \ {f} /\ g \in task[t].fresh \ task[t].stale
          BY <1>1, <1>2, <1>7, <1>8, <4>2 DEF a, Task
        <5>2. Open(g) = Reports[task[t].seen[g]] BY <1>1, <5>1 DEF TaskOK, Reported
        <5> QED BY <1>7, <1>8, <1>9, <5>1, <5>2 DEF Open, a
      <4> QED BY <4>1, <4>2
    <3>5. Reported(t)' BY <1>7, <1>8, <3>4 DEF Reported, S
    <3> QED BY <2>1, <3>1, <3>2, <3>3, <3>5 DEF TaskOK
  <2>2. CASE u # t
    <3>1. ~Working(u) BY <1>2, <2>2, OnlyOne DEF Working
    <3>2. LogGrows BY <1>1 DEF LogGrows
    <3> QED BY <1>8, <2>2, <3>1, <3>2, AtRest DEF IInv
  <2> QED BY <2>1, <2>2
<1> QED BY <1>10, <1>11, <1>12, <1>13, <1>14 DEF IInv
LEMMA LeaveSafe ==
    ASSUME IInv, NEW t \in Tasks, FetchFails(t) \/ RefUnresolved(t) \/ Finish(t)
    PROVE  IInv'
<1> DEFINE retry == IF task[t].what # {} /\ task[t].tries < MaxRetries
                      THEN Requeued(t, task[t].tries + 1) ELSE Idle
<1>1. /\ TypeOK /\ ops \in Nat /\ ops' = ops /\ Working(t)
      /\ UNCHANGED <<log, finding, done, flaky, used>> /\ task[t].tries \in Nat
  BY DEF IInv, TypeOK, Task, FetchFails, RefUnresolved, Finish, Working
<1>2. Waiting(retry) /\ Waiting(Idle) BY <1>1, RequeuedWaits, IdleWaits
<1>3. Leave(t, retry) \/ Leave(t, Idle) BY DEF FetchFails, RefUnresolved, Finish
<1> HIDE DEF retry
<1>4. PICK a : Waiting(a) /\ Leave(t, a) BY <1>2, <1>3
<1> QED BY <1>1, <1>4, StopSafe DEF Leave

LEMMA CrashSafe ==
    ASSUME IInv, NEW t \in Tasks, Crash(t)
    PROVE  IInv'
<1> DEFINE a == IF task[t].what # {} THEN Requeued(t, task[t].tries) ELSE Idle
<1>1. /\ TypeOK /\ ops' \in Nat /\ Working(t) /\ lock' \in BOOLEAN /\ Forget(t)
      /\ UNCHANGED <<log, finding, done, flaky, used>> /\ task[t].tries \in Nat
  BY DEF IInv, TypeOK, Task, Crash, Counted
<1>2. Waiting(a) BY <1>1, RequeuedWaits, IdleWaits
<1>3. task' = [task EXCEPT ![t] = a] BY DEF Crash
<1> HIDE DEF a
<1> QED BY <1>1, <1>2, <1>3, StopSafe

LEMMA ExpireSafe ==
    ASSUME IInv, Expire
    PROVE  IInv'
<1>1. /\ UNCHANGED <<log, row, finding, done, flaky, used, task, older, ops>>
      /\ lock' = FALSE /\ \A t \in Tasks : ~Working(t)
  BY DEF Expire
<1>2. LogGrows /\ RowsAlike /\ \A t \in Tasks : task[t] \in Task
  BY <1>1 DEF LogGrows, RowsAlike, IInv, TypeOK
<1>3. \A t \in Tasks : TaskOK(t)' BY <1>1, <1>2, SameTask DEF IInv
<1>4. TypeOK' /\ OneRun' /\ NoneOlder'
  BY <1>1 DEF IInv, TypeOK, OneRun, Working, NoneOlder
<1> QED BY <1>1, <1>2, <1>3, <1>4, QuietStays DEF IInv

-----------------------------------------------------------------------------
(* The theorems *)

LEMMA Start == ASSUME Init PROVE IInv
<1>1. TypeOK
  <2>1. log \in Seq(Trees) /\ Len(log) > 0
    <3>1. PICK tree \in Trees : log = <<tree>> BY DEF Init
    <3> QED BY <3>1
  <2>2. row \in [Files -> Row] BY DEF Init, NoRow, Row
  <2>3. finding \in [Files -> [Rules -> FindingState]] BY DEF Init, FindingState
  <2>4. flaky \in [Files -> [Contents -> 0 .. MaxAuto]] BY CountsAssumption DEF Init
  <2>5. task \in [Tasks -> Task] BY IdleWaits DEF Init, Waiting
  <2> QED BY <2>1, <2>2, <2>3, <2>4, <2>5 DEF Init, TypeOK
<1>2. OneRun BY DEF Init, OneRun, Working, Idle, NotRunning
<1>3. NoneOlder BY DEF Init, NoneOlder, NoRow
<1>4. DeletedIsQuiet BY DEF Init, DeletedIsQuiet, Open
<1>5. ASSUME NEW t \in Tasks PROVE TaskOK(t)
  <2>1. Waiting(task[t]) BY IdleWaits DEF Init
  <2>2. ReadsCommit(t) BY <2>1 DEF Waiting, ReadsCommit
  <2>3. HoldsFiles(t) BY <2>1 DEF Waiting, HoldsFiles, Blank
  <2>4. StoredAsRead(t) BY <2>1 DEF Waiting, StoredAsRead
  <2>5. Reported(t) BY <2>1 DEF Waiting, Reported, Blank
  <2> QED BY <2>2, <2>3, <2>4, <2>5 DEF TaskOK
<1> QED BY <1>1, <1>2, <1>3, <1>4, <1>5 DEF IInv

LEMMA Inductive ==
    ASSUME "slow" \notin Ops, IInv, [Next]_vars
    PROVE  IInv'
<1>1. CASE Request BY <1>1, Requests
<1>2. ASSUME NEW t \in Tasks, Step(t) PROVE IInv'
  <2>1. CASE Acquire(t) BY <2>1, AcquireSafe
  <2>2. CASE Busy(t) BY <2>2, BusySafe
  <2>3. CASE Read(t) \/ ResolveFails(t) BY <2>3, ReadSafe DEF Read
  <2>4. CASE FetchFails(t) \/ RefUnresolved(t) \/ Finish(t) BY <2>4, LeaveSafe
  <2>5. CASE Sync(t) BY <2>5, SyncSafe
  <2>6. ASSUME NEW f \in Files,
               \/ SkipDuplicate(t, f) \/ AnalysisSucceeds(t, f)
               \/ AnalysisFails(t, f) \/ ResolveStale(t, f)
        PROVE  IInv'
    BY <2>6, SkipSafe, SucceedSafe, FailSafe, ResolveStaleSafe
  <2> QED BY <1>2, <2>1, <2>2, <2>3, <2>4, <2>5, <2>6 DEF Step
<1>3. ASSUME NEW t \in Tasks, Crash(t) PROVE IInv' BY <1>3, CrashSafe
<1>4. CASE Expire BY <1>4, ExpireSafe
<1>5. CASE ExpireEarly BY <1>5 DEF ExpireEarly, Counted
<1>6. CASE UNCHANGED vars
  <2>1. LogGrows /\ RowsAlike /\ \A t \in Tasks : task[t] \in Task
    BY <1>6 DEF vars, LogGrows, RowsAlike, IInv, TypeOK
  <2>2. \A t \in Tasks : TaskOK(t)' BY <1>6, <2>1, SameTask DEF IInv, vars
  <2>3. TypeOK' /\ OneRun' /\ NoneOlder'
    BY <1>6 DEF vars, IInv, TypeOK, OneRun, Working, NoneOlder
  <2> QED BY <1>6, <2>1, <2>2, <2>3, QuietStays DEF IInv, vars
<1> QED BY <1>1, <1>2, <1>3, <1>4, <1>5, <1>6 DEF Next

LEMMA Invariant == ASSUME "slow" \notin Ops PROVE Spec => []IInv
BY Start, Inductive, PTL DEF Spec

(* One run at most works on the repository, and it holds the lock, whatever  *)
(* is retried, fails or dies.                                                *)
THEOREM OneAtATime == ASSUME "slow" \notin Ops PROVE Spec => []OneRun
<1>1. IInv => OneRun BY DEF IInv
<1> QED BY <1>1, Invariant, PTL

(* A file that is not on the branch has no open findings, whichever scan was *)
(* analysing it when it went.                                                *)
THEOREM GoneHasNoFindings == ASSUME "slow" \notin Ops PROVE Spec => []DeletedIsQuiet
<1>1. IInv => DeletedIsQuiet BY DEF IInv
<1> QED BY <1>1, Invariant, PTL

(* What a run has analysed is stored, and the open findings are those of the *)
(* stored content.                                                           *)
THEOREM FindingsAreCurrent == ASSUME "slow" \notin Ops PROVE Spec => []FreshAgrees
<1>1. ASSUME IInv PROVE FreshAgrees
  <2> SUFFICES ASSUME NEW t \in Tasks, NEW f \in task[t].fresh \ task[t].stale
               PROVE  row[f].live /\ Open(f) = Reports[row[f].content]
    BY DEF FreshAgrees
  <2>1. TaskOK(t) /\ f \in Files BY <1>1 DEF IInv, TypeOK, Task
  <2>2. task[t].stage = "synced" BY <2>1 DEF TaskOK, HoldsFiles, Blank
  <2>3. task[t].seen[f] # Gone BY <2>1 DEF TaskOK, HoldsFiles
  <2>4. row[f].live /\ row[f].content = task[t].seen[f]
    BY <2>1, <2>2, <2>3 DEF TaskOK, StoredAsRead
  <2> QED BY <2>1, <2>4 DEF TaskOK, Reported
<1> QED BY <1>1, Invariant, PTL

mirror == [f \in Files |-> IF row[f].live THEN row[f].content ELSE Gone]

LEMMA MirrorStays == ASSUME RowsAlike PROVE mirror' = mirror
BY DEF RowsAlike, mirror

(* Every step leaves the stored files as they are, or makes them those of a *)
(* commit.                                                                   *)
LEMMA MirrorStep ==
    ASSUME "slow" \notin Ops, IInv, [Next]_vars
    PROVE  \/ log' = log /\ mirror' = mirror
           \/ \E tree \in Trees : log' = Append(log, tree) /\ mirror' = mirror
           \/ \E k \in DOMAIN log : mirror' = log[k] /\ log' = log
<1>1. CASE Request
  <2>1. RowsAlike
    BY <1>1 DEF Request, Push, TriggerRepositoryScan, TriggerFileScan, SyncRepositoryWorkflows,
                Release, Nightly, RetryTransient, Enqueue, RowsAlike
  <2>2. log' = log \/ \E tree \in Trees : log' = Append(log, tree)
    BY <1>1 DEF Request, Push, TriggerRepositoryScan, TriggerFileScan, SyncRepositoryWorkflows,
                Release, Nightly, RetryTransient
  <2> QED BY <2>1, <2>2, MirrorStays
<1>2. ASSUME NEW t \in Tasks, Sync(t)
      PROVE  \E k \in DOMAIN log : mirror' = log[k] /\ log' = log
  <2>1. task[t].at \in DOMAIN log /\ task[t].seen = log[task[t].at] /\ task[t].seen \in Trees
    BY <1>2, BelievedIsCommit DEF Sync
  <2>2. ASSUME NEW f \in Files PROVE mirror'[f] = task[t].seen[f]
    BY <1>2, SyncedRow DEF mirror
  <2>3. mirror' = task[t].seen BY <2>1, <2>2 DEF mirror, Trees
  <2> QED BY <1>2, <2>1, <2>3 DEF Sync
<1>3. ASSUME NEW t \in Tasks, Step(t), ~Sync(t) PROVE log' = log /\ RowsAlike
  <2>1. CASE FetchFails(t) \/ RefUnresolved(t) \/ Finish(t)
    <3>1. Forget(t) /\ log' = log BY <2>1 DEF FetchFails, RefUnresolved, Finish, Leave
    <3> QED BY <3>1, ForgetFacts
  <2>2. CASE \E f \in Files : \/ SkipDuplicate(t, f) \/ AnalysisSucceeds(t, f)
                              \/ AnalysisFails(t, f) \/ ResolveStale(t, f)
    BY <2>2 DEF SkipDuplicate, AnalysisSucceeds, AnalysisFails, ResolveStale, RowsAlike
  <2>3. CASE Acquire(t) \/ Busy(t) \/ Read(t) \/ ResolveFails(t)
    BY <2>3 DEF Acquire, Busy, Read, ResolveHead, ResolveFails, Fetch, RowsAlike
  <2> QED BY <1>3, <2>1, <2>2, <2>3 DEF Step
<1>4. ASSUME NEW t \in Tasks, Crash(t) PROVE log' = log /\ RowsAlike
  <2>1. Forget(t) /\ log' = log BY <1>4 DEF Crash
  <2> QED BY <2>1, ForgetFacts
<1>5. CASE Expire \/ ExpireEarly \/ UNCHANGED vars
  BY <1>5, MirrorStays DEF Expire, ExpireEarly, vars, RowsAlike
<1> QED BY <1>1, <1>2, <1>3, <1>4, <1>5, MirrorStays DEF Next

(* The stored files are always those of one commit: the scans implement      *)
(* BranchMirror.                                                             *)
THEOREM MirrorsCommits == ASSUME "slow" \notin Ops PROVE Spec => MirrorsOneCommit
<1>1. ASSUME Init PROVE Mirror!Init
  BY <1>1 DEF Init, Mirror!Init, Empty, NoRow
<1>2. ASSUME IInv, [Next]_vars PROVE [Mirror!Next]_<<log, mirror>>
  BY <1>2, MirrorStep DEF Mirror!Next, Mirror!Push, Mirror!Sync, mirror
<1> QED BY <1>1, <1>2, Invariant, PTL DEF Spec, MirrorsOneCommit, Mirror!Spec, mirror
-----------------------------------------------------------------------------
(***************************************************************************)
(* What remains true when runs outlast their lock.  Runs then overlap, an  *)
(* older one may skip what a newer one wrote, and the stored files may be  *)
(* a mixture of commits; but each of them, and each finding, is of a       *)
(* content that its path had in one commit of the branch.                  *)
(***************************************************************************)

Had(f, c) == \E k \in DOMAIN log : log[k][f] = c

(* What is stored of a path is what the commit it names holds there, and a  *)
(* row that is live holds something.                                        *)
StoredIsReal ==
    \A f \in Files :
        /\ row[f].live => row[f].content # Gone
        /\ row[f].content # Gone => row[f].at \in DOMAIN log /\ log[row[f].at][f] = row[f].content

(* No finding is invented: its rule is violated by a content that its path   *)
(* had in some commit.                                                       *)
FindingsAreReal ==
    \A f \in Files, r \in Rules : finding[f][r] # "none" =>
        \E c \in Contents : Had(f, c) /\ r \in Reports[c]

(* A run that has synced holds contents of its paths, not always of one      *)
(* commit: what a newer run wrote it takes from the row.                     *)
ReadsReal(t) ==
    IF task[t].stage = "synced"
      THEN \A f \in Files : task[t].seen[f] # Gone => Had(f, task[t].seen[f])
      ELSE ReadsCommit(t)

RealTask(t) == ReadsReal(t) /\ HoldsFiles(t)

AnyInv == TypeOK /\ StoredIsReal /\ FindingsAreReal /\ \A t \in Tasks : RealTask(t)

RowsKept ==
    /\ row' \in [Files -> Row]
    /\ \A f \in Files : /\ row'[f].live = row[f].live /\ row'[f].content = row[f].content
                        /\ row'[f].at = row[f].at

(* Everything but rows, findings and tasks has its type. *)
OthersTyped ==
    /\ log \in Seq(Trees) /\ Len(log) > 0
    /\ done \in SUBSET Contents
    /\ flaky \in [Files -> [Contents -> 0 .. MaxAuto]]
    /\ used \in Nat /\ lock \in BOOLEAN
    /\ older \in [Tasks -> SUBSET Tasks]
    /\ ops \in Nat

LEMMA RealRowsStay == ASSUME StoredIsReal, RowsKept, LogGrows PROVE StoredIsReal'
BY DEF StoredIsReal, RowsKept, LogGrows

LEMMA HadStays == ASSUME LogGrows, NEW f, NEW c, Had(f, c) PROVE Had(f, c)'
BY DEF Had, LogGrows

LEMMA RealFindingsStay ==
    ASSUME FindingsAreReal, finding' = finding, LogGrows PROVE FindingsAreReal'
BY HadStays DEF FindingsAreReal

LEMMA RealTaskStays ==
    ASSUME NEW t \in Tasks, RealTask(t), task'[t] = task[t], LogGrows
    PROVE  RealTask(t)'
<1>1. ReadsReal(t)'
  <2>1. CASE task[t].stage = "synced" BY <2>1, HadStays DEF RealTask, ReadsReal
  <2>2. CASE task[t].stage # "synced"
    <3>1. ReadsCommit(t) BY <2>2 DEF RealTask, ReadsReal
    <3>2. ReadsCommit(t)' BY <3>1 DEF ReadsCommit, LogGrows
    <3> QED BY <2>2, <3>2 DEF ReadsReal
  <2> QED BY <2>1, <2>2
<1>2. HoldsFiles(t)' BY DEF RealTask, HoldsFiles, Blank
<1> QED BY <1>1, <1>2 DEF RealTask

LEMMA RealRestart == ASSUME NEW t \in Tasks, Waiting(task'[t]) PROVE RealTask(t)'
<1>1. ReadsCommit(t)' BY DEF Waiting, ReadsCommit
<1>2. HoldsFiles(t)' BY DEF Waiting, HoldsFiles, Blank
<1> QED BY <1>1, <1>2 DEF Waiting, RealTask, ReadsReal

(* A step that gives one task a new value, and leaves the others. *)
LEMMA OneMoves ==
    ASSUME AnyInv, NEW t \in Tasks, NEW b \in Task, task' = [task EXCEPT ![t] = b],
           LogGrows, OthersTyped', row' \in [Files -> Row], StoredIsReal',
           finding' \in [Files -> [Rules -> FindingState]], FindingsAreReal',
           task'[t] = b => RealTask(t)'
    PROVE  AnyInv'
<1>1. task \in [Tasks -> Task] BY DEF AnyInv, TypeOK
<1>2. task' \in [Tasks -> Task] /\ task'[t] = b /\ \A u \in Tasks \ {t} : task'[u] = task[u]
  BY <1>1
<1>3. TypeOK' BY <1>2 DEF OthersTyped, TypeOK
<1>4. ASSUME NEW u \in Tasks PROVE RealTask(u)'
  <2>1. CASE u = t BY <1>2, <2>1
  <2>2. CASE u # t BY <1>2, <2>2, RealTaskStays DEF AnyInv
  <2> QED BY <2>1, <2>2
<1> QED BY <1>3, <1>4 DEF AnyInv

(* The same, when neither rows nor findings change. *)
LEMMA OneMovesAlone ==
    ASSUME AnyInv, NEW t \in Tasks, NEW b \in Task, task' = [task EXCEPT ![t] = b],
           LogGrows, OthersTyped', RowsKept, finding' = finding,
           task'[t] = b => RealTask(t)'
    PROVE  AnyInv'
<1>1. row' \in [Files -> Row] BY DEF RowsKept
<1>2. finding' \in [Files -> [Rules -> FindingState]] BY DEF AnyInv, TypeOK
<1>3. StoredIsReal' /\ FindingsAreReal' BY RealRowsStay, RealFindingsStay DEF AnyInv
<1> QED BY <1>1, <1>2, <1>3, OneMoves

LEMMA ForgetKeeps ==
    ASSUME TypeOK, NEW t \in Tasks, Forget(t)
    PROVE  RowsKept /\ older' \in [Tasks -> SUBSET Tasks]
<1>1. row \in [Files -> Row] /\ older \in [Tasks -> SUBSET Tasks] BY DEF TypeOK
<1>2. older' \in [Tasks -> SUBSET Tasks] BY <1>1 DEF Forget
<1>3. ASSUME NEW f \in Files
      PROVE  /\ row'[f] \in Row /\ row'[f].live = row[f].live
             /\ row'[f].content = row[f].content /\ row'[f].at = row[f].at
  <2>1. row'[f] = [row[f] EXCEPT !.beats = row[f].beats \ {t}] BY <1>1 DEF Forget
  <2>2. row[f] = [live |-> row[f].live, content |-> row[f].content, at |-> row[f].at,
                  beats |-> row[f].beats] /\ row[f] \in Row
    BY <1>1 DEF Row
  <2>3. row'[f] = [live |-> row[f].live, content |-> row[f].content, at |-> row[f].at,
                   beats |-> row[f].beats \ {t}]
    BY <2>1, <2>2
  <2> QED BY <2>2, <2>3 DEF Row
<1>4. row' = [f \in Files |-> row'[f]] BY DEF Forget
<1> QED BY <1>2, <1>3, <1>4 DEF RowsKept

LEMMA UntouchedRows == ASSUME TypeOK, row' = row PROVE RowsKept
BY DEF TypeOK, RowsKept

(* Whatever queues a scan, or does not. *)
LEMMA RealRequests == ASSUME AnyInv, Request PROVE AnyInv'
<1>1. log \in Seq(Trees) /\ Len(log) > 0 /\ ops \in Nat /\ TypeOK BY DEF AnyInv, TypeOK
<1>2. log' \in Seq(Trees) /\ Len(log') > 0 /\ LogGrows /\ ops' \in Nat
  <2>1. CASE Push
    <3>1. PICK tree \in Trees : log' = Append(log, tree) BY <2>1 DEF Push
    <3> QED BY <1>1, <2>1, <3>1 DEF LogGrows, Push, Counted
  <2>2. CASE ~Push
    <3>1. log' = log
      BY <2>2 DEF Request, TriggerRepositoryScan, TriggerFileScan, SyncRepositoryWorkflows,
                  Release, Nightly, RetryTransient
    <3>2. ops' = ops \/ \E kind \in OpKinds : Counted(kind)
      BY <2>2 DEF Request, TriggerRepositoryScan, TriggerFileScan, SyncRepositoryWorkflows,
                  Release, Nightly, RetryTransient, OpKinds
    <3>3. ops' \in Nat BY <1>1, <3>2 DEF Counted
    <3> QED BY <1>1, <3>1, <3>3 DEF LogGrows
  <2> QED BY <2>1, <2>2
<1>3. ASSUME NEW what \in SUBSET Files, NEW force \in BOOLEAN, NEW bill \in BOOLEAN,
             Enqueue(Scan(what, force, bill))
      PROVE  AnyInv'
  <2> DEFINE a == Scan(what, force, bill)
  <2>1. Waiting(a) /\ Enqueue(a) BY <1>3, ScanWaits
  <2> HIDE DEF a
  <2>2. PICK t \in Tasks : task' = [task EXCEPT ![t] = a] BY <2>1 DEF Enqueue
  <2>3. OthersTyped' /\ RowsKept /\ finding' = finding
    BY <1>1, <1>2, <2>1, UntouchedRows DEF Enqueue, OthersTyped, TypeOK
  <2>4. a \in Task BY <2>1 DEF Waiting
  <2> QED BY <1>2, <2>1, <2>2, <2>3, <2>4, RealRestart, OneMovesAlone
<1>4. CASE Push
  <2>1. CASE Enqueue(Scan(Files, FALSE, TRUE)) BY <1>3, <2>1
  <2>2. CASE UNCHANGED <<row, finding, done, flaky, used, lock, task, older>>
    <3>1. TypeOK' BY <1>1, <1>2, <2>2 DEF TypeOK
    <3>2. StoredIsReal' /\ FindingsAreReal'
      BY <1>1, <1>2, <2>2, UntouchedRows, RealRowsStay, RealFindingsStay DEF AnyInv
    <3>3. \A t \in Tasks : RealTask(t)' BY <1>2, <2>2, RealTaskStays DEF AnyInv
    <3> QED BY <3>1, <3>2, <3>3 DEF AnyInv
  <2> QED BY <1>4, <2>1, <2>2 DEF Push
<1>5. CASE ~Push
  <2>1. PICK what \in SUBSET Files, force \in BOOLEAN, bill \in BOOLEAN :
           Enqueue(Scan(what, force, bill))
    BY <1>5 DEF Request, TriggerRepositoryScan, TriggerFileScan, SyncRepositoryWorkflows,
                Release, Nightly, RetryTransient
  <2> QED BY <1>3, <2>1
<1> QED BY <1>4, <1>5

LEMMA RealBegins ==
    ASSUME AnyInv, NEW t \in Tasks,
           Acquire(t) \/ ResolveHead(t) \/ ResolveFails(t) \/ Fetch(t)
    PROVE  AnyInv'
<1>1. /\ task[t] \in Task /\ task \in [Tasks -> Task] /\ TypeOK
      /\ log \in Seq(Trees) /\ Len(log) > 0 /\ log' = log /\ LogGrows
      /\ task[t].stage \in {"queued", "stamped", "resolved"}
  BY DEF AnyInv, TypeOK, Acquire, ResolveHead, ResolveFails, Fetch, LogGrows
<1>2. OthersTyped' /\ RowsKept /\ finding' = finding
  <2>1. UNCHANGED <<log, row, finding, done, flaky, used, ops>> /\ RowsKept
    BY <1>1, UntouchedRows DEF Acquire, ResolveHead, ResolveFails, Fetch
  <2>2. lock' \in BOOLEAN /\ older' \in [Tasks -> SUBSET Tasks]
    BY <1>1 DEF TypeOK, Acquire, ResolveHead, ResolveFails, Fetch
  <2> QED BY <1>1, <2>1, <2>2 DEF OthersTyped, TypeOK
<1>3. Tree \in Trees /\ Len(log) \in Nat /\ Len(log) \in DOMAIN log /\ log[Len(log)] = Tree
  BY <1>1 DEF Tree
<1>4. ReadsCommit(t) /\ Blank(task[t]) BY <1>1 DEF AnyInv, RealTask, ReadsReal, HoldsFiles
<1>5. ASSUME NEW b \in Task, task' = [task EXCEPT ![t] = b], task'[t] = b => ReadsCommit(t)',
             b.stage \in {"stamped", "resolved", "read"}, b.todo = task[t].todo,
             b.fresh = task[t].fresh, b.stale = task[t].stale
      PROVE  AnyInv'
  <2>1. ASSUME task'[t] = b PROVE RealTask(t)'
    <3>1. HoldsFiles(t)' BY <1>4, <1>5, <2>1 DEF HoldsFiles, Blank
    <3>2. ReadsReal(t)' BY <1>5, <2>1 DEF ReadsReal
    <3> QED BY <3>1, <3>2 DEF RealTask
  <2> QED BY <1>1, <1>2, <1>5, <2>1, OneMovesAlone
<1>6. CASE Acquire(t) \/ ResolveFails(t) \/ (Fetch(t) /\ task[t].pinned)
  <2>1. PICK s \in {"stamped", "resolved", "read"} :
           /\ task' = [task EXCEPT ![t] = ToStaged(task[t], s)]
           /\ s = "read" => task[t].pinned
    BY <1>6 DEF Acquire, ResolveFails, Fetch, ToStaged
  <2> DEFINE b == ToStaged(task[t], s)
  <2>2. /\ b \in Task /\ b.stage = s /\ b.pinned = task[t].pinned /\ b.at = task[t].at
        /\ b.seen = task[t].seen /\ b.todo = task[t].todo /\ b.fresh = task[t].fresh
        /\ b.stale = task[t].stale
    BY <1>1, Staged DEF Stages
  <2>3. task' = [task EXCEPT ![t] = b] BY <2>1
  <2> HIDE DEF b
  <2>4. task'[t] = b => ReadsCommit(t)' BY <1>1, <1>4, <2>1, <2>2 DEF ReadsCommit
  <2> QED BY <1>5, <2>2, <2>3, <2>4
<1>7. CASE ResolveHead(t)
  <2> DEFINE a == task[t]
             head == Len(log)
             seen == Tree
             b == ToPinned(a, head, seen)
  <2>1. task' = [task EXCEPT ![t] = b] BY <1>7 DEF ResolveHead, ToPinned
  <2>2. a \in Task /\ head \in Nat /\ seen \in Trees BY <1>1, <1>3
  <2> HIDE DEF a, head, seen
  <2>3. /\ b \in Task /\ b.stage = "resolved" /\ b.at = head /\ b.seen = seen
        /\ b.todo = a.todo /\ b.fresh = a.fresh /\ b.stale = a.stale
    BY <2>2, Pinned
  <2> HIDE DEF b
  <2>4. task'[t] = b => ReadsCommit(t)' BY <1>1, <1>3, <2>3 DEF ReadsCommit, head, seen
  <2> QED BY <1>5, <2>1, <2>3, <2>4 DEF a
<1>8. CASE Fetch(t) /\ ~task[t].pinned
  <2>1. PICK seen \in Listings :
           task' = [task EXCEPT ![t] = [task[t] EXCEPT !.stage = "read", !.at = Len(log),
                                                       !.seen = seen]]
    BY <1>8 DEF Fetch
  <2> DEFINE a == task[t]
             head == Len(log)
             b == ToFetched(a, head, seen)
  <2>2. task' = [task EXCEPT ![t] = b] BY <2>1 DEF ToFetched
  <2>3. a \in Task /\ head \in Nat /\ seen \in Trees BY <1>1, <1>3, EmptyTree DEF Listings
  <2> HIDE DEF a, head
  <2>4. /\ b \in Task /\ b.stage = "read" /\ b.pinned = a.pinned /\ b.at = head /\ b.seen = seen
        /\ b.todo = a.todo /\ b.fresh = a.fresh /\ b.stale = a.stale
    BY <2>3, Fetched
  <2> HIDE DEF b
  <2>5. task'[t] = b => ReadsCommit(t)'
    BY <1>1, <1>3, <1>8, <2>4 DEF ReadsCommit, Listings, a, head
  <2> QED BY <1>5, <2>2, <2>4, <2>5 DEF a
<1> QED BY <1>6, <1>7, <1>8

LEMMA RealEnds ==
    ASSUME AnyInv, NEW t \in Tasks,
           Busy(t) \/ FetchFails(t) \/ RefUnresolved(t) \/ Finish(t) \/ Crash(t)
    PROVE  AnyInv'
<1>1. /\ TypeOK /\ task[t].tries \in Nat /\ task \in [Tasks -> Task]
  BY DEF AnyInv, TypeOK, Task
<1>2. /\ UNCHANGED <<log, finding, done, flaky, used>> /\ LogGrows
      /\ lock' \in BOOLEAN /\ ops' \in Nat
  <2>1. UNCHANGED <<log, finding, done, flaky, used>>
    BY DEF Busy, FetchFails, RefUnresolved, Finish, Crash
  <2>2. lock \in BOOLEAN /\ ops \in Nat BY <1>1 DEF TypeOK
  <2>3. lock' = lock \/ lock' = FALSE
    BY DEF Busy, FetchFails, RefUnresolved, Finish, Crash, Leave
  <2>4. ops' = ops \/ Counted("crash")
    BY DEF Busy, FetchFails, RefUnresolved, Finish, Crash
  <2>5. ops' \in Nat BY <2>2, <2>4 DEF Counted
  <2>6. LogGrows BY <2>1 DEF LogGrows
  <2> QED BY <2>1, <2>2, <2>3, <2>5, <2>6
<1>3. RowsKept /\ older' \in [Tasks -> SUBSET Tasks]
  <2>1. CASE Busy(t) BY <1>1, <2>1, UntouchedRows DEF Busy, TypeOK
  <2>2. CASE ~Busy(t)
    <3>1. Forget(t) BY <2>2 DEF FetchFails, RefUnresolved, Finish, Crash, Leave
    <3> QED BY <1>1, <3>1, ForgetKeeps
  <2> QED BY <2>1, <2>2
<1>4. PICK a : Waiting(a) /\ task' = [task EXCEPT ![t] = a]
  <2>1. \E tries \in Nat : task' = [task EXCEPT ![t] = Requeued(t, tries)]
                           \/ task' = [task EXCEPT ![t] = Idle]
    BY <1>1 DEF Busy, FetchFails, RefUnresolved, Finish, Crash, Leave
  <2> QED BY <1>1, <2>1, RequeuedWaits, IdleWaits
<1>5. OthersTyped' BY <1>1, <1>2, <1>3 DEF OthersTyped, TypeOK
<1>6. a \in Task BY <1>4 DEF Waiting
<1> QED BY <1>2, <1>3, <1>4, <1>5, <1>6, RealRestart, OneMovesAlone

LEMMA RealExpires == ASSUME AnyInv, Expire \/ ExpireEarly PROVE AnyInv'
<1>1. /\ UNCHANGED <<log, row, finding, done, flaky, used, task, older>> /\ LogGrows /\ TypeOK
      /\ lock' = FALSE /\ ops' \in Nat
  BY DEF Expire, ExpireEarly, Counted, LogGrows, AnyInv, TypeOK
<1>2. TypeOK' BY <1>1 DEF TypeOK
<1>3. StoredIsReal' /\ FindingsAreReal'
  BY <1>1, UntouchedRows, RealRowsStay, RealFindingsStay DEF AnyInv
<1>4. \A t \in Tasks : RealTask(t)' BY <1>1, RealTaskStays DEF AnyInv
<1> QED BY <1>2, <1>3, <1>4 DEF AnyInv

(* The sync writes contents of the commit that was read, and none where a    *)
(* newer run wrote.                                                          *)
LEMMA RealSync == ASSUME AnyInv, NEW t \in Tasks, Sync(t) PROVE AnyInv'
<1>1. /\ task[t] \in Task /\ task \in [Tasks -> Task] /\ TypeOK /\ row \in [Files -> Row]
      /\ finding \in [Files -> [Rules -> FindingState]] /\ task[t].stage = "read"
      /\ older[t] \in SUBSET Tasks /\ used \in Nat
      /\ UNCHANGED <<log, done, flaky, used, lock, older, ops>> /\ LogGrows
  BY DEF AnyInv, TypeOK, Sync, LogGrows
<1>2. /\ task[t].at \in DOMAIN log /\ task[t].seen = log[task[t].at]
      /\ Blank(task[t]) /\ HoldsFiles(t)
  BY <1>1 DEF AnyInv, RealTask, ReadsReal, ReadsCommit, Believed, Sync, HoldsFiles
<1>3. /\ task[t].seen \in Trees /\ task[t].at \in Nat /\ task[t].what \in SUBSET Files
  BY <1>1 DEF Task
<1>4. OthersTyped' BY <1>1 DEF OthersTyped, TypeOK
<1>5. ASSUME NEW f \in Files
      PROVE  /\ row'[f] \in Row
             /\ row'[f].live => row'[f].content # Gone
             /\ row'[f].content # Gone
                  => row'[f].at \in DOMAIN log /\ log[row'[f].at][f] = row'[f].content
  <2>1. /\ row[f].live => row[f].content # Gone
        /\ row[f].content # Gone => row[f].at \in DOMAIN log /\ log[row[f].at][f] = row[f].content
    BY DEF AnyInv, StoredIsReal
  <2>2. CASE f \in Missing(t)
    <3>1. row'[f] = [row[f] EXCEPT !.live = FALSE] BY <2>2 DEF Sync
    <3>2. row[f] = [live |-> row[f].live, content |-> row[f].content, at |-> row[f].at,
                    beats |-> row[f].beats] /\ row[f] \in Row
      BY <1>1 DEF Row
    <3>3. row'[f] = [live |-> FALSE, content |-> row[f].content, at |-> row[f].at,
                     beats |-> row[f].beats]
      BY <3>1, <3>2
    <3> QED BY <2>1, <3>2, <3>3 DEF Row
  <2>3. CASE f \notin Missing(t) /\ (task[t].seen[f] = Gone \/ f \in SkippedStale(t))
    <3>1. row'[f] = row[f] BY <2>3 DEF Sync
    <3> QED BY <1>1, <2>1, <3>1
  <2>4. CASE f \notin Missing(t) /\ task[t].seen[f] # Gone /\ f \notin SkippedStale(t)
    <3>1. row'[f] = [live |-> TRUE, content |-> task[t].seen[f], at |-> task[t].at,
                     beats |-> older[t]]
      BY <2>4 DEF Sync
    <3>2. task[t].seen[f] \in Contents \cup {Gone} BY <1>3 DEF Trees
    <3> QED BY <1>1, <1>2, <1>3, <2>4, <3>1, <3>2 DEF Row
  <2> QED BY <2>2, <2>3, <2>4
<1>6. row' \in [Files -> Row]
  <2>1. row' = [f \in Files |-> row'[f]] BY DEF Sync
  <2> QED BY <1>5, <2>1
<1>7. StoredIsReal' BY <1>1, <1>5 DEF StoredIsReal
<1>8. /\ finding' \in [Files -> [Rules -> FindingState]]
      /\ \A f \in Files, r \in Rules : finding'[f][r] # "none" => finding[f][r] # "none"
  <2>1. finding' = [f \in Files |-> IF f \in Missing(t) THEN Resolved(f, Rules) ELSE finding[f]]
    BY DEF Sync, ReconcileMissing
  <2>2. \A f \in Files : /\ Resolved(f, Rules) \in [Rules -> FindingState]
                         /\ \A r \in Rules : Resolved(f, Rules)[r] # "none" => finding[f][r] # "none"
    BY <1>1 DEF Resolved, FindingState
  <2> QED BY <1>1, <2>1, <2>2
<1>9. FindingsAreReal' BY <1>1, <1>8 DEF AnyInv, FindingsAreReal, Had
<1> DEFINE a == task[t]
           seen == [f \in Files |-> IF f \in SkippedStale(t) THEN row[f].content
                                                             ELSE task[t].seen[f]]
           n == Remaining(t)
           S == {f \in task[t].what : seen[f] # Gone}
           b == ToSynced(a, seen, n, S)
<1>10. task' = [task EXCEPT ![t] = b] BY DEF Sync, ToSynced
<1>11. seen \in Trees
  <2>1. \A f \in Files : row[f].content \in Contents \cup {Gone} BY <1>1 DEF Row
  <2> QED BY <1>3, <2>1 DEF Trees
<1>12. \A f \in Files : seen[f] # Gone => Had(f, seen[f])
  <2>1. \A f \in Files : task[t].seen[f] # Gone => Had(f, task[t].seen[f]) BY <1>2 DEF Had
  <2>2. \A f \in Files : row[f].content # Gone => Had(f, row[f].content)
    BY DEF AnyInv, StoredIsReal, Had
  <2> QED BY <2>1, <2>2
<1>13. a \in Task /\ n \in Nat /\ S \in SUBSET Files
  BY <1>1, <1>3, CountsAssumption DEF Remaining
<1>14. \A f \in S : seen[f] # Gone OBVIOUS
<1> HIDE DEF seen, n, S
<1>15. /\ b \in Task /\ b.stage = "synced" /\ b.seen = seen
       /\ b.todo = S /\ b.fresh = a.fresh /\ b.stale = a.stale
  BY <1>11, <1>13, Synced
<1> HIDE DEF b
<1>16. ASSUME task'[t] = b PROVE RealTask(t)'
  <2>1. ReadsReal(t)' BY <1>1, <1>12, <1>15, <1>16 DEF ReadsReal, Had
  <2>2. HoldsFiles(t)' BY <1>2, <1>14, <1>15, <1>16 DEF HoldsFiles, Blank
  <2> QED BY <2>1, <2>2 DEF RealTask
<1> QED BY <1>1, <1>4, <1>6, <1>7, <1>8, <1>9, <1>10, <1>15, <1>16, OneMoves

(* A synced task takes a file off its list, whether it was analysed or not. *)
LEMMA RealMovesOn ==
    ASSUME AnyInv, NEW t \in Tasks, NEW b \in Task, task' = [task EXCEPT ![t] = b],
           task[t].stage = "synced", b.stage = "synced", b.seen = task[t].seen,
           b.todo \subseteq task[t].todo, b.fresh = task[t].fresh, b.stale = task[t].stale,
           UNCHANGED <<log, row, finding, done, lock, older, ops>>,
           flaky' \in [Files -> [Contents -> 0 .. MaxAuto]], used' \in Nat
    PROVE  AnyInv'
<1>1. TypeOK /\ RowsKept /\ LogGrows BY UntouchedRows DEF AnyInv, LogGrows
<1>2. OthersTyped' BY <1>1 DEF TypeOK, OthersTyped
<1>3. RealTask(t) BY DEF AnyInv
<1>4. ASSUME task'[t] = b PROVE RealTask(t)'
  <2>1. ReadsReal(t)' BY <1>3, <1>4 DEF RealTask, ReadsReal, Had
  <2>2. HoldsFiles(t)' BY <1>3, <1>4 DEF RealTask, HoldsFiles, Blank
  <2> QED BY <2>1, <2>2 DEF RealTask
<1> QED BY <1>1, <1>2, <1>4, OneMovesAlone

LEMMA RealSkips ==
    ASSUME AnyInv, NEW t \in Tasks, NEW f \in Files, SkipDuplicate(t, f)
    PROVE  AnyInv'
<1> DEFINE a == task[t]
           S == task[t].todo \ {f}
           b == ToSkipped(a, S)
<1>1. task' = [task EXCEPT ![t] = b] BY DEF SkipDuplicate, ToSkipped
<1>2. a \in Task /\ S \in SUBSET Files /\ S \subseteq a.todo BY DEF AnyInv, TypeOK, Task
<1> HIDE DEF a, S
<1>3. /\ b \in Task /\ b.stage = a.stage /\ b.seen = a.seen
      /\ b.todo = S /\ b.fresh = a.fresh /\ b.stale = a.stale
  BY <1>2, Skipped
<1> HIDE DEF b
<1>4. /\ UNCHANGED <<log, row, finding, done, lock, older, ops>> /\ flaky' = flaky /\ used' = used
      /\ flaky \in [Files -> [Contents -> 0 .. MaxAuto]] /\ used \in Nat
      /\ task[t].stage = "synced"
  BY DEF SkipDuplicate, Due, AnyInv, TypeOK
<1> QED BY <1>1, <1>2, <1>3, <1>4, RealMovesOn DEF a

LEMMA SpentFacts ==
    ASSUME TypeOK, NEW t \in Tasks, NEW f \in Files, Analyses(t, f)
    PROVE  LET b == Analysed(t, f)
           IN  /\ b \in Task /\ b.stage = "synced" /\ b.seen = task[t].seen
               /\ b.todo = task[t].todo \ {f} /\ b.bill = task[t].bill
               /\ b.fresh = task[t].fresh /\ b.stale = task[t].stale
               /\ b.budget + Charge(t) = task[t].budget
<1>1. task[t] \in Task /\ task[t].budget \in Nat BY DEF TypeOK, Task
<1> DEFINE a == task[t]
           S == task[t].todo \ {f}
           n == IF task[t].bill THEN task[t].budget - 1 ELSE task[t].budget
           b == ToSpent(a, S, n)
<1>2. Analysed(t, f) = b BY DEF Analysed, ToSpent
<1>3. ~task[t].bill \/ task[t].budget # 0 BY DEF Analyses, Due, Exhausted
<1>4. n \in Nat /\ n + Charge(t) = task[t].budget BY <1>1, <1>3 DEF Charge
<1>5. a \in Task /\ S \in SUBSET Files /\ a.stage = "synced" BY <1>1 DEF Task, Analyses, Due
<1> HIDE DEF a, S, n
<1>6. /\ b \in Task /\ b.stage = a.stage /\ b.seen = a.seen /\ b.bill = a.bill
      /\ b.todo = S /\ b.fresh = a.fresh /\ b.stale = a.stale /\ b.budget = n
  BY <1>4, <1>5, Spent
<1> HIDE DEF b
<1> QED BY <1>2, <1>4, <1>5, <1>6 DEF a, S

LEMMA RealFails ==
    ASSUME AnyInv, NEW t \in Tasks, NEW f \in Files, AnalysisFails(t, f)
    PROVE  AnyInv'
<1> DEFINE b == Analysed(t, f)
<1>1. /\ task' = [task EXCEPT ![t] = b] /\ Analyses(t, f) /\ TypeOK
      /\ task[t].stage = "synced" /\ f \in task[t].todo
  BY DEF AnalysisFails, Analyses, Due, AnyInv
<1>2. /\ b \in Task /\ b.stage = "synced" /\ b.seen = task[t].seen
      /\ b.todo = task[t].todo \ {f} /\ b.fresh = task[t].fresh /\ b.stale = task[t].stale
  BY <1>1, SpentFacts
<1> HIDE DEF b
<1>3. UNCHANGED <<log, row, finding, done, lock, older, ops>> BY DEF AnalysisFails
<1>4. used' \in Nat BY <1>1 DEF AnalysisFails, Charge, TypeOK
<1>5. flaky \in [Files -> [Contents -> 0 .. MaxAuto]] /\ MaxAuto \in Nat
  BY <1>1, CountsAssumption DEF TypeOK
<1>6. task[t].seen[f] # Gone /\ task[t] \in Task
  BY <1>1 DEF AnyInv, RealTask, HoldsFiles, TypeOK
<1>7. task[t].seen[f] \in Contents BY <1>6 DEF Task, Trees
<1>8. flaky' \in [Files -> [Contents -> 0 .. MaxAuto]]
  <2> DEFINE c == task[t].seen[f]
             n == IF flaky[f][c] < MaxAuto THEN flaky[f][c] + 1 ELSE flaky[f][c]
             counts == [flaky[f] EXCEPT ![c] = n]
  <2>1. flaky[f][c] \in 0 .. MaxAuto BY <1>5, <1>7
  <2>2. n \in 0 .. MaxAuto BY <1>5, <2>1
  <2>3. flaky' = flaky \/ flaky' = [flaky EXCEPT ![f] = counts] BY DEF AnalysisFails
  <2> HIDE DEF n
  <2>4. counts \in [Contents -> 0 .. MaxAuto] BY <1>5, <2>2
  <2> HIDE DEF counts
  <2> QED BY <1>5, <2>3, <2>4
<1> QED BY <1>1, <1>2, <1>3, <1>4, <1>8, RealMovesOn

LEMMA RealSucceeds ==
    ASSUME AnyInv, NEW t \in Tasks, NEW f \in Files, AnalysisSucceeds(t, f)
    PROVE  AnyInv'
<1> DEFINE c == task[t].seen[f]
<1>1. /\ Analyses(t, f) /\ task[t] \in Task /\ TypeOK /\ LogGrows
      /\ finding \in [Files -> [Rules -> FindingState]]
      /\ task[t].stage = "synced" /\ task[t].stale = {} /\ f \in task[t].todo /\ RealTask(t)
      /\ UNCHANGED <<log, row, flaky, lock, older, ops>>
  BY DEF AnalysisSucceeds, Analyses, Due, AnyInv, TypeOK, LogGrows
<1>2. c # Gone /\ Had(f, c) BY <1>1 DEF RealTask, HoldsFiles, ReadsReal
<1>3. c \in Contents /\ Reports[c] \subseteq Rules
  BY <1>1, <1>2, ReportsAssumption DEF Task, Trees
<1>4. finding' = [finding EXCEPT ![f] = Upserted(f, Reports[c])] BY DEF AnalysisSucceeds
<1>5. /\ finding' \in [Files -> [Rules -> FindingState]]
      /\ \A g \in Files, r \in Rules :
           finding'[g][r] # "none" => finding[g][r] # "none" \/ (g = f /\ r \in Reports[c])
  <2>1. Upserted(f, Reports[c]) \in [Rules -> FindingState]
    BY <1>1 DEF Upserted, FindingState
  <2>2. \A r \in Rules : Upserted(f, Reports[c])[r] # "none" =>
                           finding[f][r] # "none" \/ r \in Reports[c]
    BY DEF Upserted
  <2> QED BY <1>1, <1>4, <2>1, <2>2
<1>6. FindingsAreReal' BY <1>1, <1>2, <1>3, <1>5 DEF AnyInv, FindingsAreReal, Had
<1>7. RowsKept /\ StoredIsReal' BY <1>1, UntouchedRows, RealRowsStay DEF AnyInv
<1>8. OthersTyped'
  <2>1. used' \in Nat /\ done' \in SUBSET Contents
    BY <1>1, <1>3 DEF AnalysisSucceeds, Charge, TypeOK
  <2> QED BY <1>1, <2>1 DEF OthersTyped, TypeOK
<1> DEFINE a == Analysed(t, f)
           S == task[t].fresh \cup {f}
           T == {f}
           b == ToFound(a, S, T)
<1>9. /\ a \in Task /\ a.stage = "synced" /\ a.seen = task[t].seen
      /\ a.todo = task[t].todo \ {f} /\ a.fresh = task[t].fresh
  BY <1>1, SpentFacts
<1>10. task' = [task EXCEPT ![t] = b]
  <2>1. task' = [task EXCEPT ![t] = [a EXCEPT !.fresh = a.fresh \cup {f}, !.stale = {f}]]
    BY DEF AnalysisSucceeds
  <2> QED BY <1>9, <2>1 DEF ToFound
<1>11. S \in SUBSET Files /\ T \in SUBSET Files BY <1>1 DEF Task
<1> HIDE DEF a
<1>12. /\ b \in Task /\ b.stage = "synced" /\ b.seen = task[t].seen
       /\ b.todo = task[t].todo \ {f} /\ b.fresh = S /\ b.stale = T
  BY <1>9, <1>11, Found
<1> HIDE DEF b
<1>13. ASSUME task'[t] = b PROVE RealTask(t)'
  <2>1. ReadsReal(t)' BY <1>1, <1>12, <1>13 DEF RealTask, ReadsReal, Had
  <2>2. HoldsFiles(t)' BY <1>1, <1>2, <1>12, <1>13 DEF RealTask, HoldsFiles
  <2> QED BY <2>1, <2>2 DEF RealTask
<1> QED BY <1>1, <1>5, <1>6, <1>7, <1>8, <1>10, <1>12, <1>13, OneMoves DEF RowsKept

LEMMA RealResolves ==
    ASSUME AnyInv, NEW t \in Tasks, NEW f \in Files, ResolveStale(t, f)
    PROVE  AnyInv'
<1>1. /\ f \in task[t].stale /\ task[t] \in Task /\ TypeOK /\ RealTask(t)
      /\ finding \in [Files -> [Rules -> FindingState]] /\ LogGrows
      /\ UNCHANGED <<log, row, done, flaky, used, lock, older, ops>>
  BY DEF ResolveStale, AnyInv, TypeOK, LogGrows
<1>2. /\ finding' \in [Files -> [Rules -> FindingState]]
      /\ \A g \in Files, r \in Rules : finding'[g][r] # "none" => finding[g][r] # "none"
  <2> DEFINE rules == Rules \ Reports[task[t].seen[f]]
  <2>1. Resolved(f, rules) \in [Rules -> FindingState] BY <1>1 DEF Resolved, FindingState
  <2>2. \A r \in Rules : Resolved(f, rules)[r] # "none" => finding[f][r] # "none"
    BY DEF Resolved
  <2>3. finding' = [finding EXCEPT ![f] = Resolved(f, rules)] BY DEF ResolveStale
  <2> HIDE DEF rules
  <2> QED BY <1>1, <2>1, <2>2, <2>3
<1>3. FindingsAreReal' BY <1>1, <1>2 DEF AnyInv, FindingsAreReal, Had
<1>4. RowsKept /\ StoredIsReal' /\ OthersTyped'
  BY <1>1, UntouchedRows, RealRowsStay DEF AnyInv, OthersTyped, TypeOK
<1> DEFINE a == task[t]
           S == {}
           b == ToSettled(a, S)
<1>5. task' = [task EXCEPT ![t] = b] BY DEF ResolveStale, ToSettled
<1>6. a \in Task /\ S \in SUBSET Files BY <1>1
<1> HIDE DEF a, S
<1>7. /\ b \in Task /\ b.stage = a.stage /\ b.pinned = a.pinned /\ b.at = a.at /\ b.seen = a.seen
      /\ b.todo = a.todo /\ b.fresh = a.fresh /\ b.stale = S
  BY <1>6, Settled
<1> HIDE DEF b
<1>8. task[t].stage = "synced" BY <1>1 DEF RealTask, HoldsFiles, Blank
<1>9. ASSUME task'[t] = b PROVE RealTask(t)'
  <2>1. ReadsReal(t)' BY <1>1, <1>7, <1>8, <1>9 DEF RealTask, ReadsReal, Had, a
  <2>2. HoldsFiles(t)' BY <1>1, <1>7, <1>8, <1>9 DEF RealTask, HoldsFiles, a, S
  <2> QED BY <2>1, <2>2 DEF RealTask
<1> QED BY <1>1, <1>2, <1>3, <1>4, <1>5, <1>7, <1>9, OneMoves DEF RowsKept

LEMMA RealStep == ASSUME AnyInv, [Next]_vars PROVE AnyInv'
<1>1. CASE Request BY <1>1, RealRequests
<1>2. ASSUME NEW t \in Tasks, Step(t) PROVE AnyInv'
  <2>1. CASE Acquire(t) \/ Read(t) \/ ResolveFails(t) BY <2>1, RealBegins DEF Read
  <2>2. CASE Busy(t) \/ FetchFails(t) \/ RefUnresolved(t) \/ Finish(t) BY <2>2, RealEnds
  <2>3. CASE Sync(t) BY <2>3, RealSync
  <2>4. ASSUME NEW f \in Files,
               \/ SkipDuplicate(t, f) \/ AnalysisSucceeds(t, f)
               \/ AnalysisFails(t, f) \/ ResolveStale(t, f)
        PROVE  AnyInv'
    BY <2>4, RealSkips, RealSucceeds, RealFails, RealResolves
  <2> QED BY <1>2, <2>1, <2>2, <2>3, <2>4 DEF Step
<1>3. ASSUME NEW t \in Tasks, Crash(t) PROVE AnyInv' BY <1>3, RealEnds
<1>4. CASE Expire \/ ExpireEarly BY <1>4, RealExpires
<1>5. CASE UNCHANGED vars
  <2>1. LogGrows /\ TypeOK' /\ row' = row /\ finding' = finding /\ task' = task
    BY <1>5 DEF vars, LogGrows, AnyInv, TypeOK
  <2>2. StoredIsReal' /\ FindingsAreReal'
    BY <2>1, UntouchedRows, RealRowsStay, RealFindingsStay DEF AnyInv
  <2>3. \A t \in Tasks : RealTask(t)' BY <2>1, RealTaskStays DEF AnyInv
  <2> QED BY <2>1, <2>2, <2>3 DEF AnyInv
<1> QED BY <1>1, <1>2, <1>3, <1>4, <1>5 DEF Next

LEMMA RealInvariant == Spec => []AnyInv
<1>1. ASSUME Init PROVE AnyInv
  <2>1. TypeOK BY <1>1, Start DEF IInv
  <2>2. StoredIsReal /\ FindingsAreReal
    BY <1>1 DEF Init, NoRow, StoredIsReal, FindingsAreReal
  <2>3. ASSUME NEW t \in Tasks PROVE RealTask(t)
    <3>1. Waiting(task[t]) BY <1>1, IdleWaits DEF Init
    <3>2. ReadsCommit(t) BY <3>1 DEF Waiting, ReadsCommit
    <3>3. HoldsFiles(t) BY <3>1 DEF Waiting, HoldsFiles, Blank
    <3> QED BY <3>1, <3>2, <3>3 DEF Waiting, RealTask, ReadsReal
  <2> QED BY <2>1, <2>2, <2>3 DEF AnyInv
<1> QED BY <1>1, RealStep, PTL DEF Spec

(* Every variable has its type in every reachable state, even if runs        *)
(* outlast their lock.                                                       *)
THEOREM WorkflowTypes == Spec => []TypeOK
<1>1. AnyInv => TypeOK BY DEF AnyInv
<1> QED BY <1>1, RealInvariant, PTL

(* What is stored of a file is what one commit of the branch holds, the one  *)
(* that its row names, even if runs outlast their lock.                      *)
THEOREM FilesAreReal == Spec => []StoredIsReal
<1>1. AnyInv => StoredIsReal BY DEF AnyInv
<1> QED BY <1>1, RealInvariant, PTL

(* Each finding, open or resolved, is of a rule that a content of its file   *)
(* violates, one that the file had in some commit, even if runs outlast      *)
(* their lock.                                                               *)
THEOREM NoFindingInvented == Spec => []FindingsAreReal
<1>1. AnyInv => FindingsAreReal BY DEF AnyInv
<1> QED BY <1>1, RealInvariant, PTL

-----------------------------------------------------------------------------
(***************************************************************************)
(* The allowance.  A run takes stock of it once, when it has synced, and   *)
(* then counts down by itself; runs that come one at a time cannot spend   *)
(* the same analyses twice, and one that is redelivered takes stock again. *)
(***************************************************************************)

(* The month's analyses stay within the allowance. *)
WithinLimit == used <= Limit

SpentInv ==
    /\ WithinLimit
    /\ \A t \in Tasks : task[t].stage = "synced" /\ task[t].bill => used + task[t].budget <= Limit

LEMMA NothingSpent ==
    ASSUME SpentInv, used' = used,
           \A u \in Tasks : task'[u].stage = "synced" /\ task'[u].bill =>
               /\ task[u].stage = "synced" /\ task[u].bill
               /\ task'[u].budget = task[u].budget
    PROVE  SpentInv'
BY DEF SpentInv, WithinLimit

(* A step that gives one task a value without an allowance of its own. *)
LEMMA NoStockTaken ==
    ASSUME TypeOK, SpentInv, used' = used, NEW t \in Tasks, NEW b, task' = [task EXCEPT ![t] = b],
           b.stage # "synced"
    PROVE  SpentInv'
<1>1. task \in [Tasks -> Task] BY DEF TypeOK
<1>2. task'[t] = b /\ \A u \in Tasks \ {t} : task'[u] = task[u] BY <1>1
<1> QED BY <1>2, NothingSpent

LEMMA RequestSpends == ASSUME TypeOK, SpentInv, Request PROVE SpentInv'
<1>1. ASSUME NEW what \in SUBSET Files, NEW force \in BOOLEAN, NEW bill \in BOOLEAN,
             Enqueue(Scan(what, force, bill))
      PROVE  SpentInv'
  <2> DEFINE a == Scan(what, force, bill)
  <2>1. Waiting(a) /\ Enqueue(a) BY <1>1, ScanWaits
  <2> HIDE DEF a
  <2>2. PICK t \in Tasks : task' = [task EXCEPT ![t] = a] BY <2>1 DEF Enqueue
  <2>3. used' = used /\ a.stage # "synced" BY <2>1 DEF Enqueue, Waiting
  <2> QED BY <2>2, <2>3, NoStockTaken
<1>2. \/ UNCHANGED <<used, task>>
      \/ \E what \in SUBSET Files, force \in BOOLEAN, bill \in BOOLEAN :
           Enqueue(Scan(what, force, bill))
  BY DEF Request, Push, TriggerRepositoryScan, TriggerFileScan, SyncRepositoryWorkflows,
         Release, Nightly, RetryTransient
<1> QED BY <1>1, <1>2, NothingSpent

LEMMA StepSpends ==
    ASSUME IInv, SpentInv, NEW t \in Tasks, Step(t) \/ Crash(t)
    PROVE  SpentInv'
<1>1. /\ TypeOK /\ task \in [Tasks -> Task] /\ task[t] \in Task /\ used \in Nat
      /\ task[t].tries \in Nat /\ Limit \in Nat /\ task[t].budget \in Nat
  BY CountsAssumption DEF IInv, TypeOK, Task
<1>2. CASE Acquire(t) \/ ResolveHead(t) \/ ResolveFails(t) \/ Fetch(t)
  <2>1. PICK b : task' = [task EXCEPT ![t] = b] /\ b.stage # "synced"
    <3>1. \A s \in {"stamped", "resolved", "read"} : ToStaged(task[t], s).stage = s
      BY <1>1, Staged DEF Stages
    <3>2. Tree \in Trees /\ Len(log) \in Nat BY <1>1 DEF TypeOK, Tree
    <3>3. ToPinned(task[t], Len(log), Tree).stage = "resolved" BY <1>1, <3>2, Pinned
    <3>4. \A seen \in Listings : ToFetched(task[t], Len(log), seen).stage = "read"
      BY <1>1, <3>2, EmptyTree, Fetched DEF Listings
    <3>5. \/ \E s \in {"stamped", "resolved", "read"} :
               task' = [task EXCEPT ![t] = ToStaged(task[t], s)]
          \/ task' = [task EXCEPT ![t] = ToPinned(task[t], Len(log), Tree)]
          \/ \E seen \in Listings : task' = [task EXCEPT ![t] = ToFetched(task[t], Len(log), seen)]
      BY <1>2 DEF Acquire, ResolveHead, ResolveFails, Fetch, ToStaged, ToPinned, ToFetched
    <3> QED BY <3>1, <3>3, <3>4, <3>5
  <2>2. used' = used BY <1>2 DEF Acquire, ResolveHead, ResolveFails, Fetch
  <2> QED BY <1>1, <2>1, <2>2, NoStockTaken
<1>3. CASE Busy(t) \/ FetchFails(t) \/ RefUnresolved(t) \/ Finish(t) \/ Crash(t)
  <2>1. \E tries \in Nat : task' = [task EXCEPT ![t] = Requeued(t, tries)]
                           \/ task' = [task EXCEPT ![t] = Idle]
    BY <1>1, <1>3 DEF Busy, FetchFails, RefUnresolved, Finish, Crash, Leave
  <2>2. PICK a : Waiting(a) /\ task' = [task EXCEPT ![t] = a]
    BY <1>1, <2>1, RequeuedWaits, IdleWaits
  <2>3. used' = used BY <1>3 DEF Busy, FetchFails, RefUnresolved, Finish, Crash
  <2>4. a.stage # "synced" BY <2>2 DEF Waiting
  <2> QED BY <1>1, <2>2, <2>3, <2>4, NoStockTaken
<1>4. CASE Sync(t)
  <2>1. PICK seen \in Trees : \E S \in SUBSET Files :
           task' = [task EXCEPT ![t] = ToSynced(task[t], seen, Remaining(t), S)]
    <3>1. [f \in Files |-> IF f \in SkippedStale(t) THEN row[f].content ELSE task[t].seen[f]]
            \in Trees
      <4>1. \A f \in Files : row[f].content \in Contents \cup {Gone} BY <1>1 DEF TypeOK, Row
      <4> QED BY <1>1, <4>1 DEF Task, Trees
    <3>2. task[t].what \in SUBSET Files BY <1>1 DEF Task
    <3> QED BY <1>4, <3>1, <3>2 DEF Sync, ToSynced
  <2>2. PICK S \in SUBSET Files :
           task' = [task EXCEPT ![t] = ToSynced(task[t], seen, Remaining(t), S)]
    BY <2>1
  <2>3. Remaining(t) \in Nat /\ used + Remaining(t) <= Limit
    BY <1>1 DEF Remaining, SpentInv, WithinLimit
  <2> DEFINE b == ToSynced(task[t], seen, Remaining(t), S)
  <2>4. b.budget = Remaining(t) BY <1>1, <2>3, Synced
  <2> HIDE DEF b
  <2>5. task'[t] = b /\ \A u \in Tasks \ {t} : task'[u] = task[u] BY <1>1, <2>2 DEF b
  <2>6. used' = used BY <1>4 DEF Sync
  <2> QED BY <2>3, <2>4, <2>5, <2>6 DEF SpentInv, WithinLimit
<1>5. ASSUME NEW f \in Files, SkipDuplicate(t, f) PROVE SpentInv'
  <2> DEFINE S == task[t].todo \ {f}
             b == ToSkipped(task[t], S)
  <2>1. task' = [task EXCEPT ![t] = b] /\ used' = used BY <1>5 DEF SkipDuplicate, ToSkipped
  <2>2. S \in SUBSET Files BY <1>1 DEF Task
  <2> HIDE DEF S
  <2>3. b.stage = task[t].stage /\ b.bill = task[t].bill /\ b.budget = task[t].budget
    BY <1>1, <2>2, Skipped
  <2> HIDE DEF b
  <2>4. task'[t] = b /\ \A u \in Tasks \ {t} : task'[u] = task[u] BY <1>1, <2>1
  <2> QED BY <2>1, <2>3, <2>4, NothingSpent
<1>6. ASSUME NEW f \in Files, ResolveStale(t, f) PROVE SpentInv'
  <2> DEFINE S == {}
             b == ToSettled(task[t], S)
  <2>1. task' = [task EXCEPT ![t] = b] /\ used' = used BY <1>6 DEF ResolveStale, ToSettled
  <2>2. S \in SUBSET Files OBVIOUS
  <2> HIDE DEF S
  <2>3. b.stage = task[t].stage /\ b.bill = task[t].bill /\ b.budget = task[t].budget
    BY <1>1, <2>2, Settled
  <2> HIDE DEF b
  <2>4. task'[t] = b /\ \A u \in Tasks \ {t} : task'[u] = task[u] BY <1>1, <2>1
  <2> QED BY <2>1, <2>3, <2>4, NothingSpent
<1>7. ASSUME NEW f \in Files, AnalysisSucceeds(t, f) \/ AnalysisFails(t, f) PROVE SpentInv'
  <2> DEFINE a == Analysed(t, f)
  <2>1. Analyses(t, f) /\ used' = used + Charge(t)
    BY <1>7 DEF AnalysisSucceeds, AnalysisFails
  <2>2. /\ a \in Task /\ a.stage = "synced" /\ a.bill = task[t].bill
        /\ a.budget + Charge(t) = task[t].budget
        /\ a.fresh = task[t].fresh
    BY <1>1, <2>1, SpentFacts
  <2>3. \/ task' = [task EXCEPT ![t] = a]
        \/ task' = [task EXCEPT ![t] = [a EXCEPT !.fresh = @ \cup {f}, !.stale = {f}]]
    BY <1>7 DEF AnalysisSucceeds, AnalysisFails
  <2> HIDE DEF a
  <2>4. PICK b : /\ task' = [task EXCEPT ![t] = b] /\ b.stage = "synced"
                 /\ b.bill = a.bill /\ b.budget = a.budget
    <3>1. CASE task' = [task EXCEPT ![t] = a] BY <2>2, <3>1
    <3>2. CASE task' = [task EXCEPT ![t] = [a EXCEPT !.fresh = @ \cup {f}, !.stale = {f}]]
      <4> DEFINE S == task[t].fresh \cup {f}
                 T == {f}
                 c == ToFound(a, S, T)
      <4>1. task' = [task EXCEPT ![t] = c] BY <2>2, <3>2 DEF ToFound
      <4>2. S \in SUBSET Files /\ T \in SUBSET Files BY <1>1 DEF Task
      <4> HIDE DEF S, T
      <4>3. c.stage = a.stage /\ c.bill = a.bill /\ c.budget = a.budget
        BY <2>2, <4>2, Found
      <4> QED BY <2>2, <4>1, <4>3
    <3> QED BY <2>3, <3>1, <3>2
  <2>5. task'[t] = b /\ \A u \in Tasks \ {t} : task'[u] = task[u] BY <1>1, <2>4
  <2>6. task[t].stage = "synced" BY <2>1 DEF Analyses, Due
  <2>7. \A u \in Tasks \ {t} : task'[u].stage # "synced"
    BY <2>5, <2>6, OnlyOne DEF Working
  <2>8. Charge(t) \in Nat /\ a.budget \in Nat BY <2>2 DEF Charge, Task
  <2>9. CASE task[t].bill
    <3>1. used + task[t].budget <= Limit BY <2>6, <2>9 DEF SpentInv
    <3>2. used' + a.budget = used + task[t].budget BY <1>1, <2>1, <2>2, <2>8
    <3>3. used' <= Limit /\ used' + a.budget <= Limit BY <1>1, <2>1, <2>8, <3>1, <3>2
    <3> QED BY <2>4, <2>5, <2>7, <3>3 DEF SpentInv, WithinLimit
  <2>10. CASE ~task[t].bill
    <3>1. used' = used BY <1>1, <2>1, <2>10 DEF Charge
    <3>2. ~task'[t].bill BY <2>2, <2>4, <2>5, <2>10
    <3> QED BY <2>7, <3>1, <3>2 DEF SpentInv, WithinLimit
  <2> QED BY <2>9, <2>10
<1> QED BY <1>2, <1>3, <1>4, <1>5, <1>6, <1>7 DEF Step, Read

(* No scan of the repository is charged beyond the month's allowance, however *)
(* often it is retried or redelivered, as long as none outlasts its lock.     *)
THEOREM ScansArePaid == ASSUME "slow" \notin Ops PROVE Spec => []WithinLimit
<1>1. ASSUME Init PROVE SpentInv
  BY <1>1, CountsAssumption DEF Init, SpentInv, WithinLimit, Idle, NotRunning
<1>2. ASSUME IInv, SpentInv, [Next]_vars PROVE SpentInv'
  <2>1. CASE Request BY <1>2, <2>1, RequestSpends DEF IInv
  <2>2. CASE \E t \in Tasks : Step(t) \/ Crash(t) BY <1>2, <2>2, StepSpends
  <2>3. CASE Expire \/ ExpireEarly \/ UNCHANGED vars
    <3>1. used' = used /\ task' = task BY <2>3 DEF Expire, ExpireEarly, vars
    <3> QED BY <1>2, <3>1 DEF SpentInv, WithinLimit
  <2> QED BY <1>2, <2>1, <2>2, <2>3 DEF Next
<1>3. SpentInv => WithinLimit BY DEF SpentInv
<1> QED BY <1>1, <1>2, <1>3, Invariant, PTL DEF Spec
=============================================================================
