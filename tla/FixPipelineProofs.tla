------------------------- MODULE FixPipelineProofs -------------------------
(***************************************************************************)
(* Theorems about FixPipeline, for every number of files, tasks, batches    *)
(* and external events: its types; DeliveredIsBacked and                    *)
(* NothingIsForgotten; then who works on a fix: PendingHasTask,             *)
(* LandedIsMerged, ClosedIsWithdrawn, BatchNotEarly, OneWorkerPerRow, that  *)
(* the rows keep to FixLifecycle, what keeps a generation or a delivery     *)
(* from being left behind, and that a landed fix stays so.  Those after     *)
(* PendingHasTask are stated of the instances without the external events   *)
(* that break them.                                                         *)
(***************************************************************************)
EXTENDS FixPipeline, FiniteSetTheorems, TLAPS

(***************************************************************************)
(* The edges of the two machines that the actions use.                     *)
(***************************************************************************)

LEMMA FixEdges ==
    ASSUME NEW s
    PROVE  /\ Can(FixMachine, "mark_ready", s) => Advance(FixMachine, "mark_ready", s) = "ready"
           /\ Can(FixMachine, "restore", s) => Advance(FixMachine, "restore", s) = "ready"
           /\ Can(FixMachine, "precheck_failed", s)
                => Advance(FixMachine, "precheck_failed", s) = "failed"
           /\ Can(FixMachine, "precheck_no_op", s)
                => Advance(FixMachine, "precheck_no_op", s) = "no_op"
           /\ Can(FixMachine, "supersede_closed_pr", s)
                => Advance(FixMachine, "supersede_closed_pr", s) = "superseded_by_closed_pr"
           /\ Can(FixMachine, "supersede_deleted_file", s)
                => Advance(FixMachine, "supersede_deleted_file", s) = "superseded_by_deleted_file"
           /\ Can(FixMachine, "reject", s) => Advance(FixMachine, "reject", s) = "rejected_by_user"
           /\ Can(FixMachine, "regenerate", s) => Advance(FixMachine, "regenerate", s) = "pending"
           /\ Can(FixMachine, "land", s)
                => s = "delivered" /\ Advance(FixMachine, "land", s) = "landed"
           /\ Can(FixMachine, "swept", s) => Advance(FixMachine, "swept", s) = "failed"
  BY DEF Can, Advance, FixMachine

LEMMA FixOutcomes ==
    /\ Advance(FixMachine, "generation_succeeded", "generating") = "ready"
    /\ Advance(FixMachine, "generation_failed", "generating") = "failed"
    /\ Advance(FixMachine, "delivery_succeeded", "delivering") = "delivered"
    /\ Advance(FixMachine, "delivery_failed", "delivering") = "failed"
  BY DEF Advance, FixMachine

LEMMA PrEdges ==
    ASSUME NEW s \in PrState, NEW event \in DOMAIN PullRequestMachine
    PROVE  TryAdvance(PullRequestMachine, event, s) \in PrState
  BY DEF Can, Advance, TryAdvance, PullRequestMachine, PrState

LEMMA MoveType ==
    ASSUME NEW row \in Row, NEW s \in FixStatus
    PROVE  /\ Move(row, s) \in Row
           /\ Move(row, s).st = s
           /\ Move(row, s).id = row.id
           /\ Move(row, s).content = row.content
           /\ Move(row, s).pr = row.pr
  BY DEF Move, Row

-----------------------------------------------------------------------------
(***************************************************************************)
(* Types of rows and tasks.                                                *)
(***************************************************************************)

LEMMA RowTypes ==
    ASSUME TypeOK, NEW f \in Files
    PROVE  /\ fix[f] \in Row
           /\ Absent \in Row
           /\ NewRow(f) \in Row
           /\ NewRow(f).id = made[f] + 1 /\ NewRow(f).st = "pending"
           /\ NewRow(f).pr = NoPr /\ NewRow(f).content = FALSE
<1>1. fix[f] \in Row /\ made[f] + 1 \in Nat
  BY DEF TypeOK
<1>2. Absent \in Row /\ Absent.pr = NoPr /\ Absent.content = FALSE
  BY DEF Absent, Row
<1>3. ASSUME NEW row \in Row, NEW n \in Nat
      PROVE  LET new == [row EXCEPT !.id = n, !.st = "pending"]
             IN  /\ new \in Row /\ new.id = n /\ new.st = "pending"
                 /\ new.pr = row.pr /\ new.content = row.content
  BY DEF Row, FixStatus
<1>4. QED
  BY <1>1, <1>2, <1>3 DEF NewRow

LEMMA FireType ==
    ASSUME NEW row \in Row, NEW event \in DOMAIN FixMachine, Can(FixMachine, event, row.st)
    PROVE  /\ Fire(row, event) \in Row
           /\ Fire(row, event).st = Advance(FixMachine, event, row.st)
           /\ Fire(row, event).id = row.id
           /\ Fire(row, event).content = row.content
           /\ Fire(row, event).pr = row.pr
<1>1. Advance(FixMachine, event, row.st) \in FixStatus
  BY DEF Can, Advance, FixMachine, FixStatus, InFlight, Superseded
<1>2. QED
  BY <1>1, MoveType DEF Fire

(* A task that delivers nothing and has loaded no row yet. *)
NoDelivery(task) == task.kind # "del" /\ \A f \in Files : task.rows[f] = 0

LEMMA TaskTypes ==
    /\ Idle \in Job /\ Idle.kind = "idle" /\ \A f \in Files : Idle.rows[f] = 0
    /\ ScanTask \in Job /\ ScanTask.kind = "scan" /\ \A f \in Files : ScanTask.rows[f] = 0
    /\ \A f \in Files, k \in Batches \cup {NoBatch} :
         /\ GenTask(f, k) \in Job /\ GenTask(f, k).kind = "gen"
         /\ \A g \in Files : GenTask(f, k).rows[g] = 0
    /\ \A rows \in [Files -> Nat], b \in Branches, force \in BOOLEAN :
         /\ DelTask(rows, b, force) \in Job
         /\ DelTask(rows, b, force).files = {}
         /\ DelTask(rows, b, force).rows = rows
<1>1. /\ Idle \in Job /\ Idle.kind = "idle"
      /\ Idle.files = {} /\ Idle.rows = [f \in Files |-> 0]
  BY DEF Idle, Job, Branches
<1>2. ASSUME NEW kind \in {"gen", "del", "scan"}, NEW files \in SUBSET Files,
             NEW k \in Batches \cup {NoBatch}
      PROVE  [Idle EXCEPT !.kind = kind, !.files = files, !.batch = k] \in Job
  BY <1>1 DEF Job
<1>3. ScanTask \in Job /\ ScanTask.kind = "scan" /\ ScanTask.rows = Idle.rows
  BY <1>1 DEF ScanTask, Job
<1>4. ASSUME NEW f \in Files, NEW k \in Batches \cup {NoBatch}
      PROVE  /\ GenTask(f, k) \in Job /\ GenTask(f, k).kind = "gen"
             /\ GenTask(f, k).rows = Idle.rows
  <2>1. {f} \in SUBSET Files
    OBVIOUS
  <2>2. GenTask(f, k) \in Job
    BY <1>2, <2>1 DEF GenTask
  <2>3. GenTask(f, k).kind = "gen" /\ GenTask(f, k).rows = Idle.rows
    BY DEF GenTask, Idle
  <2>4. QED
    BY <2>2, <2>3
<1>5. ASSUME NEW rows \in [Files -> Nat], NEW b \in Branches, NEW force \in BOOLEAN
      PROVE  /\ DelTask(rows, b, force) \in Job
             /\ DelTask(rows, b, force).files = {}
             /\ DelTask(rows, b, force).rows = rows
  BY <1>1 DEF DelTask, Job
<1>6. \A f \in Files : Idle.rows[f] = 0
  BY <1>1
<1>7. QED
  BY <1>1, <1>3, <1>4, <1>5, <1>6

LEMMA PhaseType ==
    ASSUME NEW task \in Job, NEW phase \in {"queued", "checked", "running", "pushed", "ended"}
    PROVE  [task EXCEPT !.phase = phase] \in Job
  BY DEF Job

LEMMA RowIdsType ==
    ASSUME NEW F, NEW rows \in [Files -> Row]
    PROVE  /\ RowIds(F, rows) \in [Files -> Nat]
           /\ \A f \in Files : RowIds(F, rows)[f] \in {0, rows[f].id}
  BY DEF RowIds, Row

LEMMA DispatchType ==
    ASSUME TypeOK, NEW F \in SUBSET Files, NEW own \in SUBSET Jobs, Dispatch(F, own)
    PROVE  /\ batch' \in [Batches -> [left : Nat, ready : BOOLEAN]]
           /\ job' \in [Jobs -> Job]
           /\ \A j \in Jobs : job'[j] = job[j] \/ NoDelivery(job'[j])
<1>1. Cardinality(F) \in Nat
  BY FilesAssumption, FS_Subset, FS_CardinalityType
<1>2. PICK k \in Batches, place \in [F -> Free \cup own] :
         /\ batch' = [batch EXCEPT ![k] = InitBatch(Cardinality(F))]
         /\ job' = [j \in Jobs |->
                      IF \E f \in F : place[f] = j
                        THEN GenTask(CHOOSE f \in F : place[f] = j, k)
                      ELSE IF j \in own THEN Idle ELSE job[j]]
  BY DEF Dispatch
<1>3. InitBatch(Cardinality(F)) \in [left : Nat, ready : BOOLEAN]
  BY <1>1 DEF InitBatch
<1>4. ASSUME NEW j \in Jobs
      PROVE  job'[j] \in Job /\ (job'[j] = job[j] \/ NoDelivery(job'[j]))
  <2>1. CASE \E f \in F : place[f] = j
    <3>1. (CHOOSE f \in F : place[f] = j) \in Files
      BY <2>1
    <3>2. QED
      BY <1>2, <2>1, <3>1, TaskTypes DEF NoDelivery
  <2>2. CASE ~(\E f \in F : place[f] = j)
    BY <1>2, <2>2, TaskTypes DEF TypeOK, NoDelivery
  <2>3. QED
    BY <2>1, <2>2
<1>5. QED
  BY <1>2, <1>3, <1>4 DEF TypeOK

LEMMA CountedType ==
    ASSUME TypeOK, NEW k \in Batches \cup {NoBatch}, NEW ok \in BOOLEAN
    PROVE  Counted(k, ok) \in [Batches -> [left : Nat, ready : BOOLEAN]]
<1>1. CASE k = NoBatch
  BY <1>1 DEF TypeOK, Counted
<1>2. CASE k # NoBatch /\ batch[k].left <= 1
  BY <1>2 DEF TypeOK, Counted, EmptyBatch
<1>3. CASE k # NoBatch /\ ~(batch[k].left <= 1)
  <2>1. batch[k].left \in Nat /\ batch[k].ready \in BOOLEAN
    BY <1>3 DEF TypeOK
  <2>2. [left |-> batch[k].left - 1, ready |-> batch[k].ready \/ ok]
           \in [left : Nat, ready : BOOLEAN]
    BY <1>3, <2>1
  <2>3. Counted(k, ok) = [batch EXCEPT ![k] =
                            [left |-> batch[k].left - 1, ready |-> batch[k].ready \/ ok]]
    BY <1>3 DEF Counted, TypeOK
  <2>4. QED
    BY <2>2, <2>3 DEF TypeOK
<1>4. QED
  BY <1>1, <1>2, <1>3

LEMMA EndGenerationType ==
    ASSUME TypeOK, NEW j \in Jobs, NEW ok \in BOOLEAN, EndGeneration(j, ok)
    PROVE  /\ batch' \in [Batches -> [left : Nat, ready : BOOLEAN]]
           /\ \E task \in Job :
                /\ job' = [job EXCEPT ![j] = task]
                /\ task.kind = "del" => task.files = {}
                /\ \A f \in Files : task.rows[f] \in {0, fix[f].id}
<1>1. batch' \in [Batches -> [left : Nat, ready : BOOLEAN]]
  <2>1. job[j].batch \in Batches \cup {NoBatch}
    BY DEF TypeOK, Job
  <2>2. QED
    BY <2>1, CountedType DEF EndGeneration
<1>2. CASE job' = [job EXCEPT ![j] = Idle]
  BY <1>1, <1>2, TaskTypes
<1>3. CASE job' # [job EXCEPT ![j] = Idle]
  <2> DEFINE isReady == {f \in Files : fix[f].st = "ready"}
  <2>1. PICK b \in Branches : job' = [job EXCEPT ![j] = DelTask(RowIds(isReady, fix), b, FALSE)]
    BY <1>3 DEF EndGeneration, Branches
  <2>2. /\ RowIds(isReady, fix) \in [Files -> Nat]
        /\ \A f \in Files : RowIds(isReady, fix)[f] \in {0, fix[f].id}
    BY RowIdsType DEF TypeOK
  <2> HIDE DEF isReady
  <2>3. /\ DelTask(RowIds(isReady, fix), b, FALSE) \in Job
        /\ DelTask(RowIds(isReady, fix), b, FALSE).files = {}
        /\ DelTask(RowIds(isReady, fix), b, FALSE).rows = RowIds(isReady, fix)
    BY <2>2, TaskTypes
  <2>4. QED
    BY <1>1, <2>1, <2>2, <2>3
<1>4. QED
  BY <1>2, <1>3

-----------------------------------------------------------------------------
(***************************************************************************)
(* Type correctness: the steps of each action.                             *)
(***************************************************************************)

LEMMA OpsType ==
    ASSUME TypeOK
    PROVE  \A kind \in OpKinds : External(kind) => ops' \in Nat
  BY DEF TypeOK, External

LEMMA RecreateType ==
    ASSUME TypeOK, NEW F \in SUBSET Files, Recreate(F)
    PROVE  /\ fix' \in [Files -> Row]
           /\ made' \in [Files -> Nat]
<1>1. \A f \in Files : fix[f] \in Row /\ NewRow(f) \in Row
  BY RowTypes
<1>2. \A f \in Files : made[f] \in Nat /\ made[f] + 1 \in Nat
  BY DEF TypeOK
<1>3. QED
  BY <1>1, <1>2 DEF Recreate

LEMMA DropType ==
    ASSUME TypeOK, NEW F \in SUBSET Files, DropOrphanedClosedPrs(F)
    PROVE  pr' \in [Branches -> PrState \cup {"none"}]
  BY DEF TypeOK, DropOrphanedClosedPrs

LEMMA QueueType ==
    ASSUME TypeOK, NEW F, NEW b \in Branches, NEW force \in BOOLEAN,
           QueueDelivery(F, b, force)
    PROVE  \E j \in Jobs, task \in Job :
             /\ job' = [job EXCEPT ![j] = task] /\ job' \in [Jobs -> Job]
             /\ task.files = {}
             /\ \A f \in Files : task.rows[f] \in {0, fix[f].id}
<1> DEFINE task == DelTask(RowIds(F, fix), b, force)
<1>1. /\ RowIds(F, fix) \in [Files -> Nat]
      /\ \A f \in Files : RowIds(F, fix)[f] \in {0, fix[f].id}
  BY RowIdsType DEF TypeOK
<1>2. task \in Job /\ task.files = {} /\ \A f \in Files : task.rows[f] \in {0, fix[f].id}
  BY <1>1, TaskTypes
<1>3. PICK j \in Jobs : job' = [job EXCEPT ![j] = task]
  BY DEF QueueDelivery, Free
<1>4. job' \in [Jobs -> Job]
  BY <1>2, <1>3 DEF TypeOK
<1> HIDE DEF task
<1>5. QED
  BY <1>2, <1>3, <1>4

LEMMA PrType ==
    ASSUME NEW s \in PrState \cup {"none"}
    PROVE  /\ Recorded(s) \in PrState
           /\ \A event \in DOMAIN PullRequestMachine :
                TryAdvance(PullRequestMachine, event, s) \in PrState \cup {"none"}
           /\ \A event \in DOMAIN PullRequestMachine :
                s # "none" => TryAdvance(PullRequestMachine, event, s) # "none"
<1>1. {"reopen", "redeliver", "merge", "close", "convert_to_draft", "mark_ready_for_review"}
        \subseteq DOMAIN PullRequestMachine
  BY DEF PullRequestMachine
<1>2. \A event \in DOMAIN PullRequestMachine : ~Can(PullRequestMachine, event, "none")
  BY DEF Can, PullRequestMachine
<1>3. "none" \notin PrState /\ "open" \in PrState
  BY DEF PrState
<1>4. QED
  BY <1>1, <1>2, <1>3, PrEdges DEF Recorded, TryAdvance

LEMMA RequestType ==
    ASSUME TypeOK, Request
    PROVE  TypeOK'
<1>1. ASSUME NEW F \in SUBSET Files, NEW force \in BOOLEAN, Generate(F, force)
      PROVE  TypeOK'
  <2> DEFINE replaced == {f \in F : force \/ fix[f].st # "delivered"}
  <2>1. /\ Recreate(replaced) /\ Dispatch(replaced, {}) /\ External("generate")
        /\ UNCHANGED <<file, pr, head>>
    BY <1>1 DEF Generate
  <2>2. replaced \in SUBSET Files
    OBVIOUS
  <2>3. fix' \in [Files -> Row] /\ made' \in [Files -> Nat]
    BY <2>1, <2>2, RecreateType
  <2>4. batch' \in [Batches -> [left : Nat, ready : BOOLEAN]] /\ job' \in [Jobs -> Job]
    BY <2>1, <2>2, DispatchType
  <2>5. QED
    BY <2>1, <2>3, <2>4, OpsType DEF TypeOK, OpKinds
<1>2. ASSUME NEW F \in SUBSET Files, ReplaceFixes(F)
      PROVE  TypeOK'
  BY <1>2, RecreateType, DropType, DispatchType, OpsType DEF ReplaceFixes, TypeOK, OpKinds
<1>3. ASSUME RegenerateRepository
      PROVE  TypeOK'
  BY <1>2, <1>3 DEF RegenerateRepository
<1>4. ASSUME NEW f \in Files, RegenerateFix(f)
      PROVE  TypeOK'
  BY <1>2, <1>4 DEF RegenerateFix
<1>5. ASSUME NEW f \in Files, RetryFix(f)
      PROVE  TypeOK'
  <2>1. RetriedRow(fix[f]) \in Row
    BY <1>5, RowTypes, FireType DEF RetryFix, RetriedRow, FixMachine
  <2>2. GenTask(f, NoBatch) \in Job
    BY TaskTypes
  <2>3. fix' \in [Files -> Row] /\ job' \in [Jobs -> Job]
    BY <1>5, <2>1, <2>2 DEF RetryFix, Free, TypeOK
  <2>4. QED
    BY <1>5, <2>3, OpsType DEF RetryFix, TypeOK, OpKinds
<1>6. ASSUME NEW f \in Files, RejectFix(f)
      PROVE  TypeOK'
  <2>1. Fire(fix[f], "reject") \in Row
    BY <1>6, RowTypes, FireType DEF RejectFix, FixMachine
  <2>2. QED
    BY <1>6, <2>1, OpsType DEF RejectFix, TypeOK, OpKinds
<1>7. ASSUME NEW f \in Files, NEW force \in BOOLEAN, DeliverFix(f, force)
      PROVE  TypeOK'
  <2>1. (IF fix[f].pr # NoPr THEN fix[f].pr ELSE f) \in Branches
    BY RowTypes DEF Row, Branches
  <2>2. job' \in [Jobs -> Job]
    BY <1>7, <2>1, QueueType DEF DeliverFix
  <2>3. QED
    BY <1>7, <2>2, OpsType DEF DeliverFix, TypeOK, OpKinds
<1>8. ASSUME NEW force \in BOOLEAN, DeliverRepository(force)
      PROVE  TypeOK'
  <2>1. {fix[f].pr : f \in Files} \ {NoPr} \subseteq Branches
    BY RowTypes DEF Row, Branches
  <2>2. job' \in [Jobs -> Job]
    BY <1>8, <2>1, QueueType DEF DeliverRepository, Branches
  <2>3. QED
    BY <1>8, <2>2, OpsType DEF DeliverRepository, TypeOK, OpKinds
<1>9. ASSUME SyncPullRequests
      PROVE  TypeOK'
  <2>1. pr' \in [Branches -> PrState \cup {"none"}]
    <3>1. PICK seen \in [{b \in Branches : pr[b] = "open"} -> {"open", "merge", "close"}] :
            pr' = [b \in Branches |->
                     IF b \in DOMAIN seen /\ seen[b] # "open"
                       THEN TryAdvance(PullRequestMachine, seen[b], pr[b]) ELSE pr[b]]
      BY <1>9 DEF SyncPullRequests
    <3>2. \A b \in DOMAIN seen :
            seen[b] # "open" => seen[b] \in DOMAIN PullRequestMachine
      BY DEF PullRequestMachine
    <3>3. QED
      BY <3>1, <3>2, PrType DEF TypeOK
  <2>2. fix' \in [Files -> Row]
    <3>1. ASSUME NEW f \in Files
          PROVE  [fix[f] EXCEPT !.pr = Relinked(f)] \in Row
      <4>1. fix[f] \in Row /\ Relinked(f) \in Branches \cup {NoPr}
        BY RowTypes DEF Relinked, Row, Branches
      <4>2. QED
        BY <4>1 DEF Row
    <3>2. QED
      BY <1>9, <3>1 DEF SyncPullRequests
  <2>3. QED
    BY <1>9, <2>1, <2>2, OpsType DEF SyncPullRequests, TypeOK, OpKinds
<1>10. ASSUME RequestScan
       PROVE  TypeOK'
  BY <1>10, TaskTypes, OpsType DEF RequestScan, Free, TypeOK, OpKinds
<1>11. QED
  BY <1>1, <1>3, <1>4, <1>5, <1>6, <1>7, <1>8, <1>9, <1>10 DEF Request

LEMMA GitHubType ==
    ASSUME TypeOK, GitHub
    PROVE  TypeOK'
<1>1. ASSUME NEW b \in Branches, NEW event \in LifecycleEvents, PullRequestLifecycle(b, event)
      PROVE  TypeOK'
  <2>1. pr' \in [Branches -> PrState \cup {"none"}]
    <3>1. event \in DOMAIN PullRequestMachine
      BY DEF LifecycleEvents, PullRequestMachine
    <3>2. QED
      BY <1>1, <3>1, PrType DEF PullRequestLifecycle, TypeOK
  <2>2. fix' \in [Files -> Row]
    <3>1. SideEffect[event] \in DOMAIN FixMachine
      BY DEF SideEffect, LifecycleEvents, FixMachine
    <3>2. ASSUME NEW f \in Touched(b, event)
          PROVE  Fire(fix[f], SideEffect[event]) \in Row
      BY <3>1, RowTypes, FireType DEF Touched
    <3>3. QED
      BY <1>1, <3>2 DEF PullRequestLifecycle, TypeOK
  <2>3. file' \in [Files -> [present : BOOLEAN, open : BOOLEAN]]
    <3>1. \A f \in Files : /\ file[f] \in [present : BOOLEAN, open : BOOLEAN]
                           /\ [file[f] EXCEPT !.open = FALSE] \in [present : BOOLEAN, open : BOOLEAN]
      <4>1. \A f \in Files : file[f] \in [present : BOOLEAN, open : BOOLEAN]
        BY DEF TypeOK
      <4>2. QED
        BY <4>1
    <3>2. QED
      BY <1>1, <3>1 DEF PullRequestLifecycle
  <2>4. QED
    BY <1>1, <2>1, <2>2, <2>3, OpsType DEF PullRequestLifecycle, TypeOK, OpKinds
<1>2. ASSUME NEW b \in Branches, PullRequestOpened(b)
      PROVE  TypeOK'
  <2>1. "reopen" \in DOMAIN PullRequestMachine /\ "open" \in PrState
    BY DEF PullRequestMachine, PrState
  <2>2. pr' \in [Branches -> PrState \cup {"none"}]
    BY <1>2, <2>1, PrType DEF PullRequestOpened, TypeOK
  <2>3. QED
    BY <1>2, <2>2, OpsType DEF PullRequestOpened, TypeOK, OpKinds
<1>3. ASSUME NEW b \in Branches, NEW event \in {"convert_to_draft", "mark_ready_for_review"},
             PullRequestDraftToggle(b, event)
      PROVE  TypeOK'
  <2>1. Advance(PullRequestMachine, event, pr[b]) \in PrState
    BY <1>3 DEF PullRequestDraftToggle, Can, Advance, PullRequestMachine, PrState
  <2>2. QED
    BY <1>3, <2>1, OpsType DEF PullRequestDraftToggle, TypeOK, OpKinds
<1>4. ASSUME NEW f \in Files, CommitFile(f)
      PROVE  TypeOK'
  BY <1>4, OpsType DEF CommitFile, TypeOK, OpKinds
<1>5. QED
  BY <1>1, <1>2, <1>3, <1>4 DEF GitHub

LEMMA EndedType ==
    ASSUME TypeOK, NEW j \in Jobs, NEW ok \in BOOLEAN, EndGeneration(j, ok)
    PROVE  /\ batch' \in [Batches -> [left : Nat, ready : BOOLEAN]]
           /\ job' \in [Jobs -> Job]
<1>1. \A task \in Job : [job EXCEPT ![j] = task] \in [Jobs -> Job]
  BY DEF TypeOK
<1>2. QED
  BY <1>1, EndGenerationType

LEMMA GenerationType ==
    ASSUME TypeOK, NEW j \in Jobs,
           GenStart(j) \/ GenSucceed(j) \/ GenFail(j) \/ GenCount(j) \/ GenLost(j)
    PROVE  TypeOK'
<1>0. /\ \A f \in Files : fix[f] \in Row
      /\ job[j].files \subseteq Files
      /\ \A task \in Job : [job EXCEPT ![j] = task] \in [Jobs -> Job]
      /\ \A f \in Files, row \in Row : [fix EXCEPT ![f] = row] \in [Files -> Row]
  BY DEF TypeOK, Job
<1>1. CASE GenStart(j)
  <2>1. PICK f \in job[j].files :
           IF Takes(f)
             THEN /\ fix' = [fix EXCEPT ![f] = Move(@, "generating")]
                  /\ job' = [job EXCEPT ![j].phase = "running", ![j].rows[f] = fix[f].id]
                  /\ UNCHANGED batch
             ELSE /\ EndGeneration(j, FALSE)
                  /\ UNCHANGED fix
    BY <1>1 DEF GenStart
  <2>2. CASE Takes(f)
    <3>1. Move(fix[f], "generating") \in Row
      BY <1>0, MoveType DEF FixStatus
    <3>2. [job[j] EXCEPT !.phase = "running", !.rows[f] = fix[f].id] \in Job
      <4>1. job[j] \in Job /\ fix[f].id \in Nat /\ f \in Files
        BY <1>0 DEF TypeOK, Row
      <4>2. QED
        BY <4>1 DEF Job
    <3>3. job' = [job EXCEPT ![j] = [job[j] EXCEPT !.phase = "running", !.rows[f] = fix[f].id]]
      BY <2>1, <2>2 DEF TypeOK
    <3>4. fix' \in [Files -> Row]
      BY <1>0, <2>1, <2>2, <3>1
    <3>5. job' \in [Jobs -> Job]
      BY <1>0, <3>2, <3>3
    <3>6. QED
      BY <1>1, <2>1, <2>2, <3>4, <3>5 DEF GenStart, TypeOK
  <2>3. CASE ~Takes(f)
    <3>1. EndGeneration(j, FALSE) /\ UNCHANGED fix /\ fix \in [Files -> Row]
      BY <2>1, <2>3 DEF TypeOK
    <3>2. QED
      BY <1>1, <3>1, EndedType DEF GenStart, TypeOK
  <2>4. QED
    BY <2>2, <2>3
<1>2. CASE GenSucceed(j)
  <2>1. PICK f \in job[j].files, flagged \in BOOLEAN :
          fix' = [fix EXCEPT ![f] =
                    [Move(fix[f], Advance(FixMachine, "generation_succeeded", "generating"))
                       EXCEPT !.content = TRUE, !.manual = flagged]]
    BY <1>2 DEF GenSucceed
  <2> DEFINE moved == Move(fix[f], Advance(FixMachine, "generation_succeeded", "generating"))
  <2>2. moved \in Row
    BY <1>0, FixOutcomes, MoveType DEF FixStatus
  <2>3. [moved EXCEPT !.content = TRUE, !.manual = flagged] \in Row
    BY <2>2 DEF Row
  <2>4. fix' \in [Files -> Row]
    BY <1>0, <2>1, <2>3
  <2>5. [job[j] EXCEPT !.phase = "ended", !.ok = TRUE] \in Job
    <3>1. ASSUME NEW task \in Job
          PROVE  [task EXCEPT !.phase = "ended", !.ok = TRUE] \in Job
      BY <3>1 DEF Job
    <3>2. job[j] \in Job
      BY DEF TypeOK
    <3>3. QED
      BY <3>1, <3>2
  <2>6. job' = [job EXCEPT ![j] = [job[j] EXCEPT !.phase = "ended", !.ok = TRUE]]
    BY <1>2 DEF GenSucceed, TypeOK
  <2>7. job' \in [Jobs -> Job]
    BY <1>0, <2>5, <2>6
  <2>8. QED
    BY <1>2, <2>4, <2>7 DEF GenSucceed, TypeOK
<1>3. CASE GenFail(j)
  <2>1. PICK f \in job[j].files : fix' = [fix EXCEPT ![f] = FailedRow(@)]
    BY <1>3 DEF GenFail
  <2>2. FailedRow(fix[f]) \in Row
    BY <1>0, FixOutcomes, MoveType DEF FailedRow, FixStatus
  <2>3. fix' \in [Files -> Row]
    BY <1>0, <2>1, <2>2
  <2>4. [job[j] EXCEPT !.phase = "ended"] \in Job
    <3>1. job[j] \in Job
      BY DEF TypeOK
    <3>2. QED
      BY <3>1, PhaseType
  <2>5. job' = [job EXCEPT ![j] = [job[j] EXCEPT !.phase = "ended"]]
    BY <1>3 DEF GenFail, TypeOK
  <2>6. job' \in [Jobs -> Job]
    BY <1>0, <2>4, <2>5
  <2>7. QED
    BY <1>3, <2>3, <2>6 DEF GenFail, TypeOK
<1>4. CASE GenCount(j)
  <2>1. job[j].ok \in BOOLEAN
    BY DEF TypeOK, Job
  <2>2. QED
    BY <1>4, <2>1, EndedType DEF GenCount, TypeOK
<1>5. CASE GenLost(j)
  BY <1>0, <1>5, TaskTypes DEF GenLost, TypeOK
<1>6. QED
  BY <1>1, <1>2, <1>3, <1>4, <1>5

LEMMA DeliveryType ==
    ASSUME TypeOK, NEW j \in Jobs,
           \/ DelPrecheck(j) \/ DelClaim(j) \/ DelPush(j)
           \/ DelSucceed(j) \/ DelFail(j) \/ DelLost(j)
    PROVE  TypeOK'
<1> DEFINE t == job[j]
<1>0. /\ \A f \in Files : fix[f] \in Row
      /\ t \in Job /\ t.branch \in Branches /\ t.files \subseteq Files
      /\ \A task \in Job : [job EXCEPT ![j] = task] \in [Jobs -> Job]
      /\ \A phase \in {"queued", "checked", "running", "pushed"} :
           [t EXCEPT !.phase = phase] \in Job
  <2>1. t \in Job
    BY DEF TypeOK
  <2>2. \A f \in Files : fix[f] \in Row
    BY DEF TypeOK
  <2>3. t.branch \in Branches /\ t.files \subseteq Files
    BY <2>1 DEF Job
  <2>4. \A task \in Job : [job EXCEPT ![j] = task] \in [Jobs -> Job]
    BY DEF TypeOK
  <2>5. QED
    BY <2>1, <2>2, <2>3, <2>4, PhaseType
<1>1. CASE DelPrecheck(j)
  <2>1. ASSUME NEW f \in Files
        PROVE  fix'[f] \in Row
    <3>1. /\ Move(fix[f], "failed") \in Row
          /\ Move(fix[f], "no_op") \in Row
      BY <1>0, MoveType DEF FixStatus
    <3>2. ASSUME fix[f].st = "ready"
          PROVE  /\ [Fire(fix[f], "supersede_closed_pr") EXCEPT !.pr = t.branch] \in Row
                 /\ Fire(fix[f], "precheck_failed") \in Row
                 /\ Fire(fix[f], "precheck_no_op") \in Row
      <4>1. /\ Fire(fix[f], "supersede_closed_pr") \in Row
            /\ Fire(fix[f], "precheck_failed") \in Row
            /\ Fire(fix[f], "precheck_no_op") \in Row
        BY <1>0, <3>2, FireType DEF Can, FixMachine
      <4>2. QED
        BY <1>0, <4>1 DEF Row
    <3>3. QED
      BY <1>0, <1>1, <3>1, <3>2 DEF DelPrecheck, Loads
  <2>2. fix' \in [Files -> Row]
    BY <1>1, <2>1 DEF DelPrecheck
  <2>3. ASSUME NEW F \in SUBSET Files
        PROVE  [t EXCEPT !.phase = "checked", !.files = F] \in Job
    BY <1>0 DEF Job
  <2>4. job' \in [Jobs -> Job]
    <3> DEFINE loaded == {f \in Files : Loads(j, f)}
               kept   == (loaded \ {f \in loaded : IsEmpty(f)})
                           \ {f \in loaded \ {f \in loaded : IsEmpty(f)} : fix[f].manual}
    <3>1. kept \in SUBSET Files
      OBVIOUS
    <3>2. \/ job' = [job EXCEPT ![j] = Idle]
          \/ job' = [job EXCEPT ![j] = [t EXCEPT !.phase = "checked", !.files = kept]]
      BY <1>1 DEF DelPrecheck, TypeOK
    <3>3. [t EXCEPT !.phase = "checked", !.files = kept] \in Job /\ Idle \in Job
      BY <2>3, <3>1, TaskTypes
    <3>4. QED
      BY <1>0, <3>2, <3>3
  <2>5. QED
    BY <1>1, <2>2, <2>4 DEF DelPrecheck, TypeOK
<1>2. CASE DelClaim(j)
  <2>1. \A f \in Files : Move(fix[f], "delivering") \in Row
    BY <1>0, MoveType DEF FixStatus
  <2>2. fix' \in [Files -> Row]
    BY <1>0, <1>2, <2>1 DEF DelClaim
  <2>3. job' \in [Jobs -> Job]
    BY <1>0, <1>2, TaskTypes DEF DelClaim, TypeOK
  <2>4. QED
    BY <1>2, <2>2, <2>3 DEF DelClaim, TypeOK
<1>3. CASE DelPush(j)
  <2>1. job' = [job EXCEPT ![j] = [t EXCEPT !.phase = "pushed"]]
    BY <1>3 DEF DelPush, TypeOK
  <2>2. head' \in [Branches -> SUBSET Files]
    BY <1>0, <1>3 DEF DelPush, TypeOK
  <2>3. job' \in [Jobs -> Job]
    BY <1>0, <2>1
  <2>4. QED
    BY <1>3, <2>2, <2>3 DEF DelPush, TypeOK
<1>4. CASE DelSucceed(j)
  <2>1. \A f \in Files :
          [Move(fix[f], Advance(FixMachine, "delivery_succeeded", "delivering"))
             EXCEPT !.pr = t.branch] \in Row
    <3>1. \A f \in Files : Move(fix[f], "delivered") \in Row
      BY <1>0, MoveType DEF FixStatus
    <3>2. QED
      BY <1>0, <3>1, FixOutcomes DEF Row
  <2>2. fix' \in [Files -> Row]
    BY <1>0, <1>4, <2>1 DEF DelSucceed
  <2>3. pr' \in [Branches -> PrState \cup {"none"}]
    BY <1>4, PrType DEF DelSucceed, TypeOK
  <2>4. job' \in [Jobs -> Job]
    BY <1>0, <1>4, TaskTypes DEF DelSucceed
  <2>5. QED
    BY <1>4, <2>2, <2>3, <2>4 DEF DelSucceed, TypeOK
<1>5. CASE DelFail(j)
  <2>1. \A f \in Files :
          Move(fix[f], Advance(FixMachine, "delivery_failed", "delivering")) \in Row
    BY <1>0, FixOutcomes, MoveType DEF FixStatus
  <2>2. fix' \in [Files -> Row]
    BY <1>0, <1>5, <2>1 DEF DelFail
  <2>3. job' \in [Jobs -> Job] /\ ops' \in Nat
    <3>1. Idle \in Job /\ ScanTask \in Job
      BY TaskTypes
    <3>2. External("file") => ops' \in Nat
      BY OpsType DEF OpKinds
    <3>3. QED
      BY <1>0, <1>5, <3>1, <3>2 DEF DelFail, TypeOK
  <2>4. QED
    BY <1>5, <2>2, <2>3 DEF DelFail, TypeOK
<1>6. CASE DelLost(j)
  BY <1>0, <1>6, TaskTypes DEF DelLost, TypeOK
<1>7. QED
  BY <1>1, <1>2, <1>3, <1>4, <1>5, <1>6

LEMMA ScanType ==
    ASSUME TypeOK, NEW j \in Jobs, ScanSync(j) \/ ScanFinish(j)
    PROVE  TypeOK'
<1>0. /\ \A f \in Files : fix[f] \in Row
      /\ \A f \in Files : file[f] \in [present : BOOLEAN, open : BOOLEAN]
      /\ \A f \in Files, open \in BOOLEAN :
           [file[f] EXCEPT !.open = open] \in [present : BOOLEAN, open : BOOLEAN]
      /\ job[j] \in Job /\ job[j].files \subseteq Files
      /\ \A task \in Job : [job EXCEPT ![j] = task] \in [Jobs -> Job]
  <2>1. /\ \A f \in Files : fix[f] \in Row
        /\ \A f \in Files : file[f] \in [present : BOOLEAN, open : BOOLEAN]
        /\ job[j] \in Job
        /\ \A task \in Job : [job EXCEPT ![j] = task] \in [Jobs -> Job]
    BY DEF TypeOK
  <2>2. job[j].files \subseteq Files
    BY <2>1 DEF Job
  <2>3. ASSUME NEW r \in [present : BOOLEAN, open : BOOLEAN], NEW b \in BOOLEAN
        PROVE  [r EXCEPT !.open = b] \in [present : BOOLEAN, open : BOOLEAN]
    OBVIOUS
  <2>4. QED
    BY <2>1, <2>2, <2>3
<1>1. CASE ScanSync(j)
  <2> DEFINE there == {f \in Files : file[f].present}
  <2>1. ASSUME NEW f \in Files, NEW event \in {"restore", "supersede_deleted_file"}
        PROVE  TryFire(fix[f], event) \in Row
    BY <1>0, FireType DEF TryFire, FixMachine
  <2>2. fix' \in [Files -> Row]
    BY <1>1, <2>1 DEF ScanSync
  <2>3. file' \in [Files -> [present : BOOLEAN, open : BOOLEAN]]
    BY <1>0, <1>1 DEF ScanSync
  <2>4. [job[j] EXCEPT !.phase = "running", !.files = there] \in Job
    BY <1>0 DEF Job
  <2>5. job' = [job EXCEPT ![j] = [job[j] EXCEPT !.phase = "running", !.files = there]]
    BY <1>1 DEF ScanSync, TypeOK
  <2>6. job' \in [Jobs -> Job]
    BY <1>0, <2>4, <2>5
  <2>7. QED
    BY <1>1, <2>2, <2>3, <2>6 DEF ScanSync, TypeOK
<1>2. CASE ScanFinish(j)
  <2>0. PICK changed \in SUBSET job[j].files : \E violating \in SUBSET changed :
          LET open == violating \cup {f \in Files \ changed : file[f].open} IN
          /\ file' = [f \in Files |-> [file[f] EXCEPT !.open = (f \in open)]]
          /\ AutoQueue(j, open, changed)
    BY <1>2 DEF ScanFinish
  <2>1. PICK violating \in SUBSET changed :
          LET open == violating \cup {f \in Files \ changed : file[f].open} IN
          /\ file' = [f \in Files |-> [file[f] EXCEPT !.open = (f \in open)]]
          /\ AutoQueue(j, open, changed)
    BY <2>0
  <2> DEFINE open   == violating \cup {f \in Files \ changed : file[f].open}
             target == {f \in open : fix[f].pr # NoPr => pr[fix[f].pr] # "merged"}
             keep   == {f \in target \ changed :
                          fix[f].content /\ fix[f].st \in {"ready", "delivered"}}
             redo   == target \ keep
  <2>2. file' \in [Files -> [present : BOOLEAN, open : BOOLEAN]]
    <3>1. \A f \in Files : (f \in open) \in BOOLEAN
      OBVIOUS
    <3>2. file' = [f \in Files |-> [file[f] EXCEPT !.open = (f \in open)]]
      BY <2>1
    <3> HIDE DEF open
    <3>3. QED
      BY <1>0, <3>1, <3>2
  <2>3. /\ fix' \in [Files -> Row] /\ made' \in [Files -> Nat]
        /\ batch' \in [Batches -> [left : Nat, ready : BOOLEAN]]
        /\ job' \in [Jobs -> Job]
    <3>1. CASE AutoFix /\ changed # {} /\ redo # {}
      <4>1. /\ fix' = [f \in Files |->
                         IF f \in redo THEN NewRow(f)
                         ELSE IF f \in keep /\ fix[f].st # "ready" THEN Fire(fix[f], "mark_ready")
                         ELSE fix[f]]
            /\ made' = [f \in Files |-> IF f \in redo THEN made[f] + 1 ELSE made[f]]
            /\ Dispatch(redo, {j})
        BY <2>1, <3>1 DEF AutoQueue
      <4>2. ASSUME NEW f \in keep
            PROVE  Fire(fix[f], "mark_ready") \in Row
        BY <1>0, FireType DEF Can, FixMachine
      <4>3. \A f \in Files : NewRow(f) \in Row /\ made[f] \in Nat /\ made[f] + 1 \in Nat
        <5>1. \A f \in Files : NewRow(f) \in Row
          BY RowTypes
        <5>2. \A f \in Files : made[f] \in Nat
          BY DEF TypeOK
        <5>3. QED
          BY <5>1, <5>2
      <4>4. redo \in SUBSET Files /\ {j} \in SUBSET Jobs
        BY <1>0
      <4>5. fix' \in [Files -> Row] /\ made' \in [Files -> Nat]
        BY <1>0, <4>1, <4>2, <4>3
      <4>6. QED
        BY <4>1, <4>4, <4>5, DispatchType
    <3>2. CASE ~(AutoFix /\ changed # {} /\ redo # {})
      <4>1. job' = [job EXCEPT ![j] = Idle] /\ UNCHANGED <<fix, made, batch>>
        BY <2>1, <3>2 DEF AutoQueue
      <4>2. QED
        BY <1>0, <4>1, TaskTypes DEF TypeOK
    <3>3. QED
      BY <3>1, <3>2
  <2>4. QED
    BY <1>2, <2>2, <2>3 DEF ScanFinish, TypeOK
<1>3. QED
  BY <1>1, <1>2

LEMMA TimeType ==
    ASSUME TypeOK, (\E f \in Files : Age(f)) \/ Sweep \/ (\E j \in Jobs : Crash(j))
    PROVE  TypeOK'
<1>0. \A f \in Files : fix[f] \in Row
  BY DEF TypeOK
<1>1. ASSUME NEW f \in Files, Age(f)
      PROVE  TypeOK'
  <2>1. [fix[f] EXCEPT !.old = TRUE] \in Row
    BY <1>0 DEF Row
  <2>2. fix' = [fix EXCEPT ![f] = [fix[f] EXCEPT !.old = TRUE]]
    BY <1>1 DEF Age, TypeOK
  <2>3. fix' \in [Files -> Row]
    BY <2>1, <2>2 DEF TypeOK
  <2>4. QED
    BY <1>1, <2>3 DEF Age, TypeOK
<1>2. ASSUME Sweep
      PROVE  TypeOK'
  <2>1. \A f \in Files : fix[f].st \in InFlight => Fire(fix[f], "swept") \in Row
    BY <1>0, FireType DEF Can, FixMachine
  <2>2. fix' \in [Files -> Row]
    BY <1>0, <1>2, <2>1 DEF Sweep, IsSwept
  <2>3. QED
    BY <1>2, <2>2 DEF Sweep, TypeOK
<1>3. ASSUME NEW j \in Jobs, Crash(j)
      PROVE  TypeOK'
  <2>1. Redelivered(job[j]) \in Job
    <3>1. /\ [job[j] EXCEPT !.phase = "queued", !.rows = Idle.rows, !.ok = FALSE] \in Job
          /\ [job[j] EXCEPT !.phase = "queued", !.files = {}] \in Job
      <4>1. job[j] \in Job /\ Idle.rows \in [Files -> Nat]
        BY DEF TypeOK, Idle
      <4>2. QED
        BY <4>1 DEF Job
    <3>2. job[j].kind \in {"gen", "del", "scan"}
      BY <1>3 DEF TypeOK, Crash, Job
    <3>3. QED
      BY <3>1, <3>2, TaskTypes DEF Redelivered
  <2>2. job' \in [Jobs -> Job]
    BY <1>3, <2>1, TaskTypes DEF Crash, TypeOK
  <2>3. batch' \in [Batches -> [left : Nat, ready : BOOLEAN]]
    <3>1. job[j].batch \in Batches \cup {NoBatch} /\ job[j].ok \in BOOLEAN
      BY DEF TypeOK, Job
    <3>2. QED
      BY <1>3, <3>1, CountedType DEF Crash, TypeOK
  <2>4. QED
    BY <1>3, <2>2, <2>3, OpsType DEF Crash, TypeOK, OpKinds
<1>4. QED
  BY <1>1, <1>2, <1>3

LEMMA TypeStep ==
    ASSUME TypeOK, [Next]_vars
    PROVE  TypeOK'
<1>1. CASE UNCHANGED vars
  BY <1>1 DEF vars, TypeOK
<1>2. ASSUME NEW j \in Jobs, Work(j)
      PROVE  TypeOK'
  BY <1>2, GenerationType, DeliveryType, ScanType DEF Work
<1>3. QED
  BY <1>1, <1>2, RequestType, GitHubType, TimeType DEF Next

LEMMA TypeInit == Init => TypeOK
<1>1. Absent \in Row /\ EmptyBatch \in [left : Nat, ready : BOOLEAN]
  BY DEF Absent, Row, EmptyBatch
<1>2. QED
  BY <1>1, TaskTypes DEF Init, TypeOK

(* In every reachable state of the pipeline, for every number of files, task *)
(* slots and batches, each row, PR record, batch and task is well formed.    *)
THEOREM TypeCorrect == Spec => []TypeOK
  BY TypeInit, TypeStep, PTL DEF Spec
-----------------------------------------------------------------------------
(***************************************************************************)
(* DeliveredIsBacked is not inductive: the last step of a delivery marks   *)
(* its rows delivered without looking at their content, which the task     *)
(* checked several steps earlier.  It is safe because a task's row, if it   *)
(* still is the file's row, keeps the content it had, and because a row    *)
(* that replaces it has an id no task knows.                               *)
(***************************************************************************)

(* Ids of rows, and the ids tasks hold, never exceed the last one given out. *)
Numbered ==
    \A f \in Files : fix[f].id <= made[f] /\ \A j \in Jobs : job[j].rows[f] <= made[f]

(* A delivery past its prechecks holds rows with content. *)
Carried ==
    \A j \in Jobs : job[j].kind = "del" =>
        \A f \in job[j].files : Holds(j, f) => fix[f].content

BackedInv == TypeOK /\ Numbered /\ Carried /\ DeliveredIsBacked

(* What every action does to a row: replace it, or keep its id, content and link. *)
Renewed(f) == fix'[f] = NewRow(f) /\ made'[f] = made[f] + 1

Kept(f) ==
    /\ fix'[f].id = fix[f].id /\ made'[f] = made[f]
    /\ fix[f].content => fix'[f].content
    /\ fix[f].pr # NoPr => fix'[f].pr # NoPr
    /\ fix[f].st = "absent" => fix'[f].st = "absent"

RowsEvolve == \A f \in Files : Renewed(f) \/ Kept(f)

(* And to a task: the ids it holds are current ones, the files it carries   *)
(* were carried before, or have content.                                    *)
TaskEvolves(j) ==
    /\ \A f \in Files : job'[j].rows[f] \in {0, job[j].rows[f], fix[f].id}
    /\ job'[j].kind = "del" => \A f \in job'[j].files :
         \/ job[j].kind = "del" /\ f \in job[j].files /\ job'[j].rows[f] = job[j].rows[f]
         \/ fix'[f].content

TasksEvolve == \A j \in Jobs : TaskEvolves(j)

(* Most actions neither deliver nor relink a fix, and drop no PR record. *)
Plain(f) ==
    \/ Renewed(f)
    \/ /\ Kept(f) /\ fix'[f].pr = fix[f].pr
       /\ fix'[f].st \in {"delivered", "landed"} => fix[f].st \in {"delivered", "landed"}
       /\ fix'[f].st \in DeliveredStatuses => fix[f].pr # NoPr

RecordsStay == \A b \in Branches : pr[b] # "none" => pr'[b] # "none"

LEMMA IdsAreNat ==
    ASSUME TypeOK
    PROVE  /\ \A f \in Files : fix[f].id \in Nat /\ made[f] \in Nat
           /\ \A j \in Jobs : job[j].rows \in [Files -> Nat] /\ job[j].files \subseteq Files
<1>1. \A f \in Files : fix[f] \in Row /\ made[f] \in Nat
  BY DEF TypeOK
<1>2. \A j \in Jobs : job[j] \in Job
  BY DEF TypeOK
<1>3. QED
  BY <1>1, <1>2 DEF Row, Job

LEMMA CarriedStep ==
    ASSUME TypeOK, TypeOK', Numbered, Carried, RowsEvolve, TasksEvolve
    PROVE  Numbered' /\ Carried'
<1>1. \A f \in Files : /\ fix'[f].id \in Nat /\ fix'[f].id <= made'[f]
                       /\ made'[f] \in Nat /\ made[f] <= made'[f]
  <2> SUFFICES ASSUME NEW f \in Files
               PROVE  /\ fix'[f].id \in Nat /\ fix'[f].id <= made'[f]
                      /\ made'[f] \in Nat /\ made[f] <= made'[f]
    OBVIOUS
  <2>1. fix[f].id \in Nat /\ made[f] \in Nat /\ fix[f].id <= made[f]
    BY IdsAreNat DEF Numbered
  <2>2. CASE Renewed(f)
    <3>1. fix'[f].id = made[f] + 1 /\ made'[f] = made[f] + 1
      BY <2>2, RowTypes DEF Renewed
    <3>2. QED
      BY <2>1, <3>1
  <2>3. CASE Kept(f)
    BY <2>1, <2>3 DEF Kept
  <2>4. QED
    BY <2>2, <2>3 DEF RowsEvolve
<1>2. Numbered'
  <2>1. ASSUME NEW j \in Jobs, NEW f \in Files
        PROVE  job'[j].rows[f] <= made'[f]
    BY <1>1, IdsAreNat DEF Numbered, TasksEvolve, TaskEvolves
  <2>2. QED
    BY <1>1, <2>1 DEF Numbered
<1>3. ASSUME NEW j \in Jobs, job'[j].kind = "del", NEW f \in job'[j].files, Holds(j, f)'
      PROVE  fix'[f].content
  <2>1. f \in Files
    <3>1. job'[j] \in Job
      BY DEF TypeOK
    <3>2. QED
      BY <3>1 DEF Job
  <2>2. CASE job[j].kind = "del" /\ f \in job[j].files /\ job'[j].rows[f] = job[j].rows[f]
    <3>1. job[j].rows[f] = fix'[f].id /\ fix'[f].st # "absent"
      BY <1>3, <2>2 DEF Holds
    <3>2. ~Renewed(f)
      <4>1. job[j].rows[f] <= made[f] /\ made[f] \in Nat
        BY <2>1, IdsAreNat DEF Numbered
      <4>2. Renewed(f) => fix'[f].id = made[f] + 1
        BY <2>1, RowTypes DEF Renewed
      <4>3. QED
        BY <3>1, <4>1, <4>2
    <3>3. Kept(f) /\ Holds(j, f)
      BY <2>1, <3>1, <3>2 DEF RowsEvolve, Kept, Holds
    <3>4. QED
      BY <2>2, <3>3 DEF Kept, Carried
  <2>3. QED
    BY <1>3, <2>2 DEF TasksEvolve, TaskEvolves
<1>4. QED
  BY <1>2, <1>3 DEF Carried

LEMMA PlainStep ==
    ASSUME TypeOK, DeliveredIsBacked, \A f \in Files : Plain(f), RecordsStay
    PROVE  RowsEvolve /\ DeliveredIsBacked'
<1>1. RowsEvolve
  BY DEF RowsEvolve, Plain
<1>2. ASSUME NEW f \in Files
      PROVE  /\ fix'[f].st \in {"delivered", "landed"} => fix'[f].content
             /\ fix'[f].st \in DeliveredStatuses => fix'[f].pr # NoPr
             /\ fix'[f].pr # NoPr => pr'[fix'[f].pr] # "none"
  <2>1. CASE Renewed(f)
    BY <2>1, RowTypes DEF Renewed, DeliveredStatuses
  <2>2. CASE ~Renewed(f)
    <3>1. fix[f].pr \in Branches \cup {NoPr}
      BY RowTypes DEF Row
    <3>2. QED
      BY <2>2, <3>1 DEF Plain, Kept, DeliveredIsBacked, RecordsStay
  <2>3. QED
    BY <2>1, <2>2
<1>3. QED
  BY <1>1, <1>2 DEF DeliveredIsBacked

(***************************************************************************)
(* The shapes an action's writes take.                                     *)
(***************************************************************************)

LEMMA SamePlain ==
    ASSUME DeliveredIsBacked, NEW f \in Files, fix'[f] = fix[f], made'[f] = made[f]
    PROVE  Plain(f)
  BY DEF Plain, Kept, DeliveredIsBacked

LEMMA MovedPlain ==
    ASSUME TypeOK, NEW f \in Files, NEW s \in FixStatus \ DeliveredStatuses,
           fix[f].st # "absent", fix'[f] = Move(fix[f], s), made'[f] = made[f]
    PROVE  Plain(f)
<1>1. fix[f] \in Row /\ s \in FixStatus
  BY RowTypes
<1>2. /\ fix'[f].st = s /\ fix'[f].id = fix[f].id
      /\ fix'[f].content = fix[f].content /\ fix'[f].pr = fix[f].pr
  BY <1>1, MoveType
<1>3. QED
  BY <1>2 DEF Plain, Kept, DeliveredStatuses

LEMMA FiredPlain ==
    ASSUME TypeOK, NEW f \in Files,
           NEW event \in {"mark_ready", "restore", "precheck_failed", "precheck_no_op",
                          "supersede_deleted_file", "reject", "regenerate", "swept"},
           Can(FixMachine, event, fix[f].st),
           fix'[f] = Fire(fix[f], event), made'[f] = made[f]
    PROVE  Plain(f)
<1>1. /\ Advance(FixMachine, event, fix[f].st) \in FixStatus \ DeliveredStatuses
      /\ fix[f].st # "absent"
  BY DEF Can, Advance, FixMachine, FixStatus, DeliveredStatuses, InFlight, Superseded
<1>2. QED
  BY <1>1, MovedPlain DEF Fire

LEMMA RecreatePlain ==
    ASSUME DeliveredIsBacked, NEW F \in SUBSET Files, Recreate(F)
    PROVE  \A f \in Files : Plain(f)
  BY SamePlain DEF Recreate, Plain, Renewed

LEMMA SameTask ==
    ASSUME NEW j, job'[j] = job[j]
    PROVE  TaskEvolves(j)
  BY DEF TaskEvolves

LEMMA FreshTask ==
    ASSUME NEW j, NoDelivery(job'[j])
    PROVE  TaskEvolves(j)
  BY DEF TaskEvolves, NoDelivery

LEMMA SetTask ==
    ASSUME TypeOK, NEW j \in Jobs, NEW task, job' = [job EXCEPT ![j] = task],
           task.kind = "del" => task.files = {},
           \A f \in Files : task.rows[f] = 0 \/ task.rows[f] = fix[f].id
    PROVE  TasksEvolve
<1>1. job'[j] = task /\ \A i \in Jobs : i # j => job'[i] = job[i]
  BY DEF TypeOK
<1>2. TaskEvolves(j)
  BY <1>1 DEF TaskEvolves
<1>3. QED
  BY <1>1, <1>2, SameTask DEF TasksEvolve

LEMMA DispatchEvolves ==
    ASSUME TypeOK, NEW F \in SUBSET Files, NEW own \in SUBSET Jobs, Dispatch(F, own)
    PROVE  TasksEvolve
  BY DispatchType, SameTask, FreshTask DEF TasksEvolve

LEMMA EndedEvolves ==
    ASSUME TypeOK, NEW j \in Jobs, NEW ok \in BOOLEAN, EndGeneration(j, ok)
    PROVE  TasksEvolve
<1>1. PICK task \in Job :
        /\ job' = [job EXCEPT ![j] = task]
        /\ task.kind = "del" => task.files = {}
        /\ \A f \in Files : task.rows[f] \in {0, fix[f].id}
  BY EndGenerationType
<1>2. \A f \in Files : task.rows[f] = 0 \/ task.rows[f] = fix[f].id
  BY <1>1
<1>3. QED
  BY <1>1, <1>2, SetTask

LEMMA OutcomeEvolves ==
    ASSUME TypeOK, NEW j \in Jobs, job[j].kind = "gen", NEW ok,
           \/ job' = [job EXCEPT ![j] = [job[j] EXCEPT !.phase = "ended", !.ok = ok]]
           \/ job' = [job EXCEPT ![j] = [job[j] EXCEPT !.phase = "ended"]]
    PROVE  TasksEvolve
<1>1. job[j] \in Job /\ \A i \in Jobs : i # j => job'[i] = job[i]
  BY DEF TypeOK
<1>2. job'[j].kind = "gen" /\ job'[j].rows = job[j].rows
  <2>1. ASSUME NEW task \in Job, task.kind = "gen"
        PROVE  /\ [task EXCEPT !.phase = "ended"].kind = "gen"
               /\ [task EXCEPT !.phase = "ended"].rows = task.rows
               /\ [task EXCEPT !.phase = "ended", !.ok = ok].kind = "gen"
               /\ [task EXCEPT !.phase = "ended", !.ok = ok].rows = task.rows
    BY <2>1 DEF Job
  <2>2. \/ job'[j] = [job[j] EXCEPT !.phase = "ended", !.ok = ok]
        \/ job'[j] = [job[j] EXCEPT !.phase = "ended"]
    BY DEF TypeOK
  <2>3. QED
    BY <1>1, <2>1, <2>2
<1>3. TaskEvolves(j)
  BY <1>2 DEF TaskEvolves
<1>4. QED
  BY <1>1, <1>3, SameTask DEF TasksEvolve

LEMMA QueueEvolves ==
    ASSUME TypeOK, NEW F, NEW b \in Branches, NEW force \in BOOLEAN,
           QueueDelivery(F, b, force)
    PROVE  TasksEvolve
<1>1. PICK j \in Jobs, task \in Job :
        /\ job' = [job EXCEPT ![j] = task] /\ task.files = {}
        /\ \A f \in Files : task.rows[f] \in {0, fix[f].id}
  BY QueueType
<1>2. \A f \in Files : task.rows[f] = 0 \/ task.rows[f] = fix[f].id
  BY <1>1
<1>3. QED
  BY <1>1, <1>2, SetTask

(***************************************************************************)
(* DeliveredIsBacked: one step per action.                                 *)
(***************************************************************************)

LEMMA RequestBacked ==
    ASSUME TypeOK, DeliveredIsBacked, Request
    PROVE  RowsEvolve /\ TasksEvolve /\ DeliveredIsBacked'
<1>1. ASSUME NEW F \in SUBSET Files, NEW force \in BOOLEAN, Generate(F, force)
      PROVE  RowsEvolve /\ TasksEvolve /\ DeliveredIsBacked'
  <2> DEFINE replaced == {f \in F : force \/ fix[f].st # "delivered"}
  <2>1. Recreate(replaced) /\ Dispatch(replaced, {}) /\ UNCHANGED pr
    BY <1>1 DEF Generate
  <2>2. replaced \in SUBSET Files /\ {} \in SUBSET Jobs
    OBVIOUS
  <2> HIDE DEF replaced
  <2>3. \A f \in Files : Plain(f)
    BY <2>1, <2>2, RecreatePlain
  <2>4. QED
    BY <2>1, <2>2, <2>3, DispatchEvolves, PlainStep DEF RecordsStay
<1>2. ASSUME NEW F \in SUBSET Files, ReplaceFixes(F)
      PROVE  RowsEvolve /\ TasksEvolve /\ DeliveredIsBacked'
  <2>1. Recreate(F) /\ DropOrphanedClosedPrs(F) /\ Dispatch(F, {})
    BY <1>2 DEF ReplaceFixes
  <2>2. \A f \in Files : Plain(f)
    BY <2>1, RecreatePlain
  <2>3. ASSUME NEW f \in Files
        PROVE  /\ fix'[f].st \in {"delivered", "landed"} => fix'[f].content
               /\ fix'[f].st \in DeliveredStatuses => fix'[f].pr # NoPr
               /\ fix'[f].pr # NoPr => pr'[fix'[f].pr] # "none"
    <3>1. CASE f \in F
      <4>1. fix'[f] = NewRow(f)
        BY <2>1, <3>1 DEF Recreate
      <4>2. QED
        BY <4>1, RowTypes DEF DeliveredStatuses
    <3>2. CASE f \notin F
      <4>1. fix'[f] = fix[f] /\ fix[f].pr \in Branches \cup {NoPr}
        BY <2>1, <3>2, RowTypes DEF Recreate, Row
      <4>2. fix[f].pr # NoPr => pr'[fix[f].pr] = pr[fix[f].pr]
        BY <2>1, <3>2, <4>1 DEF DropOrphanedClosedPrs
      <4>3. QED
        BY <4>1, <4>2 DEF DeliveredIsBacked
    <3>3. QED
      BY <3>1, <3>2
  <2>4. RowsEvolve
    BY <2>2 DEF RowsEvolve, Plain
  <2>5. TasksEvolve
    BY <2>1, DispatchEvolves
  <2>6. QED
    BY <2>3, <2>4, <2>5 DEF DeliveredIsBacked
<1>3. ASSUME RegenerateRepository
      PROVE  RowsEvolve /\ TasksEvolve /\ DeliveredIsBacked'
  BY <1>2, <1>3 DEF RegenerateRepository
<1>4. ASSUME NEW f \in Files, RegenerateFix(f)
      PROVE  RowsEvolve /\ TasksEvolve /\ DeliveredIsBacked'
  BY <1>2, <1>4 DEF RegenerateFix
<1>5. ASSUME NEW f \in Files, RetryFix(f)
      PROVE  RowsEvolve /\ TasksEvolve /\ DeliveredIsBacked'
  <2>1. ASSUME NEW g \in Files
        PROVE  Plain(g)
    BY <1>5, SamePlain, FiredPlain DEF RetryFix, RetriedRow, TypeOK
  <2>2. TasksEvolve
    <3>1. PICK j \in Free : job' = [job EXCEPT ![j] = GenTask(f, NoBatch)]
      BY <1>5 DEF RetryFix
    <3>2. /\ j \in Jobs /\ GenTask(f, NoBatch).kind # "del"
          /\ \A g \in Files : GenTask(f, NoBatch).rows[g] = 0
      BY TaskTypes DEF Free
    <3>3. QED
      BY <3>1, <3>2, SetTask
  <2>3. QED
    BY <1>5, <2>1, <2>2, PlainStep DEF RetryFix, RecordsStay
<1>6. ASSUME NEW f \in Files, RejectFix(f)
      PROVE  RowsEvolve /\ TasksEvolve /\ DeliveredIsBacked'
  <2>1. ASSUME NEW g \in Files
        PROVE  Plain(g)
    BY <1>6, SamePlain, FiredPlain DEF RejectFix, TypeOK
  <2>2. QED
    BY <1>6, <2>1, PlainStep, SameTask DEF RejectFix, RecordsStay, TasksEvolve
<1>7. ASSUME NEW f \in Files, NEW force \in BOOLEAN, DeliverFix(f, force)
      PROVE  RowsEvolve /\ TasksEvolve /\ DeliveredIsBacked'
  <2>1. (IF fix[f].pr # NoPr THEN fix[f].pr ELSE f) \in Branches
    BY RowTypes DEF Row, Branches
  <2>2. TasksEvolve
    BY <1>7, <2>1, QueueEvolves DEF DeliverFix
  <2>3. QED
    BY <1>7, <2>2, PlainStep, SamePlain DEF DeliverFix, RecordsStay
<1>8. ASSUME NEW force \in BOOLEAN, DeliverRepository(force)
      PROVE  RowsEvolve /\ TasksEvolve /\ DeliveredIsBacked'
  <2>1. {fix[f].pr : f \in Files} \ {NoPr} \subseteq Branches
    BY RowTypes DEF Row, Branches
  <2>2. TasksEvolve
    BY <1>8, <2>1, QueueEvolves DEF DeliverRepository, Branches
  <2>3. QED
    BY <1>8, <2>2, PlainStep, SamePlain DEF DeliverRepository, RecordsStay
<1>9. ASSUME SyncPullRequests
      PROVE  RowsEvolve /\ TasksEvolve /\ DeliveredIsBacked'
  <2>1. RecordsStay
    <3>1. PICK seen \in [{b \in Branches : pr[b] = "open"} -> {"open", "merge", "close"}] :
            pr' = [b \in Branches |->
                     IF b \in DOMAIN seen /\ seen[b] # "open"
                       THEN TryAdvance(PullRequestMachine, seen[b], pr[b]) ELSE pr[b]]
      BY <1>9 DEF SyncPullRequests
    <3>2. \A b \in DOMAIN seen :
            seen[b] # "open" => seen[b] \in DOMAIN PullRequestMachine
      BY DEF PullRequestMachine
    <3>3. QED
      BY <3>1, <3>2, PrType DEF TypeOK, RecordsStay
  <2>2. ASSUME NEW f \in Files
        PROVE  /\ Kept(f)
               /\ fix'[f].st = fix[f].st
               /\ fix'[f].pr # NoPr => fix'[f].pr \in Branches /\ pr[fix'[f].pr] # "none"
    <3>1. /\ fix'[f] = [fix[f] EXCEPT !.pr = Relinked(f)] /\ made'[f] = made[f]
          /\ fix[f] \in Row /\ fix[f].pr \in Branches \cup {NoPr}
      BY <1>9, RowTypes DEF SyncPullRequests, Row
    <3>2. /\ fix'[f].id = fix[f].id /\ fix'[f].st = fix[f].st
          /\ fix'[f].content = fix[f].content /\ fix'[f].pr = Relinked(f)
      BY <3>1 DEF Row
    <3>3. /\ fix[f].pr # NoPr => Relinked(f) = fix[f].pr
          /\ Relinked(f) # NoPr => Relinked(f) \in Branches /\ pr[Relinked(f)] # "none"
      BY <3>1 DEF Relinked, DeliveredIsBacked, Branches
    <3>4. QED
      BY <3>1, <3>2, <3>3 DEF Kept
  <2>3. DeliveredIsBacked'
    BY <2>1, <2>2 DEF DeliveredIsBacked, RecordsStay, Kept
  <2>4. QED
    BY <1>9, <2>2, <2>3, SameTask DEF SyncPullRequests, RowsEvolve, TasksEvolve
<1>10. ASSUME RequestScan
       PROVE  RowsEvolve /\ TasksEvolve /\ DeliveredIsBacked'
  <2>1. TasksEvolve
    <3>1. PICK j \in Free : job' = [job EXCEPT ![j] = ScanTask]
      BY <1>10 DEF RequestScan
    <3>2. j \in Jobs /\ ScanTask.kind # "del" /\ \A g \in Files : ScanTask.rows[g] = 0
      BY TaskTypes DEF Free
    <3>3. QED
      BY <3>1, <3>2, SetTask
  <2>2. QED
    BY <1>10, <2>1, PlainStep, SamePlain DEF RequestScan, RecordsStay
<1>11. QED
  BY <1>1, <1>3, <1>4, <1>5, <1>6, <1>7, <1>8, <1>9, <1>10 DEF Request

LEMMA GitHubBacked ==
    ASSUME TypeOK, DeliveredIsBacked, GitHub
    PROVE  RowsEvolve /\ TasksEvolve /\ DeliveredIsBacked'
<1>1. ASSUME NEW b \in Branches, NEW event \in LifecycleEvents, PullRequestLifecycle(b, event)
      PROVE  RowsEvolve /\ TasksEvolve /\ DeliveredIsBacked'
  <2>1. RecordsStay
    <3>1. event \in DOMAIN PullRequestMachine
      BY DEF LifecycleEvents, PullRequestMachine
    <3>2. QED
      BY <1>1, <3>1, PrType DEF PullRequestLifecycle, TypeOK, RecordsStay
  <2>2. ASSUME NEW f \in Files
        PROVE  Plain(f)
    <3>1. CASE f \notin Touched(b, event)
      BY <1>1, <3>1, SamePlain DEF PullRequestLifecycle
    <3>2. CASE f \in Touched(b, event)
      <4>1. /\ fix'[f] = Fire(fix[f], SideEffect[event]) /\ made'[f] = made[f]
            /\ fix[f].pr = b /\ fix[f].pr # NoPr
            /\ Can(FixMachine, SideEffect[event], fix[f].st)
        BY <1>1, <3>2, NamesAssumption DEF PullRequestLifecycle, Touched, Branches
      <4>2. CASE event = "reopen"
        BY <4>1, <4>2, FiredPlain DEF SideEffect
      <4>3. CASE event \in {"merge", "close"}
        <5>1. SideEffect[event] \in DOMAIN FixMachine
          BY <4>3 DEF SideEffect, FixMachine
        <5>2. /\ fix'[f].id = fix[f].id /\ fix'[f].content = fix[f].content
              /\ fix'[f].pr = fix[f].pr
              /\ fix'[f].st = Advance(FixMachine, SideEffect[event], fix[f].st)
          <6>1. fix[f] \in Row
            BY RowTypes
          <6>2. \A e \in DOMAIN FixMachine : Can(FixMachine, e, fix[f].st) =>
                  /\ Fire(fix[f], e).id = fix[f].id
                  /\ Fire(fix[f], e).content = fix[f].content
                  /\ Fire(fix[f], e).pr = fix[f].pr
                  /\ Fire(fix[f], e).st = Advance(FixMachine, e, fix[f].st)
            BY <6>1, FireType
          <6>3. QED
            BY <4>1, <5>1, <6>2
        <5>3. /\ fix'[f].st \in {"delivered", "landed"} => fix[f].st \in {"delivered", "landed"}
              /\ fix[f].st # "absent"
          BY <4>1, <4>3, <5>2 DEF SideEffect, Can, Advance, FixMachine
        <5>4. QED
          BY <4>1, <5>2, <5>3 DEF Plain, Kept
      <4>4. QED
        BY <4>2, <4>3 DEF LifecycleEvents
    <3>3. QED
      BY <3>1, <3>2
  <2>3. QED
    BY <1>1, <2>1, <2>2, PlainStep, SameTask DEF PullRequestLifecycle, TasksEvolve
<1>2. ASSUME NEW b \in Branches, PullRequestOpened(b)
      PROVE  RowsEvolve /\ TasksEvolve /\ DeliveredIsBacked'
  <2>1. RecordsStay
    <3>1. "reopen" \in DOMAIN PullRequestMachine /\ "open" # "none"
      BY DEF PullRequestMachine
    <3>2. QED
      BY <1>2, <3>1, PrType DEF PullRequestOpened, TypeOK, RecordsStay
  <2>2. QED
    BY <1>2, <2>1, PlainStep, SamePlain, SameTask DEF PullRequestOpened, TasksEvolve
<1>3. ASSUME NEW b \in Branches, NEW event \in {"convert_to_draft", "mark_ready_for_review"},
             PullRequestDraftToggle(b, event)
      PROVE  RowsEvolve /\ TasksEvolve /\ DeliveredIsBacked'
  <2>1. Advance(PullRequestMachine, event, pr[b]) # "none"
    BY <1>3 DEF PullRequestDraftToggle, Can, Advance, PullRequestMachine
  <2>2. RecordsStay
    BY <1>3, <2>1 DEF PullRequestDraftToggle, TypeOK, RecordsStay
  <2>3. QED
    BY <1>3, <2>2, PlainStep, SamePlain, SameTask DEF PullRequestDraftToggle, TasksEvolve
<1>4. ASSUME NEW f \in Files, CommitFile(f)
      PROVE  RowsEvolve /\ TasksEvolve /\ DeliveredIsBacked'
  BY <1>4, PlainStep, SamePlain, SameTask DEF CommitFile, RecordsStay, TasksEvolve
<1>5. QED
  BY <1>1, <1>2, <1>3, <1>4 DEF GitHub

LEMMA GenerationBacked ==
    ASSUME TypeOK, DeliveredIsBacked, NEW j \in Jobs,
           GenStart(j) \/ GenSucceed(j) \/ GenFail(j) \/ GenCount(j) \/ GenLost(j)
    PROVE  RowsEvolve /\ TasksEvolve /\ DeliveredIsBacked'
<1>0. /\ \A f \in Files : fix[f] \in Row
      /\ job[j] \in Job /\ job[j].files \subseteq Files
      /\ fix \in [Files -> Row]
  BY DEF TypeOK, Job
<1>1. CASE GenStart(j)
  <2>1. PICK f \in job[j].files :
           IF Takes(f)
             THEN /\ fix' = [fix EXCEPT ![f] = Move(@, "generating")]
                  /\ job' = [job EXCEPT ![j].phase = "running", ![j].rows[f] = fix[f].id]
                  /\ UNCHANGED batch
             ELSE /\ EndGeneration(j, FALSE)
                  /\ UNCHANGED fix
    BY <1>1 DEF GenStart
  <2>2. CASE Takes(f)
    <3>1. ASSUME NEW g \in Files
          PROVE  Plain(g)
      <4>1. "generating" \in FixStatus \ DeliveredStatuses
        BY DEF FixStatus, DeliveredStatuses
      <4>2. CASE g = f
        BY <1>0, <1>1, <2>1, <2>2, <4>1, <4>2, MovedPlain DEF GenStart, Takes
      <4>3. CASE g # f
        BY <1>0, <1>1, <2>1, <2>2, <4>3, SamePlain DEF GenStart
      <4>4. QED
        BY <4>2, <4>3
    <3>2. ASSUME NEW i \in Jobs
          PROVE  TaskEvolves(i)
      <4>1. CASE i = j
        <5>1. job'[j] = [job[j] EXCEPT !.phase = "running", !.rows[f] = fix[f].id]
          BY <2>1, <2>2 DEF TypeOK
        <5>2. /\ job'[j].kind = "gen"
              /\ \A g \in Files : job'[j].rows[g] = IF g = f THEN fix[f].id ELSE job[j].rows[g]
          BY <1>0, <1>1, <5>1 DEF GenStart, Job
        <5>3. QED
          BY <4>1, <5>2 DEF TaskEvolves
      <4>2. CASE i # j
        BY <2>1, <2>2, <4>2, SameTask DEF TypeOK
      <4>3. QED
        BY <4>1, <4>2
    <3>3. QED
      BY <1>1, <3>1, <3>2, PlainStep DEF GenStart, RecordsStay, TasksEvolve
  <2>3. CASE ~Takes(f)
    <3>1. TasksEvolve
      BY <1>0, <2>1, <2>3, EndedEvolves
    <3>2. QED
      BY <1>1, <2>1, <2>3, <3>1, PlainStep, SamePlain DEF GenStart, RecordsStay
  <2>4. QED
    BY <2>2, <2>3
<1>2. CASE GenSucceed(j)
  <2>1. PICK f \in job[j].files, flagged \in BOOLEAN :
          /\ Holds(j, f)
          /\ fix' = [fix EXCEPT ![f] =
                       [Move(fix[f], Advance(FixMachine, "generation_succeeded", "generating"))
                          EXCEPT !.content = TRUE, !.manual = flagged]]
    BY <1>2 DEF GenSucceed
  <2> DEFINE moved   == Move(fix[f], Advance(FixMachine, "generation_succeeded", "generating"))
             written == [moved EXCEPT !.content = TRUE, !.manual = flagged]
  <2>2. /\ moved \in Row /\ moved.st = "ready"
        /\ moved.id = fix[f].id /\ moved.pr = fix[f].pr
    BY <1>0, FixOutcomes, MoveType DEF FixStatus
  <2>3. /\ written.st = "ready" /\ written.content = TRUE
        /\ written.id = fix[f].id /\ written.pr = fix[f].pr
    BY <2>2 DEF Row
  <2>4. fix' = [fix EXCEPT ![f] = written] /\ fix[f].st # "absent"
    BY <2>1 DEF Holds
  <2> HIDE DEF moved, written
  <2>5. TasksEvolve
    BY <1>2, OutcomeEvolves DEF GenSucceed, TypeOK
  <2>6. ASSUME NEW g \in Files
        PROVE  Plain(g)
    <3>1. CASE g = f
      BY <1>0, <1>2, <2>3, <2>4, <3>1 DEF GenSucceed, Plain, Kept, DeliveredStatuses
    <3>2. CASE g # f
      BY <1>0, <1>2, <2>4, <3>2, SamePlain DEF GenSucceed
    <3>3. QED
      BY <3>1, <3>2
  <2>7. QED
    BY <1>2, <2>5, <2>6, PlainStep DEF GenSucceed, RecordsStay
<1>3. CASE GenFail(j)
  <2>1. PICK f \in job[j].files : Holds(j, f) /\ fix' = [fix EXCEPT ![f] = FailedRow(@)]
    BY <1>3 DEF GenFail
  <2>2. FailedRow(fix[f]) = Move(fix[f], "failed") /\ "failed" \in FixStatus \ DeliveredStatuses
    BY FixOutcomes DEF FailedRow, FixStatus, DeliveredStatuses
  <2>3. fix' = [fix EXCEPT ![f] = Move(fix[f], "failed")] /\ fix[f].st # "absent"
    BY <2>1, <2>2 DEF Holds
  <2>4. TasksEvolve
    BY <1>3, OutcomeEvolves DEF GenFail, TypeOK
  <2>5. ASSUME NEW g \in Files
        PROVE  Plain(g)
    BY <1>0, <1>3, <2>2, <2>3, MovedPlain, SamePlain DEF GenFail
  <2>6. QED
    BY <1>3, <2>4, <2>5, PlainStep DEF GenFail, RecordsStay
<1>4. CASE GenCount(j)
  <2>1. job[j].ok \in BOOLEAN
    BY <1>0 DEF Job
  <2>2. TasksEvolve
    BY <1>4, <2>1, EndedEvolves DEF GenCount
  <2>3. QED
    BY <1>4, <2>2, PlainStep, SamePlain DEF GenCount, RecordsStay
<1>5. CASE GenLost(j)
  <2>1. Idle.kind # "del" /\ \A f \in Files : Idle.rows[f] = 0
    BY TaskTypes
  <2>2. TasksEvolve
    BY <1>5, <2>1, SetTask DEF GenLost
  <2>3. QED
    BY <1>5, <2>2, PlainStep, SamePlain DEF GenLost, RecordsStay
<1>6. QED
  BY <1>1, <1>2, <1>3, <1>4, <1>5

LEMMA IdleEvolves ==
    ASSUME TypeOK, NEW j \in Jobs, job' = [job EXCEPT ![j] = Idle]
    PROVE  TasksEvolve
<1>1. Idle.kind # "del" /\ \A f \in Files : Idle.rows[f] = 0
  BY TaskTypes
<1>2. QED
  BY <1>1, SetTask

LEMMA PrecheckBacked ==
    ASSUME TypeOK, DeliveredIsBacked, NEW j \in Jobs, DelPrecheck(j)
    PROVE  RowsEvolve /\ TasksEvolve /\ DeliveredIsBacked'
<1> DEFINE t       == job[j]
           loaded  == {f \in Files : Loads(j, f)}
           empty   == {f \in loaded : IsEmpty(f)}
           useless == {f \in loaded \ empty : fix[f].manual}
           kept    == (loaded \ empty) \ useless
           closed  == ~t.force /\ pr[t.branch] = "closed"
<1>0. t \in Job /\ t.branch \in Branches /\ t.branch # NoPr
  BY NamesAssumption DEF TypeOK, Job, Branches
<1>1. CASE closed
  <2>1. \A f \in Files : /\ f \notin loaded => fix'[f] = fix[f]
                         /\ f \in loaded =>
                              fix'[f] = [Fire(fix[f], "supersede_closed_pr") EXCEPT !.pr = t.branch]
    BY <1>1 DEF DelPrecheck
  <2>2. job' = [job EXCEPT ![j] = Idle] /\ UNCHANGED <<made, pr>>
    BY <1>1 DEF DelPrecheck
  <2>3. ASSUME NEW f \in Files, f \in loaded
        PROVE  /\ Kept(f) /\ fix'[f].st = "superseded_by_closed_pr"
               /\ fix'[f].pr = t.branch
    <3>1. fix[f].st = "ready" /\ fix[f] \in Row
      BY <1>1, <2>3, RowTypes DEF Loads
    <3>2. Can(FixMachine, "supersede_closed_pr", fix[f].st) /\ "supersede_closed_pr" \in DOMAIN FixMachine
      BY <3>1 DEF Can, FixMachine
    <3> DEFINE fired == Fire(fix[f], "supersede_closed_pr")
    <3>3. /\ fired \in Row /\ fired.id = fix[f].id
          /\ fired.content = fix[f].content
          /\ fired.st = Advance(FixMachine, "supersede_closed_pr", fix[f].st)
      BY <3>1, <3>2, FireType
    <3>4. fired.st = "superseded_by_closed_pr"
      BY <3>2, <3>3, FixEdges
    <3>5. fix'[f] = [fired EXCEPT !.pr = t.branch]
      BY <2>1, <2>3
    <3> HIDE DEF fired
    <3>6. /\ fix'[f].id = fix[f].id /\ fix'[f].content = fix[f].content
          /\ fix'[f].st = "superseded_by_closed_pr" /\ fix'[f].pr = t.branch
      BY <3>3, <3>4, <3>5 DEF Row
    <3>7. QED
      BY <1>0, <2>2, <3>1, <3>6 DEF Kept
  <2>4. ASSUME NEW f \in Files, f \notin loaded
        PROVE  Kept(f) /\ fix'[f] = fix[f]
    BY <2>1, <2>2, <2>4 DEF Kept
  <2>5. RowsEvolve
    BY <2>3, <2>4 DEF RowsEvolve
  <2>6. DeliveredIsBacked'
    BY <1>0, <1>1, <2>2, <2>3, <2>4 DEF DeliveredIsBacked
  <2>7. QED
    BY <2>2, <2>5, <2>6, IdleEvolves
<1>2. CASE ~closed
  <2>1. ASSUME NEW f \in Files
        PROVE  Plain(f) /\ (f \in kept => fix'[f] = fix[f])
    <3>1. fix'[f] = CASE f \in empty   -> IF t.force THEN Move(fix[f], "failed")
                                          ELSE Fire(fix[f], "precheck_failed")
                      [] f \in useless -> IF t.force THEN Move(fix[f], "no_op")
                                          ELSE Fire(fix[f], "precheck_no_op")
                      [] OTHER -> fix[f]
      BY <1>2 DEF DelPrecheck
    <3>2. made'[f] = made[f]
      BY DEF DelPrecheck
    <3>3. /\ f \in loaded => fix[f].st # "absent"
          /\ f \in loaded /\ ~t.force =>
               /\ Can(FixMachine, "precheck_failed", fix[f].st)
               /\ Can(FixMachine, "precheck_no_op", fix[f].st)
      BY DEF Loads, Holds, Can, FixMachine
    <3>4. {"failed", "no_op"} \subseteq FixStatus \ DeliveredStatuses
      BY DEF FixStatus, DeliveredStatuses
    <3>5. CASE f \in empty
      BY <3>1, <3>2, <3>3, <3>4, <3>5, MovedPlain, FiredPlain
    <3>6. CASE f \in useless
      BY <3>1, <3>2, <3>3, <3>4, <3>6, MovedPlain, FiredPlain
    <3>7. CASE f \notin empty \cup useless
      BY <3>1, <3>2, <3>7, SamePlain
    <3>8. QED
      BY <3>5, <3>6, <3>7
  <2>2. TasksEvolve
    <3>1. CASE kept = {}
      <4>1. job' = [job EXCEPT ![j] = Idle]
        BY <3>1 DEF DelPrecheck
      <4>2. QED
        BY <4>1, IdleEvolves
    <3>2. CASE kept # {}
      <4>1. job' = [job EXCEPT ![j] = [t EXCEPT !.phase = "checked", !.files = kept]]
        BY <1>2, <3>2 DEF DelPrecheck, TypeOK
      <4>2. /\ job'[j].rows = t.rows /\ job'[j].files = kept
            /\ \A i \in Jobs : i # j => job'[i] = job[i]
        <5>1. /\ [t EXCEPT !.phase = "checked", !.files = kept].rows = t.rows
              /\ [t EXCEPT !.phase = "checked", !.files = kept].files = kept
          BY <1>0 DEF Job
        <5>2. QED
          BY <4>1, <5>1 DEF TypeOK
      <4>3. \A f \in kept : f \in Files /\ fix[f].content
        BY DEF IsEmpty
      <4>4. TaskEvolves(j)
        BY <2>1, <4>2, <4>3 DEF TaskEvolves
      <4>5. QED
        BY <4>2, <4>4, SameTask DEF TasksEvolve
    <3>3. QED
      BY <3>1, <3>2
  <2>3. QED
    BY <2>1, <2>2, PlainStep DEF DelPrecheck, RecordsStay
<1>3. QED
  BY <1>1, <1>2

LEMMA DeliveryBacked ==
    ASSUME BackedInv, NEW j \in Jobs,
           \/ DelPrecheck(j) \/ DelClaim(j) \/ DelPush(j)
           \/ DelSucceed(j) \/ DelFail(j) \/ DelLost(j)
    PROVE  RowsEvolve /\ TasksEvolve /\ DeliveredIsBacked'
<1> USE DEF BackedInv
<1> DEFINE t == job[j]
<1>0. /\ \A f \in Files : fix[f] \in Row
      /\ t \in Job /\ t.branch \in Branches /\ t.branch # NoPr
  BY NamesAssumption DEF TypeOK, Job, Branches
<1>1. ASSUME NEW phase, job' = [job EXCEPT ![j] = [t EXCEPT !.phase = phase]]
      PROVE  TasksEvolve
  <2>1. \A i \in Jobs : i # j => job'[i] = job[i]
    BY <1>1 DEF TypeOK
  <2>2. job'[j].files = t.files /\ job'[j].rows = t.rows /\ job'[j].kind = t.kind
    BY <1>0, <1>1 DEF TypeOK, Job
  <2>3. TaskEvolves(j)
    BY <2>2 DEF TaskEvolves
  <2>4. QED
    BY <2>1, <2>3, SameTask DEF TasksEvolve
<1>2. CASE DelPrecheck(j)
  BY <1>2, PrecheckBacked
<1>3. CASE DelClaim(j)
  <2>1. ASSUME NEW f \in Files
        PROVE  Plain(f)
    <3>1. "delivering" \in FixStatus \ DeliveredStatuses
      BY DEF FixStatus, DeliveredStatuses
    <3>2. \/ fix'[f] = fix[f]
          \/ fix[f].st # "absent" /\ fix'[f] = Move(fix[f], "delivering")
      BY <1>3 DEF DelClaim, Loads, Holds
    <3>3. QED
      BY <1>3, <3>1, <3>2, MovedPlain, SamePlain DEF DelClaim
  <2>2. TasksEvolve
    <3>1. \/ job' = [job EXCEPT ![j] = [t EXCEPT !.phase = "running"]]
          \/ job' = [job EXCEPT ![j] = Idle]
      BY <1>3 DEF DelClaim
    <3>2. QED
      BY <1>1, <3>1, IdleEvolves
  <2>3. QED
    BY <1>3, <2>1, <2>2, PlainStep DEF DelClaim, RecordsStay
<1>4. CASE DelPush(j)
  <2>1. job' = [job EXCEPT ![j] = [t EXCEPT !.phase = "pushed"]]
    BY <1>4 DEF DelPush, TypeOK
  <2>2. TasksEvolve
    BY <1>1, <2>1
  <2>3. QED
    BY <1>4, <2>2, PlainStep, SamePlain DEF DelPush, RecordsStay
<1>5. CASE DelSucceed(j)
  <2>1. RecordsStay /\ pr'[t.branch] # "none"
    <3>1. Recorded(pr[t.branch]) \in PrState /\ "none" \notin PrState
      BY <1>0, PrType DEF TypeOK, PrState
    <3>2. pr' = [pr EXCEPT ![t.branch] = Recorded(pr[t.branch])]
      BY <1>5 DEF DelSucceed
    <3>3. QED
      BY <1>0, <3>1, <3>2 DEF TypeOK, RecordsStay
  <2>2. ASSUME NEW f \in Files, f \in t.files
        PROVE  Kept(f) /\ fix'[f].content /\ fix'[f].pr = t.branch
    <3> DEFINE moved == Move(fix[f], "delivered")
    <3>1. /\ moved \in Row /\ moved.id = fix[f].id /\ moved.content = fix[f].content
          /\ moved.st = "delivered"
      BY <1>0, MoveType DEF FixStatus
    <3>2. fix'[f] = [moved EXCEPT !.pr = t.branch]
      BY <1>5, <2>2, FixOutcomes DEF DelSucceed
    <3>3. Holds(j, f) /\ fix[f].content
      BY <1>5, <2>2 DEF DelSucceed, Carried
    <3> HIDE DEF moved
    <3>4. /\ fix'[f].id = fix[f].id /\ fix'[f].content = fix[f].content
          /\ fix'[f].pr = t.branch
      BY <3>1, <3>2 DEF Row
    <3>5. QED
      BY <1>0, <1>5, <3>3, <3>4 DEF DelSucceed, Kept, Holds
  <2>3. ASSUME NEW f \in Files, f \notin t.files
        PROVE  Kept(f) /\ fix'[f] = fix[f]
    BY <1>5, <2>3 DEF DelSucceed, Kept
  <2>4. RowsEvolve
    BY <2>2, <2>3 DEF RowsEvolve
  <2>5. ASSUME NEW f \in Files
        PROVE  /\ fix'[f].st \in {"delivered", "landed"} => fix'[f].content
               /\ fix'[f].st \in DeliveredStatuses => fix'[f].pr # NoPr
               /\ fix'[f].pr # NoPr => pr'[fix'[f].pr] # "none"
    <3>1. CASE f \in t.files
      BY <1>0, <2>1, <2>2, <3>1
    <3>2. CASE f \notin t.files
      <4>1. fix[f].pr \in Branches \cup {NoPr}
        BY <1>0 DEF Row
      <4>2. QED
        BY <2>1, <2>3, <3>2, <4>1 DEF DeliveredIsBacked, RecordsStay
    <3>3. QED
      BY <3>1, <3>2
  <2>6. TasksEvolve
    BY <1>5, IdleEvolves DEF DelSucceed
  <2>7. QED
    BY <2>4, <2>5, <2>6 DEF DeliveredIsBacked
<1>6. CASE DelFail(j)
  <2>1. ASSUME NEW f \in Files
        PROVE  Plain(f)
    <3>1. "failed" \in FixStatus \ DeliveredStatuses
      BY DEF FixStatus, DeliveredStatuses
    <3>2. \/ fix'[f] = fix[f]
          \/ fix[f].st # "absent" /\ fix'[f] = Move(fix[f], "failed")
      BY <1>6, FixOutcomes DEF DelFail, Holds
    <3>3. QED
      BY <1>6, <3>1, <3>2, MovedPlain, SamePlain DEF DelFail
  <2>2. TasksEvolve
    <3>1. ScanTask.kind # "del" /\ \A f \in Files : ScanTask.rows[f] = 0
      BY TaskTypes
    <3>2. QED
      BY <1>6, <3>1, IdleEvolves, SetTask DEF DelFail
  <2>3. QED
    BY <1>6, <2>1, <2>2, PlainStep DEF DelFail, RecordsStay
<1>7. CASE DelLost(j)
  BY <1>7, IdleEvolves, PlainStep, SamePlain DEF DelLost, RecordsStay
<1>8. QED
  BY <1>2, <1>3, <1>4, <1>5, <1>6, <1>7

LEMMA ScanBacked ==
    ASSUME TypeOK, DeliveredIsBacked, NEW j \in Jobs, ScanSync(j) \/ ScanFinish(j)
    PROVE  RowsEvolve /\ TasksEvolve /\ DeliveredIsBacked'
<1>0. job[j] \in Job /\ job[j].files \subseteq Files
  BY DEF TypeOK, Job
<1>1. CASE ScanSync(j)
  <2>1. ASSUME NEW f \in Files
        PROVE  Plain(f)
    <3>1. /\ made'[f] = made[f]
          /\ \E event \in {"restore", "supersede_deleted_file"} : fix'[f] = TryFire(fix[f], event)
      BY <1>1 DEF ScanSync
    <3>2. PICK event \in {"restore", "supersede_deleted_file"} : fix'[f] = TryFire(fix[f], event)
      BY <3>1
    <3>3. CASE Can(FixMachine, event, fix[f].st)
      BY <3>1, <3>2, <3>3, FiredPlain DEF TryFire
    <3>4. CASE ~Can(FixMachine, event, fix[f].st)
      BY <3>1, <3>2, <3>4, SamePlain DEF TryFire
    <3>5. QED
      BY <3>3, <3>4
  <2>2. TasksEvolve
    <3> DEFINE there == {f \in Files : file[f].present}
    <3>1. job' = [job EXCEPT ![j] = [job[j] EXCEPT !.phase = "running", !.files = there]]
      BY <1>1 DEF ScanSync, TypeOK
    <3>2. /\ job'[j].kind = "scan" /\ job'[j].rows = job[j].rows
          /\ \A i \in Jobs : i # j => job'[i] = job[i]
      <4>1. job[j].kind = "scan"
        BY <1>1 DEF ScanSync
      <4>2. DOMAIN job = Jobs
        BY DEF TypeOK
      <4>3. QED
        BY <1>0, <3>1, <4>1, <4>2 DEF Job
    <3>3. TaskEvolves(j)
      BY <3>2 DEF TaskEvolves
    <3>4. QED
      BY <3>2, <3>3, SameTask DEF TasksEvolve
  <2>3. QED
    BY <1>1, <2>1, <2>2, PlainStep DEF ScanSync, RecordsStay
<1>2. CASE ScanFinish(j)
  <2>1. PICK changed \in SUBSET job[j].files, open \in SUBSET Files : AutoQueue(j, open, changed)
    <3>1. PICK changed \in SUBSET job[j].files : \E violating \in SUBSET changed :
            AutoQueue(j, violating \cup {f \in Files \ changed : file[f].open}, changed)
      BY <1>2 DEF ScanFinish
    <3>2. PICK violating \in SUBSET changed :
            AutoQueue(j, violating \cup {f \in Files \ changed : file[f].open}, changed)
      BY <3>1
    <3>3. violating \cup {f \in Files \ changed : file[f].open} \in SUBSET Files
      BY <1>0
    <3>4. QED
      BY <3>2, <3>3
  <2> DEFINE target == {f \in open : fix[f].pr # NoPr => pr[fix[f].pr] # "merged"}
             keep   == {f \in target \ changed :
                          fix[f].content /\ fix[f].st \in {"ready", "delivered"}}
             redo   == target \ keep
  <2>2. CASE AutoFix /\ changed # {} /\ redo # {}
    <3>1. /\ fix' = [f \in Files |->
                       IF f \in redo THEN NewRow(f)
                       ELSE IF f \in keep /\ fix[f].st # "ready" THEN Fire(fix[f], "mark_ready")
                       ELSE fix[f]]
          /\ made' = [f \in Files |-> IF f \in redo THEN made[f] + 1 ELSE made[f]]
          /\ Dispatch(redo, {j})
      BY <2>1, <2>2 DEF AutoQueue
    <3>2. redo \in SUBSET Files /\ {j} \in SUBSET Jobs
      OBVIOUS
    <3>3. ASSUME NEW f \in Files
          PROVE  Plain(f)
      <4>1. f \in keep => Can(FixMachine, "mark_ready", fix[f].st)
        BY DEF Can, FixMachine
      <4> HIDE DEF redo, keep
      <4>2. CASE f \in redo
        BY <3>1, <4>2 DEF Plain, Renewed
      <4>3. CASE f \notin redo /\ f \in keep /\ fix[f].st # "ready"
        BY <3>1, <4>1, <4>3, FiredPlain
      <4>4. CASE f \notin redo /\ ~(f \in keep /\ fix[f].st # "ready")
        BY <3>1, <4>4, SamePlain
      <4>5. QED
        BY <4>2, <4>3, <4>4
    <3>4. TasksEvolve
      BY <3>1, <3>2, DispatchEvolves
    <3>5. QED
      BY <1>2, <3>3, <3>4, PlainStep DEF ScanFinish, RecordsStay
  <2>3. CASE ~(AutoFix /\ changed # {} /\ redo # {})
    <3>1. job' = [job EXCEPT ![j] = Idle] /\ UNCHANGED <<fix, made, batch>>
      BY <2>1, <2>3 DEF AutoQueue
    <3>2. QED
      BY <1>2, <3>1, IdleEvolves, PlainStep, SamePlain DEF ScanFinish, RecordsStay
  <2>4. QED
    BY <2>2, <2>3
<1>3. QED
  BY <1>1, <1>2

LEMMA TimeBacked ==
    ASSUME TypeOK, DeliveredIsBacked,
           (\E f \in Files : Age(f)) \/ Sweep \/ (\E j \in Jobs : Crash(j))
    PROVE  RowsEvolve /\ TasksEvolve /\ DeliveredIsBacked'
<1>1. ASSUME NEW f \in Files, Age(f)
      PROVE  RowsEvolve /\ TasksEvolve /\ DeliveredIsBacked'
  <2>1. ASSUME NEW g \in Files
        PROVE  Plain(g)
    <3>1. CASE g = f
      <4>1. fix'[f] = [fix[f] EXCEPT !.old = TRUE]
        BY <1>1 DEF Age, TypeOK
      <4>2. /\ fix'[f].id = fix[f].id /\ fix'[f].st = fix[f].st
            /\ fix'[f].content = fix[f].content /\ fix'[f].pr = fix[f].pr
        <5>1. ASSUME NEW row \in Row
              PROVE  LET aged == [row EXCEPT !.old = TRUE]
                     IN  /\ aged.id = row.id /\ aged.st = row.st
                         /\ aged.content = row.content /\ aged.pr = row.pr
          BY DEF Row
        <5>2. QED
          BY <4>1, <5>1, RowTypes
      <4>3. QED
        BY <1>1, <3>1, <4>2 DEF Age, Plain, Kept, DeliveredIsBacked
    <3>2. CASE g # f
      BY <1>1, <3>2, SamePlain DEF Age, TypeOK
    <3>3. QED
      BY <3>1, <3>2
  <2>2. QED
    BY <1>1, <2>1, PlainStep, SameTask DEF Age, RecordsStay, TasksEvolve
<1>2. ASSUME Sweep
      PROVE  RowsEvolve /\ TasksEvolve /\ DeliveredIsBacked'
  <2>1. ASSUME NEW f \in Files
        PROVE  Plain(f)
    <3>1. fix[f].st \in InFlight => Can(FixMachine, "swept", fix[f].st)
      BY DEF Can, FixMachine
    <3>2. QED
      BY <1>2, <3>1, FiredPlain, SamePlain DEF Sweep, IsSwept
  <2>2. QED
    BY <1>2, <2>1, PlainStep, SameTask DEF Sweep, RecordsStay, TasksEvolve
<1>3. ASSUME NEW j \in Jobs, Crash(j)
      PROVE  RowsEvolve /\ TasksEvolve /\ DeliveredIsBacked'
  <2>1. TasksEvolve
    <3>1. job[j] \in Job /\ job[j].kind \in {"gen", "del", "scan"}
      BY <1>3 DEF TypeOK, Crash, Job
    <3>2. \/ job' = [job EXCEPT ![j] = Idle]
          \/ job' = [job EXCEPT ![j] = Redelivered(job[j])]
      BY <1>3 DEF Crash
    <3>3. /\ Redelivered(job[j]).kind = "del" => Redelivered(job[j]).files = {}
          /\ \A f \in Files : Redelivered(job[j]).rows[f] \in {0, job[j].rows[f]}
      <4>1. CASE job[j].kind = "gen"
        <5> DEFINE task == [job[j] EXCEPT !.phase = "queued", !.rows = Idle.rows, !.ok = FALSE]
        <5>1. Redelivered(job[j]) = task
          BY <4>1 DEF Redelivered
        <5>2. task.kind = "gen" /\ task.rows = Idle.rows
          BY <3>1, <4>1 DEF Job
        <5> HIDE DEF task
        <5>3. QED
          BY <5>1, <5>2, TaskTypes
      <4>2. CASE job[j].kind = "del"
        <5> DEFINE task == [job[j] EXCEPT !.phase = "queued", !.files = {}]
        <5>1. Redelivered(job[j]) = task
          BY <4>2 DEF Redelivered
        <5>2. task.files = {} /\ task.rows = job[j].rows
          BY <3>1 DEF Job
        <5> HIDE DEF task
        <5>3. QED
          BY <5>1, <5>2
      <4>3. CASE job[j].kind = "scan"
        BY <4>3, TaskTypes DEF Redelivered
      <4>4. QED
        BY <3>1, <4>1, <4>2, <4>3
    <3>4. CASE job' = [job EXCEPT ![j] = Idle]
      BY <3>4, IdleEvolves
    <3>5. CASE job' = [job EXCEPT ![j] = Redelivered(job[j])]
      <4>1. job'[j] = Redelivered(job[j]) /\ \A i \in Jobs : i # j => job'[i] = job[i]
        BY <3>5 DEF TypeOK
      <4>2. TaskEvolves(j)
        BY <3>3, <4>1 DEF TaskEvolves
      <4>3. QED
        BY <4>1, <4>2, SameTask DEF TasksEvolve
    <3>6. QED
      BY <3>2, <3>4, <3>5
  <2>2. QED
    BY <1>3, <2>1, PlainStep, SamePlain DEF Crash, RecordsStay
<1>4. QED
  BY <1>1, <1>2, <1>3

LEMMA StepBacked ==
    ASSUME BackedInv, Next
    PROVE  RowsEvolve /\ TasksEvolve /\ DeliveredIsBacked'
<1>1. ASSUME NEW j \in Jobs, Work(j)
      PROVE  RowsEvolve /\ TasksEvolve /\ DeliveredIsBacked'
  BY <1>1, GenerationBacked, DeliveryBacked, ScanBacked DEF Work, BackedInv
<1>2. QED
  BY <1>1, RequestBacked, GitHubBacked, TimeBacked DEF Next, BackedInv

LEMMA BackedInit == Init => BackedInv
<1> SUFFICES ASSUME Init PROVE BackedInv
  OBVIOUS
<1>1. TypeOK
  BY TypeInit
<1>2. Numbered
  BY TaskTypes DEF Init, Numbered, Absent
<1>3. Carried
  BY TaskTypes DEF Init, Carried
<1>4. DeliveredIsBacked
  BY DEF Init, DeliveredIsBacked, Absent, DeliveredStatuses
<1>5. QED
  BY <1>1, <1>2, <1>3, <1>4 DEF BackedInv

LEMMA BackedStep ==
    ASSUME BackedInv, [Next]_vars
    PROVE  BackedInv'
<1>1. CASE UNCHANGED vars
  BY <1>1 DEF vars, BackedInv, TypeOK, Numbered, Carried, Holds, DeliveredIsBacked
<1>2. CASE Next
  <2>1. TypeOK'
    BY TypeStep DEF BackedInv
  <2>2. RowsEvolve /\ TasksEvolve /\ DeliveredIsBacked'
    BY <1>2, StepBacked
  <2>3. Numbered' /\ Carried'
    BY <2>1, <2>2, CarriedStep DEF BackedInv
  <2>4. QED
    BY <2>1, <2>2, <2>3 DEF BackedInv
<1>3. QED
  BY <1>1, <1>2

(* Whatever is interleaved with it, a delivery never marks delivered, nor a  *)
(* merge landed, a fix without content or without a PR record.               *)
THEOREM Backed == Spec => []DeliveredIsBacked
<1>1. BackedInv => DeliveredIsBacked
  BY DEF BackedInv
<1>2. QED
  BY <1>1, BackedInit, BackedStep, PTL DEF Spec

(* No step makes a row that lives on forget its PR or its content: what a    *)
(* stale task writes over it, what a relink sets and what the deletion of PR *)
(* records leaves.                                                           *)
THEOREM Remembered == Spec => NothingIsForgotten
<1> DEFINE Remembers == \A f \in Files : SameRow(f) =>
                          /\ fix[f].pr # NoPr => fix'[f].pr # NoPr
                          /\ fix[f].content => fix'[f].content
<1>1. ASSUME BackedInv, [Next]_vars
      PROVE  [Remembers]_vars
  <2>1. ASSUME Next, NEW f \in Files, SameRow(f)
        PROVE  /\ fix[f].pr # NoPr => fix'[f].pr # NoPr
               /\ fix[f].content => fix'[f].content
    <3>1. ~Renewed(f)
      <4>1. fix[f].id \in Nat /\ made[f] \in Nat /\ fix[f].id <= made[f]
        BY <1>1, IdsAreNat DEF BackedInv, Numbered
      <4>2. Renewed(f) => fix'[f].id = made[f] + 1
        BY <1>1, RowTypes DEF BackedInv, Renewed
      <4>3. QED
        BY <2>1, <4>1, <4>2 DEF SameRow
    <3>2. QED
      BY <1>1, <2>1, <3>1, StepBacked DEF RowsEvolve, Kept
  <2>2. QED
    BY <1>1, <2>1
<1>2. QED
  BY <1>1, BackedInit, BackedStep, PTL DEF Spec, NothingIsForgotten

-----------------------------------------------------------------------------
(* The shapes in which actions write the task slots *)

LEMMA QueuedTasks ==
    /\ Idle.kind = "idle" /\ Idle.phase = "queued" /\ Idle.batch = NoBatch
    /\ ScanTask.kind = "scan" /\ ScanTask.phase = "queued" /\ ScanTask.batch = NoBatch
    /\ \A f, k : /\ GenTask(f, k).kind = "gen" /\ GenTask(f, k).phase = "queued"
                 /\ GenTask(f, k).files = {f} /\ GenTask(f, k).batch = k
                 /\ GenTask(f, k).rows = Idle.rows
    /\ \A rows, b, force : /\ DelTask(rows, b, force).kind = "del"
                           /\ DelTask(rows, b, force).phase = "queued"
                           /\ DelTask(rows, b, force).batch = NoBatch
                           /\ DelTask(rows, b, force).force = force
BY DEF Idle, ScanTask, GenTask, DelTask

LEMMA SlotSet ==
    ASSUME TypeOK, NEW j \in Jobs, NEW task, job' = [job EXCEPT ![j] = task]
    PROVE  job'[j] = task /\ \A i \in Jobs : i # j => job'[i] = job[i]
BY DEF TypeOK

(* Each file of F gets a task of its own, and no other slot than a free one *)
(* or the caller's changes.                                                 *)
Placed(F, own, k, place) ==
    /\ FreshBatch(k) /\ batch' = [batch EXCEPT ![k] = InitBatch(Cardinality(F))]
    /\ \A f, g \in F : place[f] = place[g] => f = g
    /\ \A f \in F : job'[place[f]] = GenTask(f, k)
    /\ \A j \in Jobs : (\A f \in F : place[f] # j) =>
         job'[j] = IF j \in own THEN Idle ELSE job[j]

LEMMA DispatchShape ==
    ASSUME TypeOK, NEW F \in SUBSET Files, NEW own \in SUBSET Jobs, Dispatch(F, own)
    PROVE  \E k \in Batches, place \in [F -> Free \cup own] : Placed(F, own, k, place)
<1>1. PICK k \in Batches, place \in [F -> Free \cup own] :
        /\ FreshBatch(k) /\ batch' = [batch EXCEPT ![k] = InitBatch(Cardinality(F))]
        /\ \A f, g \in F : place[f] = place[g] => f = g
        /\ job' = [j \in Jobs |->
                     IF \E f \in F : place[f] = j
                       THEN GenTask(CHOOSE f \in F : place[f] = j, k)
                     ELSE IF j \in own THEN Idle ELSE job[j]]
  BY DEF Dispatch
<1>2. ASSUME NEW f \in F PROVE job'[place[f]] = GenTask(f, k)
  <2>1. place[f] \in Jobs BY DEF Free
  <2>2. (CHOOSE g \in F : place[g] = place[f]) = f BY <1>1
  <2> QED BY <1>1, <2>1, <2>2
<1>3. \A j \in Jobs : (\A f \in F : place[f] # j) =>
        job'[j] = IF j \in own THEN Idle ELSE job[j]
  BY <1>1
<1>4. Placed(F, own, k, place) BY <1>1, <1>2, <1>3 DEF Placed
<1> QED BY <1>4

(* A generation task ends idle, or as a delivery that is queued. *)
LEMMA EndShape ==
    ASSUME TypeOK, NEW j \in Jobs, NEW ok, EndGeneration(j, ok)
    PROVE  /\ batch' = Counted(job[j].batch, ok)
           /\ \A i \in Jobs : i # j => job'[i] = job[i]
           /\ job'[j].kind \in {"idle", "del"} /\ job'[j].phase = "queued"
           /\ job'[j].batch = NoBatch
           /\ job'[j].force = FALSE
<1>0. batch' = Counted(job[j].batch, ok) BY DEF EndGeneration
<1>1. CASE job' = [job EXCEPT ![j] = Idle]
  <2>1. job'[j] = Idle /\ \A i \in Jobs : i # j => job'[i] = job[i] BY <1>1, SlotSet
  <2>2. Idle.force = FALSE BY DEF Idle
  <2> QED BY <1>0, <2>1, <2>2, QueuedTasks
<1>2. CASE job' # [job EXCEPT ![j] = Idle]
  <2> DEFINE isReady == {f \in Files : fix[f].st = "ready"}
  <2>1. PICK b : job' = [job EXCEPT ![j] = DelTask(RowIds(isReady, fix), b, FALSE)]
    BY <1>2 DEF EndGeneration
  <2> HIDE DEF isReady
  <2>2. /\ job'[j] = DelTask(RowIds(isReady, fix), b, FALSE)
        /\ \A i \in Jobs : i # j => job'[i] = job[i]
    BY <2>1, SlotSet
  <2>3. /\ job'[j].kind = "del" /\ job'[j].phase = "queued" /\ job'[j].batch = NoBatch
        /\ job'[j].force = FALSE
    BY <2>2 DEF DelTask, Idle
  <2> QED BY <1>0, <2>2, <2>3
<1> QED BY <1>1, <1>2

LEMMA QueueShape ==
    ASSUME TypeOK, NEW F, NEW b, NEW force, QueueDelivery(F, b, force)
    PROVE  \E j \in Free : /\ job'[j].kind = "del" /\ job'[j].phase = "queued"
                           /\ job'[j].batch = NoBatch /\ job'[j].force = force
                           /\ \A i \in Jobs : i # j => job'[i] = job[i]
<1>1. PICK j \in Free : job' = [job EXCEPT ![j] = DelTask(RowIds(F, fix), b, force)]
  BY DEF QueueDelivery
<1>2. j \in Jobs BY DEF Free
<1>3. job'[j] = DelTask(RowIds(F, fix), b, force) /\ \A i \in Jobs : i # j => job'[i] = job[i]
  BY <1>1, <1>2, SlotSet
<1> QED BY <1>3, QueuedTasks

-----------------------------------------------------------------------------
(* PendingHasTask.  No action touches a task that waits, except its start. *)

Waits(j, f) == job[j].kind = "gen" /\ job[j].phase = "queued" /\ job[j].files = {f}

(* Of each file, a task that waited still does. *)
StillWaits == \A f \in Files, j \in Jobs : Waits(j, f) => Waits(j, f)'

NoneWaits == \A f \in Files : fix'[f].st = "pending" => fix[f].st = "pending"

LEMMA PendingKept ==
    ASSUME PendingHasTask, StillWaits, NoneWaits PROVE PendingHasTask'
BY DEF PendingHasTask, StillWaits, NoneWaits, Waits

LEMMA PendingCreated ==
    ASSUME PendingHasTask, StillWaits,
           \A f \in Files : (fix'[f].st = "pending" /\ fix[f].st # "pending")
                              => \E j \in Jobs : Waits(j, f)'
    PROVE  PendingHasTask'
BY DEF PendingHasTask, StillWaits, Waits

(* A slot that held no waiting task is written. *)
LEMMA SlotWaits ==
    ASSUME NEW j \in Jobs, job[j].kind # "gen" \/ job[j].phase # "queued",
           \A i \in Jobs : i # j => job'[i] = job[i]
    PROVE  StillWaits
BY DEF StillWaits, Waits

LEMMA DispatchWaits ==
    ASSUME TypeOK, NEW F \in SUBSET Files, NEW own \in SUBSET Jobs, Dispatch(F, own),
           \A j \in own : job[j].kind # "gen"
    PROVE  StillWaits /\ \A f \in F : \E j \in Jobs : Waits(j, f)'
<1>1. PICK k \in Batches, place \in [F -> Free \cup own] : Placed(F, own, k, place)
  BY DispatchShape
<1>2. StillWaits
  <2> SUFFICES ASSUME NEW f \in Files, NEW j \in Jobs, Waits(j, f) PROVE Waits(j, f)'
    BY DEF StillWaits
  <2>1. j \notin Free \cup own BY DEF Waits, Free
  <2> QED BY <1>1, <2>1 DEF Waits, Placed
<1>3. ASSUME NEW f \in F PROVE \E j \in Jobs : Waits(j, f)'
  <2>1. place[f] \in Jobs /\ job'[place[f]] = GenTask(f, k) BY <1>1 DEF Free, Placed
  <2> QED BY <2>1, QueuedTasks DEF Waits
<1> QED BY <1>2, <1>3

LEMMA RequestPending ==
    ASSUME TypeOK, PendingHasTask, Request PROVE PendingHasTask'
<1>1. ASSUME NEW F \in SUBSET Files, Recreate(F), Dispatch(F, {}) PROVE PendingHasTask'
  <2>1. StillWaits /\ \A f \in F : \E j \in Jobs : Waits(j, f)' BY <1>1, DispatchWaits
  <2>2. \A f \in Files : f \notin F => fix'[f] = fix[f] BY <1>1 DEF Recreate
  <2> QED BY <2>1, <2>2, PendingCreated
<1>2. ASSUME NEW F \in SUBSET Files, NEW force \in BOOLEAN, Generate(F, force) PROVE PendingHasTask'
  <2> DEFINE replaced == {f \in F : force \/ fix[f].st # "delivered"}
  <2>1. Recreate(replaced) /\ Dispatch(replaced, {}) /\ replaced \in SUBSET Files
    BY <1>2 DEF Generate
  <2> HIDE DEF replaced
  <2> QED BY <1>1, <2>1
<1>3. CASE RegenerateRepository \/ \E f \in Files : RegenerateFix(f)
  BY <1>1, <1>3 DEF RegenerateRepository, RegenerateFix, ReplaceFixes
<1>4. ASSUME NEW f \in Files, RetryFix(f) PROVE PendingHasTask'
  <2>1. PICK j \in Free : job' = [job EXCEPT ![j] = GenTask(f, NoBatch)] BY <1>4 DEF RetryFix
  <2>2. j \in Jobs /\ job[j].kind # "gen" BY DEF Free
  <2>3. job'[j] = GenTask(f, NoBatch) /\ \A i \in Jobs : i # j => job'[i] = job[i]
    BY <2>1, <2>2, SlotSet
  <2>4. Waits(j, f)' BY <2>3, QueuedTasks DEF Waits
  <2>5. \A g \in Files : g # f => fix'[g] = fix[g] BY <1>4 DEF RetryFix, TypeOK
  <2> QED BY <2>2, <2>3, <2>4, <2>5, SlotWaits, PendingCreated
<1>5. ASSUME NEW f \in Files, RejectFix(f) PROVE PendingHasTask'
  <2>1. Can(FixMachine, "reject", fix[f].st) /\ fix[f] \in Row /\ "reject" \in DOMAIN FixMachine
    BY <1>5, RowTypes DEF RejectFix, FixMachine
  <2>2. Fire(fix[f], "reject").st = "rejected_by_user" BY <2>1, FireType, FixEdges
  <2>3. \A g \in Files : fix'[g] = fix[g] \/ fix'[g] = Fire(fix[f], "reject")
    BY <1>5 DEF RejectFix, TypeOK
  <2>4. NoneWaits BY <2>2, <2>3 DEF NoneWaits
  <2>5. StillWaits BY <1>5 DEF RejectFix, StillWaits, Waits
  <2> QED BY <2>4, <2>5, PendingKept
<1>6. ASSUME NEW F, NEW b, NEW force, QueueDelivery(F, b, force), UNCHANGED fix PROVE PendingHasTask'
  <2>1. PICK j \in Free : \A i \in Jobs : i # j => job'[i] = job[i] BY <1>6, QueueShape
  <2>2. j \in Jobs /\ job[j].kind # "gen" BY DEF Free
  <2> QED BY <1>6, <2>1, <2>2, SlotWaits, PendingKept DEF NoneWaits
<1>7. CASE \/ \E f \in Files, force \in BOOLEAN : DeliverFix(f, force)
           \/ \E force \in BOOLEAN : DeliverRepository(force)
  BY <1>6, <1>7 DEF DeliverFix, DeliverRepository
<1>8. CASE SyncPullRequests
  <2>1. ASSUME NEW f \in Files PROVE fix'[f].st = fix[f].st
    <3>1. fix'[f] = [fix[f] EXCEPT !.pr = Relinked(f)] /\ fix[f] \in Row
      BY <1>8, RowTypes DEF SyncPullRequests
    <3> QED BY <3>1 DEF Row
  <2>2. StillWaits BY <1>8 DEF SyncPullRequests, StillWaits, Waits
  <2> QED BY <2>1, <2>2, PendingKept DEF NoneWaits
<1>9. CASE RequestScan
  <2>1. PICK j \in Free : job' = [job EXCEPT ![j] = ScanTask] /\ UNCHANGED fix
    BY <1>9 DEF RequestScan
  <2>2. j \in Jobs /\ job[j].kind # "gen" BY DEF Free
  <2> QED BY <2>1, <2>2, SlotSet, SlotWaits, PendingKept DEF NoneWaits
<1> QED BY <1>2, <1>3, <1>4, <1>5, <1>7, <1>8, <1>9 DEF Request

LEMMA GitHubPending == ASSUME TypeOK, PendingHasTask, GitHub PROVE PendingHasTask'
<1>1. StillWaits
  BY DEF GitHub, PullRequestLifecycle, PullRequestOpened, PullRequestDraftToggle, CommitFile,
         StillWaits, Waits
<1>2. NoneWaits
  <2>1. ASSUME NEW b \in Branches, NEW event \in LifecycleEvents, PullRequestLifecycle(b, event)
        PROVE  NoneWaits
    <3> SUFFICES ASSUME NEW f \in Files, f \in Touched(b, event) PROVE fix'[f].st # "pending"
      BY <2>1 DEF PullRequestLifecycle, NoneWaits
    <3>1. fix'[f] = Fire(fix[f], SideEffect[event]) /\ Can(FixMachine, SideEffect[event], fix[f].st)
      BY <2>1 DEF PullRequestLifecycle, Touched
    <3>2. SideEffect[event] \in {"land", "supersede_closed_pr", "restore"}
      BY DEF SideEffect, LifecycleEvents
    <3>3. SideEffect[event] \in DOMAIN FixMachine BY <3>2 DEF FixMachine
    <3>4. fix[f] \in Row BY RowTypes
    <3>5. fix'[f].st = Advance(FixMachine, SideEffect[event], fix[f].st)
      BY <3>1, <3>3, <3>4, FireType
    <3> QED BY <3>1, <3>2, <3>5, FixEdges
  <2>2. CASE \E b \in Branches : \/ PullRequestOpened(b)
                                 \/ \E event \in {"convert_to_draft", "mark_ready_for_review"} :
                                      PullRequestDraftToggle(b, event)
    BY <2>2 DEF PullRequestOpened, PullRequestDraftToggle, NoneWaits
  <2>3. CASE \E f \in Files : CommitFile(f) BY <2>3 DEF CommitFile, NoneWaits
  <2> QED BY <2>1, <2>2, <2>3 DEF GitHub
<1> QED BY <1>1, <1>2, PendingKept

(* What a generation task writes. *)
LEMMA OutcomeRows ==
    ASSUME TypeOK, NEW f \in Files, NEW flagged
    PROVE  LET moved == Move(fix[f], Advance(FixMachine, "generation_succeeded", "generating"))
               row   == [moved EXCEPT !.content = TRUE, !.manual = flagged]
           IN  row.st = "ready" /\ row.id = fix[f].id
<1>1. fix[f] \in Row BY RowTypes
<1>2. Move(fix[f], "ready") \in Row /\ Move(fix[f], "ready").st = "ready"
      /\ Move(fix[f], "ready").id = fix[f].id
  BY <1>1, MoveType DEF FixStatus
<1> QED BY <1>2, FixOutcomes DEF Row

LEMMA GenerationPending ==
    ASSUME TypeOK, PendingHasTask, NEW j \in Jobs,
           GenStart(j) \/ GenSucceed(j) \/ GenFail(j) \/ GenCount(j) \/ GenLost(j),
           \A i \in Jobs : job[i].kind = "gen" => \E f \in Files : job[i].files = {f}
    PROVE  PendingHasTask'
<1>0. job[j] \in Job /\ job[j].files \in SUBSET Files BY DEF TypeOK, Job
<1>1. CASE GenStart(j)
  <2>1. PICK f \in job[j].files :
           IF Takes(f)
             THEN /\ fix' = [fix EXCEPT ![f] = Move(@, "generating")]
                  /\ job' = [job EXCEPT ![j].phase = "running", ![j].rows[f] = fix[f].id]
             ELSE /\ EndGeneration(j, FALSE)
                  /\ UNCHANGED fix
    BY <1>1 DEF GenStart
  <2>2. \A i \in Jobs : i # j => job'[i] = job[i] BY <2>1, EndShape DEF TypeOK
  <2>3. job[j].files = {f} BY <1>1, <2>1 DEF GenStart
  <2>4. \A g \in Files : g # f => fix'[g] = fix[g] BY <2>1 DEF TypeOK
  <2>5. fix'[f].st # "pending"
    <3>1. CASE Takes(f)
      <4>1. fix'[f] = Move(fix[f], "generating") BY <1>0, <2>1, <3>1 DEF TypeOK
      <4>2. f \in Files /\ fix[f] \in Row /\ "generating" \in FixStatus
        BY <1>0, <2>1, RowTypes DEF FixStatus
      <4>3. fix'[f].st = "generating" BY <4>1, <4>2, MoveType
      <4> QED BY <4>3
    <3>2. CASE ~Takes(f) BY <2>1, <3>2 DEF Takes
    <3> QED BY <3>1, <3>2
  <2>6. ASSUME NEW g \in Files, fix'[g].st = "pending" PROVE \E i \in Jobs : Waits(i, g)'
    <3>1. g # f /\ fix[g].st = "pending" BY <2>4, <2>5, <2>6
    <3>2. PICK i \in Jobs : Waits(i, g) BY <3>1 DEF PendingHasTask, Waits
    <3>3. i # j BY <2>3, <3>1, <3>2 DEF Waits
    <3> QED BY <2>2, <3>2, <3>3 DEF Waits
  <2> QED BY <2>6 DEF PendingHasTask, Waits
<1>2. CASE GenSucceed(j) \/ GenFail(j) \/ GenCount(j) \/ GenLost(j)
  <2>1. \A i \in Jobs : i # j => job'[i] = job[i]
    BY <1>2, EndShape DEF GenSucceed, GenFail, GenCount, GenLost, TypeOK
  <2>2. job[j].phase # "queued" BY <1>2 DEF GenSucceed, GenFail, GenCount, GenLost
  <2>3. NoneWaits
    <3>1. CASE GenSucceed(j)
      <4>1. PICK f \in job[j].files, flagged \in BOOLEAN :
              fix' = [fix EXCEPT ![f] =
                        [Move(fix[f], Advance(FixMachine, "generation_succeeded", "generating"))
                           EXCEPT !.content = TRUE, !.manual = flagged]]
        BY <3>1 DEF GenSucceed
      <4> DEFINE row == [Move(fix[f], Advance(FixMachine, "generation_succeeded", "generating"))
                           EXCEPT !.content = TRUE, !.manual = flagged]
      <4>2. row.st = "ready" BY <1>0, OutcomeRows
      <4>3. fix' = [fix EXCEPT ![f] = row] BY <4>1
      <4> HIDE DEF row
      <4> QED BY <1>0, <4>2, <4>3 DEF TypeOK, NoneWaits
    <3>2. CASE GenFail(j)
      <4>1. PICK f \in job[j].files : fix' = [fix EXCEPT ![f] = FailedRow(@)] BY <3>2 DEF GenFail
      <4>2. FailedRow(fix[f]) = Move(fix[f], "failed") BY FixOutcomes DEF FailedRow
      <4>3. f \in Files /\ fix[f] \in Row /\ "failed" \in FixStatus
        BY <1>0, <4>1, RowTypes DEF FixStatus
      <4>4. FailedRow(fix[f]).st = "failed" BY <4>2, <4>3, MoveType
      <4> QED BY <4>1, <4>3, <4>4 DEF TypeOK, NoneWaits
    <3>3. CASE GenCount(j) \/ GenLost(j) BY <3>3 DEF GenCount, GenLost, NoneWaits
    <3> QED BY <1>2, <3>1, <3>2, <3>3
  <2> QED BY <2>1, <2>2, <2>3, SlotWaits, PendingKept
<1> QED BY <1>1, <1>2

(* A row a precheck sets aside. *)
LEMMA PrecheckRows ==
    ASSUME TypeOK, NEW j \in Jobs, DelPrecheck(j), NEW f \in Files
    PROVE  /\ fix'[f].id = fix[f].id
           /\ \/ fix'[f] = fix[f]
              \/ /\ fix'[f].st \in {"superseded_by_closed_pr", "failed", "no_op"}
                 /\ Loads(j, f)
<1> DEFINE t       == job[j]
           loaded  == {g \in Files : Loads(j, g)}
           empty   == {g \in loaded : IsEmpty(g)}
           useless == {g \in loaded \ empty : fix[g].manual}
           closed  == ~t.force /\ pr[t.branch] = "closed"
<1>1. fix'[f] = CASE f \in loaded /\ closed ->
                        [Fire(fix[f], "supersede_closed_pr") EXCEPT !.pr = t.branch]
                   [] f \in empty /\ ~closed ->
                        IF t.force THEN Move(fix[f], "failed") ELSE Fire(fix[f], "precheck_failed")
                   [] f \in useless /\ ~closed ->
                        IF t.force THEN Move(fix[f], "no_op") ELSE Fire(fix[f], "precheck_no_op")
                   [] OTHER -> fix[f]
  BY DEF DelPrecheck
<1>2. fix[f] \in Row BY RowTypes
<1>3. /\ Move(fix[f], "failed").st = "failed" /\ Move(fix[f], "no_op").st = "no_op"
      /\ Move(fix[f], "failed").id = fix[f].id /\ Move(fix[f], "no_op").id = fix[f].id
  BY <1>2, MoveType DEF FixStatus
<1>4. (f \in loaded /\ ~t.force) => fix[f].st = "ready" BY DEF Loads
<1>5. /\ {"supersede_closed_pr", "precheck_failed", "precheck_no_op"} \subseteq DOMAIN FixMachine
      /\ Can(FixMachine, "supersede_closed_pr", "ready") /\ Can(FixMachine, "precheck_failed", "ready")
      /\ Can(FixMachine, "precheck_no_op", "ready")
  BY DEF Can, FixMachine
<1>6. ASSUME fix[f].st = "ready"
      PROVE  /\ Fire(fix[f], "supersede_closed_pr") \in Row
             /\ Fire(fix[f], "supersede_closed_pr").st = "superseded_by_closed_pr"
             /\ Fire(fix[f], "supersede_closed_pr").id = fix[f].id
             /\ Fire(fix[f], "precheck_failed").st = "failed"
             /\ Fire(fix[f], "precheck_failed").id = fix[f].id
             /\ Fire(fix[f], "precheck_no_op").st = "no_op"
             /\ Fire(fix[f], "precheck_no_op").id = fix[f].id
  <2>1. ASSUME NEW event \in DOMAIN FixMachine, Can(FixMachine, event, "ready")
        PROVE  /\ Fire(fix[f], event) \in Row /\ Fire(fix[f], event).id = fix[f].id
               /\ Fire(fix[f], event).st = Advance(FixMachine, event, "ready")
    BY <1>2, <1>6, <2>1, FireType
  <2> QED BY <1>5, <2>1, FixEdges
<1>7. CASE f \in loaded /\ closed
  <2> DEFINE fired == Fire(fix[f], "supersede_closed_pr")
  <2>1. fix'[f] = [fired EXCEPT !.pr = t.branch] BY <1>1, <1>7
  <2>2. fired \in Row /\ fired.st = "superseded_by_closed_pr" /\ fired.id = fix[f].id
    BY <1>4, <1>6, <1>7
  <2> HIDE DEF fired
  <2>3. fix'[f].st = "superseded_by_closed_pr" /\ fix'[f].id = fix[f].id BY <2>1, <2>2 DEF Row
  <2> QED BY <1>7, <2>3
<1>8. CASE f \in empty /\ ~closed
  <2>1. fix'[f] = IF t.force THEN Move(fix[f], "failed") ELSE Fire(fix[f], "precheck_failed")
    BY <1>1, <1>8
  <2>2. Loads(j, f) BY <1>8
  <2> QED BY <1>3, <1>4, <1>6, <1>8, <2>1, <2>2
<1>9. CASE f \in useless /\ ~closed
  <2>1. fix'[f] = IF t.force THEN Move(fix[f], "no_op") ELSE Fire(fix[f], "precheck_no_op")
    BY <1>1, <1>9
  <2>2. Loads(j, f) BY <1>9
  <2> QED BY <1>3, <1>4, <1>6, <1>9, <2>1, <2>2
<1>10. CASE ~(f \in loaded /\ closed) /\ ~(f \in empty /\ ~closed) /\ ~(f \in useless /\ ~closed)
  BY <1>1, <1>10
<1> QED BY <1>7, <1>8, <1>9, <1>10

LEMMA PrecheckTask ==
    ASSUME TypeOK, NEW j \in Jobs, DelPrecheck(j)
    PROVE  /\ \A i \in Jobs : i # j => job'[i] = job[i]
           /\ job'[j] = Idle \/ (/\ job'[j].kind = "del" /\ job'[j].phase = "checked"
                                 /\ job'[j].batch = job[j].batch /\ job'[j].force = job[j].force)
<1>1. job[j] \in Job BY DEF TypeOK
<1>2. PICK kept : job' = [job EXCEPT ![j] = Idle]
                  \/ job' = [job EXCEPT ![j] = [job[j] EXCEPT !.phase = "checked", !.files = kept]]
  BY DEF DelPrecheck, TypeOK
<1>3. job'[j] = Idle \/ job'[j] = [job[j] EXCEPT !.phase = "checked", !.files = kept]
  BY <1>2 DEF TypeOK
<1>4. job[j].kind = "del" BY DEF DelPrecheck
<1> QED BY <1>1, <1>2, <1>3, <1>4 DEF TypeOK, Job

(* A generation task names one file. *)
Single == \A j \in Jobs : job[j].kind = "gen" => \E f \in Files : job[j].files = {f}

(* A slot keeps its file, or is given one, or generates nothing. *)
NamesOne(j) ==
    \/ job'[j].kind # "gen"
    \/ job[j].kind = "gen" /\ job'[j].files = job[j].files
    \/ \E f \in Files : job'[j].files = {f}

LEMMA SingleKept ==
    ASSUME Single, \A j \in Jobs : NamesOne(j) PROVE Single'
BY DEF Single, NamesOne

LEMMA DispatchNames ==
    ASSUME TypeOK, NEW F \in SUBSET Files, NEW own \in SUBSET Jobs, Dispatch(F, own)
    PROVE  \A j \in Jobs : NamesOne(j)
<1>1. PICK k \in Batches, place \in [F -> Free \cup own] : Placed(F, own, k, place)
  BY DispatchShape
<1> SUFFICES ASSUME NEW j \in Jobs PROVE NamesOne(j)
  OBVIOUS
<1>2. CASE \A f \in F : place[f] # j
  <2>1. job'[j] = job[j] \/ job'[j] = Idle BY <1>1, <1>2 DEF Placed
  <2> QED BY <2>1, QueuedTasks DEF NamesOne
<1>3. CASE ~\A f \in F : place[f] # j
  <2>1. PICK f \in F : place[f] = j BY <1>3
  <2>2. job'[j] = GenTask(f, k) BY <1>1, <2>1 DEF Placed
  <2> QED BY <2>2, QueuedTasks DEF NamesOne
<1> QED BY <1>2, <1>3

LEMMA RequestSingle == ASSUME TypeOK, Single, Request PROVE Single'
<1>1. ASSUME NEW F \in SUBSET Files, Dispatch(F, {}) PROVE \A j \in Jobs : NamesOne(j)
  BY <1>1, DispatchNames
<1>2. ASSUME NEW F \in SUBSET Files, NEW force \in BOOLEAN, Generate(F, force)
      PROVE  \A j \in Jobs : NamesOne(j)
  <2> DEFINE replaced == {f \in F : force \/ fix[f].st # "delivered"}
  <2>1. Dispatch(replaced, {}) /\ replaced \in SUBSET Files BY <1>2 DEF Generate
  <2> HIDE DEF replaced
  <2> QED BY <1>1, <2>1
<1>3. ASSUME RegenerateRepository \/ \E f \in Files : RegenerateFix(f)
      PROVE  \A j \in Jobs : NamesOne(j)
  <2>1. PICK F \in SUBSET Files : ReplaceFixes(F)
    BY <1>3 DEF RegenerateRepository, RegenerateFix
  <2> QED BY <1>1, <2>1 DEF ReplaceFixes
<1>4. ASSUME NEW f \in Files, RetryFix(f) PROVE \A j \in Jobs : NamesOne(j)
  <2>1. PICK j \in Free : job' = [job EXCEPT ![j] = GenTask(f, NoBatch)] BY <1>4 DEF RetryFix
  <2>2. j \in Jobs BY DEF Free
  <2>3. job'[j] = GenTask(f, NoBatch) /\ \A i \in Jobs : i # j => job'[i] = job[i]
    BY <2>1, <2>2, SlotSet
  <2> QED BY <2>3, QueuedTasks DEF NamesOne
<1>5. ASSUME NEW F, NEW b, NEW force, QueueDelivery(F, b, force)
      PROVE  \A j \in Jobs : NamesOne(j)
  BY <1>5, QueueShape DEF NamesOne
<1>6. CASE \/ \E f \in Files, force \in BOOLEAN : DeliverFix(f, force)
           \/ \E force \in BOOLEAN : DeliverRepository(force)
  BY <1>5, <1>6, SingleKept DEF DeliverFix, DeliverRepository
<1>7. ASSUME RequestScan PROVE \A j \in Jobs : NamesOne(j)
  <2>1. PICK j \in Free : job' = [job EXCEPT ![j] = ScanTask] BY <1>7 DEF RequestScan
  <2>2. j \in Jobs BY DEF Free
  <2>3. job'[j] = ScanTask /\ \A i \in Jobs : i # j => job'[i] = job[i] BY <2>1, <2>2, SlotSet
  <2> QED BY <2>3, QueuedTasks DEF NamesOne
<1>8. CASE SyncPullRequests \/ \E f \in Files : RejectFix(f)
  BY <1>8 DEF SyncPullRequests, RejectFix, Single
<1> QED BY <1>2, <1>3, <1>4, <1>6, <1>7, <1>8, SingleKept DEF Request

(* A step of one slot: what generates there afterwards did before. *)
OwnStep(j) ==
    /\ \A i \in Jobs : i # j => job'[i] = job[i]
    /\ job'[j].kind = "gen" => job[j].kind = "gen" /\ job'[j].files = job[j].files

LEMMA OwnSingle == ASSUME Single, NEW j \in Jobs, OwnStep(j) PROVE Single'
BY DEF OwnStep, Single

LEMMA GenerationOwn ==
    ASSUME TypeOK, NEW j \in Jobs,
           GenStart(j) \/ GenSucceed(j) \/ GenFail(j) \/ GenCount(j) \/ GenLost(j)
    PROVE  OwnStep(j)
<1>0. job[j] \in Job BY DEF TypeOK
<1>1. ASSUME NEW ok, EndGeneration(j, ok) PROVE OwnStep(j)
  BY <1>1, EndShape DEF OwnStep
<1>2. ASSUME NEW f, job' = [job EXCEPT ![j].phase = "running", ![j].rows[f] = fix[f].id]
      PROVE  OwnStep(j)
  <2>1. job'[j] = [job[j] EXCEPT !.phase = "running", !.rows[f] = fix[f].id] BY <1>2 DEF TypeOK
  <2>2. job'[j].files = job[j].files /\ job'[j].kind = job[j].kind BY <1>0, <2>1 DEF Job
  <2> QED BY <1>2, <2>2 DEF OwnStep, TypeOK
<1>3. CASE GenStart(j)
  BY <1>1, <1>2, <1>3 DEF GenStart
<1>4. CASE GenSucceed(j)
  <2>1. job'[j] = [job[j] EXCEPT !.phase = "ended", !.ok = TRUE] BY <1>4 DEF GenSucceed, TypeOK
  <2>2. job'[j].files = job[j].files /\ job'[j].kind = job[j].kind BY <1>0, <2>1 DEF Job
  <2> QED BY <1>4, <2>2 DEF OwnStep, TypeOK, GenSucceed
<1>5. CASE GenFail(j)
  <2>1. job'[j] = [job[j] EXCEPT !.phase = "ended"] BY <1>5 DEF GenFail, TypeOK
  <2>2. job'[j].files = job[j].files /\ job'[j].kind = job[j].kind BY <1>0, <2>1 DEF Job
  <2> QED BY <1>5, <2>2 DEF OwnStep, TypeOK, GenFail
<1>6. CASE GenCount(j) BY <1>1, <1>6 DEF GenCount
<1>7. CASE GenLost(j)
  <2>1. job'[j] = Idle /\ \A i \in Jobs : i # j => job'[i] = job[i] BY <1>7, SlotSet DEF GenLost
  <2> QED BY <2>1, QueuedTasks DEF OwnStep
<1> QED BY <1>3, <1>4, <1>5, <1>6, <1>7

(* What a delivery task does to its slot. *)
LEMMA DeliverySlot ==
    ASSUME TypeOK, NEW j \in Jobs,
           \/ DelPrecheck(j) \/ DelClaim(j) \/ DelPush(j)
           \/ DelSucceed(j) \/ DelFail(j) \/ DelLost(j)
    PROVE  /\ job[j].kind = "del" /\ \A i \in Jobs : i # j => job'[i] = job[i]
           /\ \/ job'[j] = Idle \/ job'[j] = ScanTask
              \/ /\ job'[j].kind = "del" /\ job'[j].phase # "queued"
                 /\ job'[j].batch = job[j].batch /\ job'[j].force = job[j].force
<1>0. job[j] \in Job BY DEF TypeOK
<1>1. CASE DelPrecheck(j) BY <1>1, PrecheckTask DEF DelPrecheck
<1>2. CASE DelClaim(j)
  <2>1. job'[j] = [job[j] EXCEPT !.phase = "running"] \/ job'[j] = Idle
    BY <1>2 DEF DelClaim, TypeOK
  <2> QED BY <1>0, <1>2, <2>1 DEF DelClaim, TypeOK, Job
<1>3. CASE DelPush(j)
  <2>1. job'[j] = [job[j] EXCEPT !.phase = "pushed"] BY <1>3 DEF DelPush, TypeOK
  <2> QED BY <1>0, <1>3, <2>1 DEF DelPush, TypeOK, Job
<1>4. CASE DelSucceed(j) \/ DelLost(j) BY <1>4, SlotSet DEF DelSucceed, DelLost
<1>5. CASE DelFail(j)
  <2>1. job' = [job EXCEPT ![j] = Idle] \/ job' = [job EXCEPT ![j] = ScanTask] BY <1>5 DEF DelFail
  <2> QED BY <1>5, <2>1, SlotSet DEF DelFail
<1> QED BY <1>1, <1>2, <1>3, <1>4, <1>5

(* A crash changes a slot that is not waiting. *)
LEMMA CrashSlot ==
    ASSUME TypeOK, NEW j \in Jobs, Crash(j)
    PROVE  /\ job[j].phase # "queued" /\ UNCHANGED <<fix, made, file, pr, head>>
           /\ \A i \in Jobs : i # j => job'[i] = job[i]
           /\ job'[j].phase = "queued" /\ job'[j].kind \in {"idle", job[j].kind}
           /\ job'[j].kind = "gen" => job'[j].files = job[j].files
           /\ job'[j].force => job[j].force
<1>0. job[j] \in Job BY DEF TypeOK
<1>1. job[j].phase # "queued" /\ UNCHANGED <<fix, made, file, pr, head>> BY DEF Crash
<1>2. PICK task \in {Idle, Redelivered(job[j])} : job' = [job EXCEPT ![j] = task] BY DEF Crash
<1>3. job'[j] = task /\ \A i \in Jobs : i # j => job'[i] = job[i] BY <1>2, SlotSet
<1>4. CASE task = Idle BY <1>1, <1>3, <1>4 DEF Idle
<1>5. CASE task = Redelivered(job[j])
  <2>0. job[j].kind \in {"gen", "del", "scan"} BY <1>0 DEF Crash, Job
  <2>1. CASE job[j].kind = "gen"
    <3>1. task = [job[j] EXCEPT !.phase = "queued", !.rows = Idle.rows, !.ok = FALSE]
      BY <1>5, <2>1 DEF Redelivered
    <3> QED BY <1>0, <1>1, <1>3, <2>1, <3>1 DEF Job
  <2>2. CASE job[j].kind = "del"
    <3>1. task = [job[j] EXCEPT !.phase = "queued", !.files = {}] BY <1>5, <2>2 DEF Redelivered
    <3> QED BY <1>0, <1>1, <1>3, <2>2, <3>1 DEF Job
  <2>3. CASE job[j].kind = "scan"
    <3>1. task = ScanTask BY <1>5, <2>3 DEF Redelivered
    <3>2. ScanTask.phase = "queued" /\ ScanTask.kind = "scan" /\ ScanTask.force = FALSE
      BY DEF ScanTask, Idle
    <3> QED BY <1>1, <1>3, <2>3, <3>1, <3>2
  <2> QED BY <2>0, <2>1, <2>2, <2>3
<1> QED BY <1>2, <1>4, <1>5

LEMMA SyncSlot ==
    ASSUME TypeOK, NEW j \in Jobs, ScanSync(j)
    PROVE  /\ job[j].kind = "scan" /\ \A i \in Jobs : i # j => job'[i] = job[i]
           /\ job'[j].kind = "scan" /\ job'[j].batch = job[j].batch
           /\ job'[j].force = job[j].force
<1>0. job[j] \in Job BY DEF TypeOK
<1>1. PICK there : job' = [job EXCEPT ![j].phase = "running", ![j].files = there] BY DEF ScanSync
<1>2. job'[j] = [job[j] EXCEPT !.phase = "running", !.files = there] BY <1>1 DEF TypeOK
<1>3. /\ job'[j].kind = job[j].kind /\ job'[j].batch = job[j].batch
      /\ job'[j].force = job[j].force
  BY <1>0, <1>2 DEF Job
<1> QED BY <1>1, <1>3 DEF ScanSync, TypeOK

(* The fixes a scan keeps and those it has generated anew. *)
Reconciled(j, keep, redo) ==
    \/ /\ fix' = [f \in Files |->
                   IF f \in redo THEN NewRow(f)
                   ELSE IF f \in keep /\ fix[f].st # "ready" THEN Fire(fix[f], "mark_ready")
                   ELSE fix[f]]
       /\ made' = [f \in Files |-> IF f \in redo THEN made[f] + 1 ELSE made[f]]
       /\ Dispatch(redo, {j})
    \/ job' = [job EXCEPT ![j] = Idle] /\ UNCHANGED <<fix, made, batch>>

LEMMA FinishShape ==
    ASSUME TypeOK, NEW j \in Jobs, ScanFinish(j)
    PROVE  /\ job[j].kind = "scan" /\ job[j].phase = "running" /\ UNCHANGED <<pr, head>>
           /\ \E keep, redo \in SUBSET Files :
                /\ \A f \in keep : fix[f].content /\ fix[f].st \in {"ready", "delivered"}
                /\ Reconciled(j, keep, redo)
<1>0. job[j].files \in SUBSET Files BY IdsAreNat
<1>1. PICK changed \in SUBSET job[j].files : \E violating \in SUBSET changed :
        AutoQueue(j, violating \cup {f \in Files \ changed : file[f].open}, changed)
  BY DEF ScanFinish
<1>2. PICK violating \in SUBSET changed :
        AutoQueue(j, violating \cup {f \in Files \ changed : file[f].open}, changed)
  BY <1>1
<1>3. PICK open \in SUBSET Files : AutoQueue(j, open, changed) BY <1>0, <1>2
<1> DEFINE target == {f \in open : fix[f].pr # NoPr => pr[fix[f].pr] # "merged"}
           keep   == {f \in target \ changed :
                        fix[f].content /\ fix[f].st \in {"ready", "delivered"}}
           redo   == target \ keep
<1>4. Reconciled(j, keep, redo) BY <1>3 DEF AutoQueue, Reconciled
<1>5. keep \in SUBSET Files /\ redo \in SUBSET Files OBVIOUS
<1>6. \A f \in keep : fix[f].content /\ fix[f].st \in {"ready", "delivered"} OBVIOUS
<1> HIDE DEF keep, redo
<1> QED BY <1>4, <1>5, <1>6 DEF ScanFinish

LEMMA SingleStep == ASSUME TypeOK, Single, [Next]_vars PROVE Single'
<1>1. CASE Request BY <1>1, RequestSingle
<1>2. CASE GitHub
  BY <1>2 DEF GitHub, PullRequestLifecycle, PullRequestOpened, PullRequestDraftToggle, CommitFile,
              Single
<1>3. ASSUME NEW j \in Jobs, Work(j) PROVE Single'
  <2>1. CASE GenStart(j) \/ GenSucceed(j) \/ GenFail(j) \/ GenCount(j) \/ GenLost(j)
    BY <2>1, GenerationOwn, OwnSingle
  <2>2. CASE \/ DelPrecheck(j) \/ DelClaim(j) \/ DelPush(j)
             \/ DelSucceed(j) \/ DelFail(j) \/ DelLost(j)
    <3>1. OwnStep(j) BY <2>2, DeliverySlot, QueuedTasks DEF OwnStep
    <3> QED BY <3>1, OwnSingle
  <2>3. CASE ScanSync(j)
    <3>1. OwnStep(j) BY <2>3, SyncSlot DEF OwnStep
    <3> QED BY <3>1, OwnSingle
  <2>4. CASE ScanFinish(j)
    <3>1. PICK keep, redo \in SUBSET Files : Reconciled(j, keep, redo) BY <2>4, FinishShape
    <3>2. CASE job' = [job EXCEPT ![j] = Idle]
      <4>1. OwnStep(j) BY <3>2, SlotSet, QueuedTasks DEF OwnStep
      <4> QED BY <4>1, OwnSingle
    <3>3. CASE Dispatch(redo, {j}) BY <3>3, DispatchNames, SingleKept
    <3> QED BY <3>1, <3>2, <3>3 DEF Reconciled
  <2> QED BY <1>3, <2>1, <2>2, <2>3, <2>4 DEF Work
<1>4. ASSUME NEW j \in Jobs, Crash(j) PROVE Single'
  <2>1. OwnStep(j) BY <1>4, CrashSlot DEF OwnStep
  <2> QED BY <2>1, OwnSingle
<1>5. CASE (\E f \in Files : Age(f)) \/ Sweep \/ UNCHANGED vars
  BY <1>5 DEF Age, Sweep, vars, Single
<1> QED BY <1>1, <1>2, <1>3, <1>4, <1>5 DEF Next

LEMMA DeliveryPending ==
    ASSUME TypeOK, PendingHasTask, NEW j \in Jobs,
           \/ DelPrecheck(j) \/ DelClaim(j) \/ DelPush(j)
           \/ DelSucceed(j) \/ DelFail(j) \/ DelLost(j)
    PROVE  PendingHasTask'
<1>1. NoneWaits
  <2>0. \A f \in Files : fix[f] \in Row BY RowTypes
  <2>1. CASE DelPrecheck(j)
    <3> SUFFICES ASSUME NEW f \in Files PROVE fix'[f] = fix[f] \/ fix'[f].st # "pending"
      BY DEF NoneWaits
    <3> QED BY <2>1, PrecheckRows
  <2>2. CASE DelClaim(j)
    <3>1. \A f \in Files : fix'[f] = fix[f] \/ fix'[f] = Move(fix[f], "delivering")
      BY <2>2 DEF DelClaim
    <3>2. \A f \in Files : Move(fix[f], "delivering").st = "delivering"
      BY <2>0, MoveType DEF FixStatus
    <3> QED BY <3>1, <3>2 DEF NoneWaits
  <2>3. CASE DelPush(j) \/ DelLost(j) BY <2>3 DEF DelPush, DelLost, NoneWaits
  <2>4. CASE DelSucceed(j)
    <3> SUFFICES ASSUME NEW f \in Files, fix'[f] # fix[f] PROVE fix'[f].st # "pending"
      BY DEF NoneWaits
    <3>1. fix'[f] = [Move(fix[f], "delivered") EXCEPT !.pr = job[j].branch]
      BY <2>4, FixOutcomes DEF DelSucceed
    <3>2. Move(fix[f], "delivered") \in Row /\ Move(fix[f], "delivered").st = "delivered"
      BY <2>0, MoveType DEF FixStatus
    <3> QED BY <3>1, <3>2 DEF Row
  <2>5. CASE DelFail(j)
    <3> SUFFICES ASSUME NEW f \in Files, fix'[f] # fix[f] PROVE fix'[f].st # "pending"
      BY DEF NoneWaits
    <3>1. fix'[f] = Move(fix[f], "failed") BY <2>5, FixOutcomes DEF DelFail
    <3>2. Move(fix[f], "failed").st = "failed" BY <2>0, MoveType DEF FixStatus
    <3> QED BY <3>1, <3>2
  <2> QED BY <2>1, <2>2, <2>3, <2>4, <2>5
<1>2. StillWaits BY DeliverySlot, SlotWaits
<1> QED BY <1>1, <1>2, PendingKept

LEMMA ScanPending ==
    ASSUME TypeOK, PendingHasTask, NEW j \in Jobs, ScanSync(j) \/ ScanFinish(j)
    PROVE  PendingHasTask'
<1>0. \A f \in Files : fix[f] \in Row BY RowTypes
<1>1. CASE ScanSync(j)
  <2>1. NoneWaits
    <3> SUFFICES ASSUME NEW f \in Files, fix'[f] # fix[f] PROVE fix'[f].st # "pending"
      BY DEF NoneWaits
    <3>1. PICK event \in {"restore", "supersede_deleted_file"} : fix'[f] = TryFire(fix[f], event)
      BY <1>1 DEF ScanSync
    <3>2. Can(FixMachine, event, fix[f].st) /\ fix'[f] = Fire(fix[f], event) BY <3>1 DEF TryFire
    <3>3. event \in DOMAIN FixMachine BY <3>1 DEF FixMachine
    <3>4. fix'[f].st = Advance(FixMachine, event, fix[f].st) BY <1>0, <3>2, <3>3, FireType
    <3> QED BY <3>1, <3>2, <3>4, FixEdges
  <2>2. StillWaits BY <1>1, SyncSlot, SlotWaits
  <2> QED BY <2>1, <2>2, PendingKept
<1>2. CASE ScanFinish(j)
  <2>0. job[j].kind = "scan" BY <1>2, FinishShape
  <2>1. PICK keep, redo \in SUBSET Files :
           /\ \A f \in keep : fix[f].content /\ fix[f].st \in {"ready", "delivered"}
           /\ Reconciled(j, keep, redo)
    BY <1>2, FinishShape
  <2>2. CASE job' = [job EXCEPT ![j] = Idle] /\ UNCHANGED fix
    BY <2>0, <2>2, SlotSet, SlotWaits, PendingKept DEF NoneWaits
  <2>3. CASE /\ fix' = [f \in Files |->
                   IF f \in redo THEN NewRow(f)
                   ELSE IF f \in keep /\ fix[f].st # "ready" THEN Fire(fix[f], "mark_ready")
                   ELSE fix[f]]
             /\ Dispatch(redo, {j})
    <3>1. StillWaits /\ \A f \in redo : \E i \in Jobs : Waits(i, f)'
      BY <2>0, <2>3, DispatchWaits
    <3>2. ASSUME NEW f \in Files, f \notin redo, fix'[f] # fix[f] PROVE fix'[f].st # "pending"
      <4>1. f \in keep /\ fix[f].st = "delivered" /\ fix'[f] = Fire(fix[f], "mark_ready")
        BY <2>1, <2>3, <3>2
      <4>2. "mark_ready" \in DOMAIN FixMachine /\ Can(FixMachine, "mark_ready", "delivered")
        BY DEF FixMachine, Can
      <4>3. fix'[f].st = Advance(FixMachine, "mark_ready", "delivered")
        BY <1>0, <4>1, <4>2, FireType
      <4> QED BY <4>2, <4>3, FixEdges
    <3> QED BY <3>1, <3>2, PendingCreated
  <2> QED BY <2>1, <2>2, <2>3 DEF Reconciled
<1> QED BY <1>1, <1>2

LEMMA TimePending ==
    ASSUME TypeOK, PendingHasTask,
           (\E f \in Files : Age(f)) \/ Sweep \/ (\E j \in Jobs : Crash(j)) \/ UNCHANGED vars
    PROVE  PendingHasTask'
<1>0. \A f \in Files : fix[f] \in Row BY RowTypes
<1>1. ASSUME NEW f \in Files, Age(f) PROVE PendingHasTask'
  <2>1. fix' = [fix EXCEPT ![f].old = TRUE] /\ UNCHANGED job BY <1>1 DEF Age
  <2>2. fix'[f] = [fix[f] EXCEPT !.old = TRUE] /\ \A g \in Files : g # f => fix'[g] = fix[g]
    BY <2>1 DEF TypeOK
  <2>3. fix'[f].st = fix[f].st BY <1>0, <2>2 DEF Row
  <2>4. NoneWaits BY <2>2, <2>3 DEF NoneWaits
  <2>5. StillWaits BY <2>1 DEF StillWaits, Waits
  <2> QED BY <2>4, <2>5, PendingKept
<1>2. CASE Sweep
  <2>1. ASSUME NEW f \in Files, fix'[f] # fix[f] PROVE fix'[f].st # "pending"
    <3>1. fix'[f] = Fire(fix[f], "swept") /\ fix[f].st \in InFlight
      BY <1>2, <2>1 DEF Sweep, IsSwept
    <3>2. "swept" \in DOMAIN FixMachine /\ Can(FixMachine, "swept", fix[f].st)
      BY <3>1 DEF FixMachine, Can, InFlight
    <3>3. fix'[f].st = Advance(FixMachine, "swept", fix[f].st) BY <1>0, <3>1, <3>2, FireType
    <3> QED BY <3>2, <3>3, FixEdges
  <2>2. NoneWaits BY <2>1 DEF NoneWaits
  <2>3. StillWaits BY <1>2 DEF Sweep, StillWaits, Waits
  <2> QED BY <2>2, <2>3, PendingKept
<1>3. ASSUME NEW j \in Jobs, Crash(j) PROVE PendingHasTask'
  <2>1. NoneWaits BY <1>3, CrashSlot DEF NoneWaits
  <2>2. StillWaits BY <1>3, CrashSlot, SlotWaits
  <2> QED BY <2>1, <2>2, PendingKept
<1>4. CASE UNCHANGED vars
  BY <1>4 DEF vars, PendingHasTask
<1> QED BY <1>1, <1>2, <1>3, <1>4

(* PendingHasTask is inductive once tasks are known to name one file: a     *)
(* start takes the row of the task that starts and of no other.             *)
PendingInv == TypeOK /\ Single /\ PendingHasTask

LEMMA PendingInit == Init => PendingInv
<1> SUFFICES ASSUME Init PROVE PendingInv
  OBVIOUS
<1>1. TypeOK BY TypeInit
<1>2. Single BY DEF Init, Single, Idle
<1>3. PendingHasTask BY DEF Init, PendingHasTask, Absent
<1> QED BY <1>1, <1>2, <1>3 DEF PendingInv

LEMMA PendingStep == PendingInv /\ [Next]_vars => PendingInv'
<1> SUFFICES ASSUME PendingInv, [Next]_vars PROVE PendingInv'
  OBVIOUS
<1>1. TypeOK' /\ Single' BY TypeStep, SingleStep DEF PendingInv
<1>2. PendingHasTask'
  <2>1. CASE Request BY <2>1, RequestPending DEF PendingInv
  <2>2. CASE GitHub BY <2>2, GitHubPending DEF PendingInv
  <2>3. ASSUME NEW j \in Jobs, Work(j) PROVE PendingHasTask'
    <3>1. CASE GenStart(j) \/ GenSucceed(j) \/ GenFail(j) \/ GenCount(j) \/ GenLost(j)
      BY <3>1, GenerationPending DEF PendingInv, Single
    <3>2. CASE \/ DelPrecheck(j) \/ DelClaim(j) \/ DelPush(j)
               \/ DelSucceed(j) \/ DelFail(j) \/ DelLost(j)
      BY <3>2, DeliveryPending DEF PendingInv
    <3>3. CASE ScanSync(j) \/ ScanFinish(j) BY <3>3, ScanPending DEF PendingInv
    <3> QED BY <2>3, <3>1, <3>2, <3>3 DEF Work
  <2>4. CASE (\E f \in Files : Age(f)) \/ Sweep \/ (\E j \in Jobs : Crash(j)) \/ UNCHANGED vars
    BY <2>4, TimePending DEF PendingInv
  <2> QED BY <2>1, <2>2, <2>3, <2>4 DEF Next
<1> QED BY <1>1, <1>2 DEF PendingInv

(* No pending row is ever orphaned: whatever replaces, retries, rejects or    *)
(* restores rows, and whichever worker dies, a generation task is queued for *)
(* each pending row (workflow_fixes.py, fix_generation.py, maintenance.py).  *)
THEOREM PendingServed == Spec => []PendingHasTask
<1>1. PendingInv => PendingHasTask
  BY DEF PendingInv
<1> QED
  BY PendingInit, PendingStep, <1>1, PTL DEF Spec

-----------------------------------------------------------------------------
(* What a step does to the status and the link of a row *)

(* The row is moved along an edge of FixMachine. *)
Fired(f, event) ==
    /\ Can(FixMachine, event, fix[f].st)
    /\ fix'[f].st = Advance(FixMachine, event, fix[f].st)
    /\ fix'[f].id = fix[f].id /\ made'[f] = made[f]

SameStatus(f) == fix'[f].st = fix[f].st /\ fix'[f].id = fix[f].id /\ made'[f] = made[f]

RowStep(f, events) == Renewed(f) \/ SameStatus(f) \/ \E event \in events : Fired(f, event)

SameLink(f) == Renewed(f) \/ fix'[f].pr = fix[f].pr

LEMMA FiredRow ==
    ASSUME TypeOK, NEW f \in Files, NEW event \in DOMAIN FixMachine,
           Can(FixMachine, event, fix[f].st), fix'[f] = Fire(fix[f], event), made'[f] = made[f]
    PROVE  Fired(f, event) /\ SameLink(f)
<1>1. fix[f] \in Row BY RowTypes
<1>2. /\ fix'[f].st = Advance(FixMachine, event, fix[f].st)
      /\ fix'[f].id = fix[f].id /\ fix'[f].pr = fix[f].pr
  BY <1>1, FireType
<1> QED BY <1>2 DEF Fired, SameLink

LEMMA FixEvents ==
    {"start_generation", "generation_succeeded", "generation_failed", "mark_ready",
     "start_delivery", "precheck_failed", "precheck_no_op", "delivery_succeeded",
     "delivery_failed", "supersede_closed_pr", "supersede_deleted_file", "reject",
     "restore", "regenerate", "land", "swept"} = DOMAIN FixMachine
BY DEF FixMachine

LEMMA RecreateRows ==
    ASSUME NEW F, Recreate(F), NEW f \in Files PROVE Renewed(f) \/ (fix'[f] = fix[f] /\ SameStatus(f))
BY DEF Recreate, Renewed, SameStatus

LEMMA RequestRows ==
    ASSUME TypeOK, Request, NEW f \in Files
    PROVE  /\ RowStep(f, {"regenerate"}) \/ ("reject" \in Ops /\ Fired(f, "reject"))
           /\ SameLink(f) \/ "sync" \in Ops
<1>1. CASE \E F : Recreate(F)
  BY <1>1, RecreateRows DEF RowStep, SameLink
<1>2. CASE \/ \E F \in SUBSET Files, force \in BOOLEAN : Generate(F, force)
           \/ RegenerateRepository \/ \E g \in Files : RegenerateFix(g)
  BY <1>1, <1>2 DEF Generate, RegenerateRepository, RegenerateFix, ReplaceFixes
<1>3. ASSUME NEW g \in Files, RetryFix(g)
      PROVE  RowStep(f, {"regenerate"}) /\ SameLink(f)
  <2>1. CASE f = g
    <3>1. fix'[f] = Fire(fix[f], "regenerate") /\ Can(FixMachine, "regenerate", fix[f].st)
          /\ made'[f] = made[f]
      BY <1>3, <2>1 DEF RetryFix, RetriedRow, TypeOK
    <3>2. "regenerate" \in DOMAIN FixMachine BY FixEvents
    <3> QED BY <3>1, <3>2, FiredRow DEF RowStep
  <2>2. CASE f # g
    <3>1. fix'[f] = fix[f] /\ made'[f] = made[f] BY <1>3, <2>2 DEF RetryFix, TypeOK
    <3> QED BY <3>1 DEF RowStep, SameStatus, SameLink
  <2> QED BY <2>1, <2>2
<1>4. ASSUME NEW g \in Files, RejectFix(g)
      PROVE  (SameStatus(f) \/ ("reject" \in Ops /\ Fired(f, "reject"))) /\ SameLink(f)
  <2>1. CASE f = g
    <3>1. fix'[f] = Fire(fix[f], "reject") /\ Can(FixMachine, "reject", fix[f].st)
          /\ made'[f] = made[f] /\ "reject" \in Ops
      BY <1>4, <2>1 DEF RejectFix, External, TypeOK
    <3>2. "reject" \in DOMAIN FixMachine BY FixEvents
    <3> QED BY <3>1, <3>2, FiredRow
  <2>2. CASE f # g
    <3>1. fix'[f] = fix[f] /\ made'[f] = made[f] BY <1>4, <2>2 DEF RejectFix, TypeOK
    <3> QED BY <3>1 DEF SameStatus, SameLink
  <2> QED BY <2>1, <2>2
<1>5. CASE SyncPullRequests
  <2>1. fix'[f] = [fix[f] EXCEPT !.pr = Relinked(f)] /\ fix[f] \in Row /\ made'[f] = made[f]
        /\ "sync" \in Ops
    BY <1>5, RowTypes DEF SyncPullRequests, External
  <2>2. SameStatus(f) BY <2>1 DEF SameStatus, Row
  <2> QED BY <2>1, <2>2 DEF RowStep
<1>6. CASE \/ \E g \in Files, force \in BOOLEAN : DeliverFix(g, force)
           \/ \E force \in BOOLEAN : DeliverRepository(force)
           \/ RequestScan
  <2>1. UNCHANGED <<fix, made>> BY <1>6 DEF DeliverFix, DeliverRepository, RequestScan
  <2> QED BY <2>1 DEF RowStep, SameStatus, SameLink
<1> QED BY <1>2, <1>3, <1>4, <1>5, <1>6 DEF Request, RowStep

LEMMA LifecycleRows ==
    ASSUME TypeOK, NEW b \in Branches, NEW event \in LifecycleEvents,
           PullRequestLifecycle(b, event), NEW f \in Files
    PROVE  /\ SideEffect[event] \in {"land", "supersede_closed_pr", "restore"}
           /\ IF f \in Touched(b, event) THEN Fired(f, SideEffect[event])
                                         ELSE fix'[f] = fix[f] /\ SameStatus(f)
           /\ SameLink(f)
<1>1. SideEffect[event] \in {"land", "supersede_closed_pr", "restore"}
  BY DEF SideEffect, LifecycleEvents
<1>2. CASE f \in Touched(b, event)
  <2>1. /\ fix'[f] = Fire(fix[f], SideEffect[event]) /\ made'[f] = made[f]
        /\ Can(FixMachine, SideEffect[event], fix[f].st)
    BY <1>2 DEF PullRequestLifecycle, Touched
  <2>2. SideEffect[event] \in DOMAIN FixMachine BY <1>1, FixEvents
  <2> QED BY <1>1, <1>2, <2>1, <2>2, FiredRow
<1>3. CASE f \notin Touched(b, event)
  BY <1>1, <1>3 DEF PullRequestLifecycle, SameStatus, SameLink
<1> QED BY <1>2, <1>3

LEMMA GitHubRows ==
    ASSUME TypeOK, GitHub, NEW f \in Files
    PROVE  RowStep(f, {"land", "supersede_closed_pr", "restore"}) /\ SameLink(f)
<1>1. ASSUME NEW b \in Branches, NEW event \in LifecycleEvents, PullRequestLifecycle(b, event)
      PROVE  RowStep(f, {"land", "supersede_closed_pr", "restore"}) /\ SameLink(f)
  BY <1>1, LifecycleRows DEF RowStep
<1>2. CASE \/ \E b \in Branches : PullRequestOpened(b)
           \/ \E b \in Branches : \E event \in {"convert_to_draft", "mark_ready_for_review"} :
                PullRequestDraftToggle(b, event)
           \/ \E g \in Files : CommitFile(g)
  <2>1. UNCHANGED <<fix, made>>
    BY <1>2 DEF PullRequestOpened, PullRequestDraftToggle, CommitFile
  <2> QED BY <2>1 DEF RowStep, SameStatus, SameLink
<1> QED BY <1>1, <1>2 DEF GitHub

(* A generation task writes the row of its own file, which it holds. *)
LEMMA GenerationRows ==
    ASSUME TypeOK, NEW j \in Jobs, NEW f \in Files,
           GenStart(j) \/ GenSucceed(j) \/ GenFail(j) \/ GenCount(j) \/ GenLost(j)
    PROVE  /\ SameLink(f)
           /\ \/ fix'[f] = fix[f] /\ SameStatus(f)
              \/ GenStart(j) /\ Fired(f, "start_generation") /\ f \in job[j].files
              \/ /\ Running(j, f) /\ SameRow(f) /\ made'[f] = made[f]
                 /\ \/ GenSucceed(j) /\ fix'[f].st = "ready"
                    \/ GenFail(j) /\ fix'[f].st = "failed"
<1>0. job[j].files \in SUBSET Files /\ fix[f] \in Row BY RowTypes, IdsAreNat
<1>1. CASE UNCHANGED fix
  BY <1>1 DEF SameLink, SameStatus, GenStart, GenSucceed, GenFail, GenCount, GenLost
<1>2. CASE GenStart(j) /\ ~UNCHANGED fix
  <2>1. PICK g \in job[j].files : Takes(g) /\ fix' = [fix EXCEPT ![g] = Move(@, "generating")]
    BY <1>2 DEF GenStart
  <2>2. made'[f] = made[f] BY <1>2 DEF GenStart
  <2>3. CASE f = g
    <3>1. fix'[f] = Move(fix[f], "generating") /\ "generating" \in FixStatus
      BY <2>1, <2>3 DEF TypeOK, FixStatus
    <3>2. fix'[f].st = "generating" /\ fix'[f].id = fix[f].id /\ fix'[f].pr = fix[f].pr
      BY <1>0, <3>1, MoveType
    <3>3. Can(FixMachine, "start_generation", "pending")
          /\ Advance(FixMachine, "start_generation", "pending") = "generating"
      BY DEF Can, Advance, FixMachine
    <3>4. Fired(f, "start_generation") BY <2>1, <2>2, <2>3, <3>2, <3>3 DEF Fired, Takes
    <3> QED BY <1>2, <2>1, <2>3, <3>2, <3>4 DEF SameLink
  <2>4. CASE f # g
    <3>1. fix'[f] = fix[f] BY <2>1, <2>4 DEF TypeOK
    <3> QED BY <2>2, <3>1 DEF SameStatus, SameLink
  <2> QED BY <2>3, <2>4
<1>3. CASE GenSucceed(j)
  <2>1. PICK g \in job[j].files, flagged \in BOOLEAN :
          /\ Holds(j, g)
          /\ fix' = [fix EXCEPT ![g] =
                       [Move(fix[g], Advance(FixMachine, "generation_succeeded", "generating"))
                          EXCEPT !.content = TRUE, !.manual = flagged]]
    BY <1>3 DEF GenSucceed
  <2>2. made'[f] = made[f] /\ job[j].phase = "running" /\ job[j].kind = "gen" BY <1>3 DEF GenSucceed
  <2>3. CASE f = g
    <3> DEFINE moved == Move(fix[f], "ready")
    <3>1. fix'[f] = [moved EXCEPT !.content = TRUE, !.manual = flagged]
      BY <2>1, <2>3, FixOutcomes DEF TypeOK
    <3>2. moved \in Row /\ moved.st = "ready" /\ moved.id = fix[f].id /\ moved.pr = fix[f].pr
      BY <1>0, MoveType DEF FixStatus
    <3> HIDE DEF moved
    <3>3. fix'[f].st = "ready" /\ fix'[f].id = fix[f].id /\ fix'[f].pr = fix[f].pr
      BY <3>1, <3>2 DEF Row
    <3>4. Running(j, f) /\ SameRow(f) BY <2>1, <2>2, <2>3, <3>3 DEF Running, SameRow, Holds
    <3> QED BY <1>3, <2>2, <3>3, <3>4 DEF SameLink
  <2>4. CASE f # g
    <3>1. fix'[f] = fix[f] BY <2>1, <2>4 DEF TypeOK
    <3> QED BY <2>2, <3>1 DEF SameStatus, SameLink
  <2> QED BY <2>3, <2>4
<1>4. CASE GenFail(j)
  <2>1. PICK g \in job[j].files : Holds(j, g) /\ fix' = [fix EXCEPT ![g] = FailedRow(@)]
    BY <1>4 DEF GenFail
  <2>2. made'[f] = made[f] /\ job[j].phase = "running" /\ job[j].kind = "gen" BY <1>4 DEF GenFail
  <2>3. CASE f = g
    <3>1. fix'[f] = Move(fix[f], "failed") /\ "failed" \in FixStatus
      BY <2>1, <2>3, FixOutcomes DEF TypeOK, FailedRow, FixStatus
    <3>2. fix'[f].st = "failed" /\ fix'[f].id = fix[f].id /\ fix'[f].pr = fix[f].pr
      BY <1>0, <3>1, MoveType
    <3>3. Running(j, f) /\ SameRow(f) BY <2>1, <2>2, <2>3, <3>2 DEF Running, SameRow, Holds
    <3> QED BY <1>4, <2>2, <3>2, <3>3 DEF SameLink
  <2>4. CASE f # g
    <3>1. fix'[f] = fix[f] BY <2>1, <2>4 DEF TypeOK
    <3> QED BY <2>2, <3>1 DEF SameStatus, SameLink
  <2> QED BY <2>3, <2>4
<1>5. CASE GenCount(j) \/ GenLost(j)
  BY <1>1, <1>5 DEF GenCount, GenLost
<1> QED BY <1>1, <1>2, <1>3, <1>4, <1>5

(* A delivery sets aside rows it loaded, takes those it loads again, and    *)
(* writes those it holds.                                                   *)
LEMMA DeliveryRows ==
    ASSUME TypeOK, NEW j \in Jobs, NEW f \in Files,
           \/ DelPrecheck(j) \/ DelClaim(j) \/ DelPush(j)
           \/ DelSucceed(j) \/ DelFail(j) \/ DelLost(j)
    PROVE  \/ fix'[f] = fix[f] /\ SameStatus(f)
           \/ /\ DelPrecheck(j) /\ Loads(j, f) /\ fix'[f].id = fix[f].id /\ made'[f] = made[f]
              /\ fix'[f].st \in {"superseded_by_closed_pr", "failed", "no_op"}
           \/ /\ DelClaim(j) /\ f \in job[j].files /\ fix'[f].st = "delivering"
              /\ \A g \in job[j].files : Loads(j, g)
              /\ SameLink(f) /\ fix'[f].id = fix[f].id /\ made'[f] = made[f]
           \/ /\ Running(j, f) /\ SameRow(f) /\ made'[f] = made[f]
              /\ \/ DelSucceed(j) /\ fix'[f].st = "delivered" /\ fix'[f].pr = job[j].branch
                 \/ DelFail(j) /\ fix'[f].st = "failed" /\ SameLink(f)
<1>0. fix[f] \in Row /\ job[j].files \in SUBSET Files BY RowTypes, IdsAreNat
<1>1. CASE DelPrecheck(j)
  <2>1. made'[f] = made[f] BY <1>1 DEF DelPrecheck
  <2> QED BY <1>1, <2>1, PrecheckRows DEF SameStatus
<1>2. CASE DelClaim(j)
  <2>1. made'[f] = made[f] BY <1>2 DEF DelClaim
  <2>2. CASE fix'[f] = fix[f] BY <2>1, <2>2 DEF SameStatus
  <2>3. CASE fix'[f] # fix[f]
    <3>1. /\ fix'[f] = Move(fix[f], "delivering") /\ f \in job[j].files
          /\ \A g \in job[j].files : Loads(j, g)
      BY <1>2, <2>3 DEF DelClaim
    <3>2. "delivering" \in FixStatus BY DEF FixStatus
    <3>3. fix'[f].st = "delivering" /\ fix'[f].id = fix[f].id /\ fix'[f].pr = fix[f].pr
      BY <1>0, <3>1, <3>2, MoveType
    <3> QED BY <1>2, <2>1, <3>1, <3>3 DEF SameLink
  <2> QED BY <2>2, <2>3
<1>3. CASE DelPush(j) \/ DelLost(j) BY <1>3 DEF DelPush, DelLost, SameStatus
<1>4. CASE DelSucceed(j)
  <2>1. /\ made'[f] = made[f] /\ job[j].kind = "del" /\ job[j].phase = "pushed"
        /\ \A g \in job[j].files : Holds(j, g)
    BY <1>4 DEF DelSucceed
  <2>2. CASE f \in job[j].files
    <3> DEFINE moved == Move(fix[f], "delivered")
    <3>1. fix'[f] = [moved EXCEPT !.pr = job[j].branch] BY <1>4, <2>2, FixOutcomes DEF DelSucceed
    <3>2. moved \in Row /\ moved.st = "delivered" /\ moved.id = fix[f].id
      BY <1>0, MoveType DEF FixStatus
    <3> HIDE DEF moved
    <3>3. fix'[f].st = "delivered" /\ fix'[f].id = fix[f].id /\ fix'[f].pr = job[j].branch
      BY <3>1, <3>2 DEF Row
    <3>4. Running(j, f) /\ SameRow(f) BY <2>1, <2>2, <3>3 DEF Running, SameRow, Holds
    <3> QED BY <1>4, <2>1, <3>3, <3>4
  <2>3. CASE f \notin job[j].files
    BY <1>4, <2>1, <2>3 DEF DelSucceed, SameStatus
  <2> QED BY <2>2, <2>3
<1>5. CASE DelFail(j)
  <2>1. /\ made'[f] = made[f] /\ job[j].kind = "del" /\ job[j].phase \in {"running", "pushed"}
        /\ \A g \in job[j].files : Holds(j, g)
    BY <1>5 DEF DelFail
  <2>2. CASE f \in job[j].files
    <3>1. fix'[f] = Move(fix[f], "failed") BY <1>5, <2>2, FixOutcomes DEF DelFail
    <3>2. "failed" \in FixStatus BY DEF FixStatus
    <3>3. fix'[f].st = "failed" /\ fix'[f].id = fix[f].id /\ fix'[f].pr = fix[f].pr
      BY <1>0, <3>1, <3>2, MoveType
    <3>4. Running(j, f) /\ SameRow(f) BY <2>1, <2>2, <3>3 DEF Running, SameRow, Holds
    <3> QED BY <1>5, <2>1, <3>3, <3>4 DEF SameLink
  <2>3. CASE f \notin job[j].files
    BY <1>5, <2>1, <2>3 DEF DelFail, SameStatus
  <2> QED BY <2>2, <2>3
<1> QED BY <1>1, <1>2, <1>3, <1>4, <1>5

LEMMA ScanRows ==
    ASSUME TypeOK, NEW j \in Jobs, NEW f \in Files, ScanSync(j) \/ ScanFinish(j)
    PROVE  /\ SameLink(f)
           /\ \/ RowStep(f, {"restore", "mark_ready"})
              \/ Fired(f, "supersede_deleted_file") /\ ~file[f].present
<1>1. CASE ScanSync(j)
  <2>1. made'[f] = made[f] BY <1>1 DEF ScanSync
  <2>2. PICK event \in {"restore", "supersede_deleted_file"} :
          /\ fix'[f] = TryFire(fix[f], event)
          /\ event = "supersede_deleted_file" => ~file[f].present
    BY <1>1 DEF ScanSync
  <2>3. CASE Can(FixMachine, event, fix[f].st)
    <3>1. fix'[f] = Fire(fix[f], event) /\ event \in DOMAIN FixMachine
      BY <2>2, <2>3, FixEvents DEF TryFire
    <3>2. Fired(f, event) /\ SameLink(f) BY <2>1, <2>3, <3>1, FiredRow
    <3> QED BY <2>2, <3>2 DEF RowStep
  <2>4. CASE ~Can(FixMachine, event, fix[f].st)
    <3>1. fix'[f] = fix[f] BY <2>2, <2>4 DEF TryFire
    <3> QED BY <2>1, <3>1 DEF RowStep, SameStatus, SameLink
  <2> QED BY <2>3, <2>4
<1>2. CASE ScanFinish(j)
  <2>1. PICK keep, redo \in SUBSET Files :
           /\ \A g \in keep : fix[g].content /\ fix[g].st \in {"ready", "delivered"}
           /\ Reconciled(j, keep, redo)
    BY <1>2, FinishShape
  <2>2. CASE UNCHANGED <<fix, made>> BY <2>2 DEF RowStep, SameStatus, SameLink
  <2>3. CASE /\ fix' = [g \in Files |->
                   IF g \in redo THEN NewRow(g)
                   ELSE IF g \in keep /\ fix[g].st # "ready" THEN Fire(fix[g], "mark_ready")
                   ELSE fix[g]]
             /\ made' = [g \in Files |-> IF g \in redo THEN made[g] + 1 ELSE made[g]]
    <3>1. CASE f \in redo BY <2>3, <3>1 DEF RowStep, Renewed, SameLink
    <3>2. CASE f \notin redo /\ f \in keep /\ fix[f].st # "ready"
      <4>1. fix'[f] = Fire(fix[f], "mark_ready") /\ made'[f] = made[f] /\ fix[f].st = "delivered"
        BY <2>1, <2>3, <3>2
      <4>2. "mark_ready" \in DOMAIN FixMachine /\ Can(FixMachine, "mark_ready", fix[f].st)
        BY <4>1 DEF FixMachine, Can
      <4> QED BY <4>1, <4>2, FiredRow DEF RowStep
    <3>3. CASE f \notin redo /\ ~(f \in keep /\ fix[f].st # "ready")
      BY <2>3, <3>3 DEF RowStep, SameStatus, SameLink
    <3> QED BY <3>1, <3>2, <3>3
  <2> QED BY <2>1, <2>2, <2>3 DEF Reconciled
<1> QED BY <1>1, <1>2

LEMMA TimeRows ==
    ASSUME TypeOK, NEW f \in Files,
           (\E g \in Files : Age(g)) \/ Sweep \/ (\E j \in Jobs : Crash(j)) \/ UNCHANGED vars
    PROVE  SameLink(f) /\ (SameStatus(f) \/ ("sweep" \in Ops /\ Fired(f, "swept")))
<1>0. fix[f] \in Row BY RowTypes
<1>1. ASSUME NEW g \in Files, Age(g) PROVE SameStatus(f) /\ SameLink(f)
  <2>1. made'[f] = made[f] /\ (fix'[f] = [fix[f] EXCEPT !.old = TRUE] \/ fix'[f] = fix[f])
    BY <1>1 DEF Age, TypeOK
  <2> QED BY <1>0, <2>1 DEF SameStatus, SameLink, Row
<1>2. CASE Sweep
  <2>1. made'[f] = made[f] /\ "sweep" \in Ops BY <1>2 DEF Sweep
  <2>2. CASE fix'[f] = fix[f] BY <2>1, <2>2 DEF SameStatus, SameLink
  <2>3. CASE fix'[f] # fix[f]
    <3>1. fix'[f] = Fire(fix[f], "swept") /\ fix[f].st \in InFlight
      BY <1>2, <2>3 DEF Sweep, IsSwept
    <3>2. "swept" \in DOMAIN FixMachine /\ Can(FixMachine, "swept", fix[f].st)
      BY <3>1 DEF FixMachine, Can, InFlight
    <3> QED BY <2>1, <3>1, <3>2, FiredRow
  <2> QED BY <2>2, <2>3
<1>3. CASE (\E j \in Jobs : Crash(j)) \/ UNCHANGED vars
  BY <1>3 DEF Crash, vars, SameStatus, SameLink
<1> QED BY <1>1, <1>2, <1>3

-----------------------------------------------------------------------------
(* LandedIsMerged and ClosedIsWithdrawn hold each other: a merge lands only *)
(* what is delivered, so it lands nothing on a record that is closed.  The  *)
(* manual PR sync breaks both (it moves records and not the fixes on them), *)
(* so they are stated of instances without it.                              *)

(* A fix that counts as delivered or landed did so before, on the same PR. *)
Settled(f) ==
    fix'[f].st \in {"delivered", "landed"} => fix'[f].st = fix[f].st /\ fix'[f].pr = fix[f].pr

RecordsHold ==
    \A b \in Branches : /\ pr[b] = "merged" => pr'[b] = "merged"
                        /\ pr[b] # "closed" => pr'[b] # "closed"

MergeInv == BackedInv /\ LandedIsMerged /\ ClosedIsWithdrawn

LEMMA SettledOn ==
    ASSUME MergeInv, NEW f \in Files, fix[f].st \in {"delivered", "landed"}
    PROVE  fix[f].pr \in Branches /\ pr[fix[f].pr] # "none"
<1>1. fix[f].pr \in Branches \cup {NoPr} BY RowTypes DEF MergeInv, BackedInv, Row
<1> QED BY <1>1 DEF MergeInv, BackedInv, DeliveredIsBacked, DeliveredStatuses

LEMMA SettledKept ==
    ASSUME MergeInv, \A f \in Files : Settled(f), RecordsHold
    PROVE  LandedIsMerged' /\ ClosedIsWithdrawn'
<1>1. ASSUME NEW f \in Files, fix'[f].st = "landed" PROVE pr'[fix'[f].pr] = "merged"
  BY <1>1, SettledOn DEF Settled, RecordsHold, MergeInv, LandedIsMerged
<1>2. ASSUME NEW f \in Files, fix'[f].st = "delivered" PROVE pr'[fix'[f].pr] # "closed"
  BY <1>2, SettledOn DEF Settled, RecordsHold, MergeInv, ClosedIsWithdrawn
<1> QED BY <1>1, <1>2 DEF LandedIsMerged, ClosedIsWithdrawn

LEMMA StepSettled ==
    ASSUME TypeOK, NEW f \in Files, SameLink(f),
           RowStep(f, (DOMAIN FixMachine) \ {"delivery_succeeded", "land"})
    PROVE  Settled(f)
<1>1. CASE Renewed(f) BY <1>1, RowTypes DEF Renewed, Settled
<1>2. CASE ~Renewed(f) /\ SameStatus(f) BY <1>2 DEF SameStatus, SameLink, Settled
<1>3. ASSUME NEW event \in (DOMAIN FixMachine) \ {"delivery_succeeded", "land"}, Fired(f, event)
      PROVE  fix'[f].st \notin {"delivered", "landed"}
  BY <1>3 DEF Fired, Can, Advance, FixMachine, InFlight, Superseded
<1> QED BY <1>1, <1>2, <1>3 DEF RowStep, Settled

NoSync == "sync" \notin Ops

LEMMA RequestMerges ==
    ASSUME MergeInv, NoSync, Request PROVE LandedIsMerged' /\ ClosedIsWithdrawn'
<1>1. ASSUME NEW f \in Files PROVE Settled(f)
  <2>1. /\ RowStep(f, {"regenerate"}) \/ Fired(f, "reject")
        /\ SameLink(f)
    BY RequestRows DEF NoSync, MergeInv, BackedInv
  <2>2. RowStep(f, (DOMAIN FixMachine) \ {"delivery_succeeded", "land"})
    BY <2>1, FixEvents DEF RowStep
  <2> QED BY <2>1, <2>2, StepSettled DEF MergeInv, BackedInv
<1>2. RecordsHold
  <2>1. CASE UNCHANGED pr BY <2>1 DEF RecordsHold
  <2>2. ASSUME NEW F, DropOrphanedClosedPrs(F) PROVE RecordsHold
    BY <2>2 DEF DropOrphanedClosedPrs, RecordsHold
  <2>3. CASE RegenerateRepository \/ \E f \in Files : RegenerateFix(f)
    BY <2>2, <2>3 DEF RegenerateRepository, RegenerateFix, ReplaceFixes
  <2>4. CASE SyncPullRequests BY <2>4 DEF SyncPullRequests, External, NoSync
  <2> QED
    BY <2>1, <2>3, <2>4
    DEF Request, Generate, RetryFix, RejectFix, DeliverFix, DeliverRepository, RequestScan
<1> QED BY <1>1, <1>2, SettledKept

LEMMA RecordMoves ==
    ASSUME NEW s \in PrState \cup {"none"}
    PROVE  /\ TryAdvance(PullRequestMachine, "merge", s) =
                (IF s \in {"open", "draft"} THEN "merged" ELSE s)
           /\ TryAdvance(PullRequestMachine, "close", s) =
                (IF s \in {"open", "draft"} THEN "closed" ELSE s)
           /\ TryAdvance(PullRequestMachine, "reopen", s) = (IF s = "closed" THEN "open" ELSE s)
           /\ TryAdvance(PullRequestMachine, "redeliver", s) = s
           /\ Can(PullRequestMachine, "reopen", s) <=> s = "closed"
BY DEF TryAdvance, Can, Advance, PullRequestMachine, PrState

LEMMA LifecycleMerges ==
    ASSUME MergeInv, NEW b \in Branches, NEW event \in LifecycleEvents,
           PullRequestLifecycle(b, event)
    PROVE  LandedIsMerged' /\ ClosedIsWithdrawn'
<1>0. TypeOK BY DEF MergeInv, BackedInv
<1>1. pr[b] \in PrState \cup {"none"} BY <1>0 DEF TypeOK
<1>2. /\ pr'[b] = TryAdvance(PullRequestMachine, event, pr[b])
      /\ \A c \in Branches : c # b => pr'[c] = pr[c]
      /\ pr[b] # "none"
  BY <1>0 DEF PullRequestLifecycle, TypeOK
<1>3. ASSUME NEW f \in Files
      PROVE  /\ IF f \in Touched(b, event) THEN Fired(f, SideEffect[event])
                                           ELSE fix'[f] = fix[f] /\ SameStatus(f)
             /\ SameLink(f)
  BY <1>0, LifecycleRows
<1>4. ASSUME NEW f \in Files, f \in Touched(b, event)
      PROVE  fix[f].pr = b /\ fix'[f].pr = b
  <2>1. ~Renewed(f)
    <3>1. fix'[f].id = fix[f].id /\ made'[f] = made[f] BY <1>3, <1>4 DEF Fired
    <3>2. made[f] \in Nat /\ made'[f] = made[f] BY <1>0, <3>1, IdsAreNat
    <3> QED BY <3>2 DEF Renewed
  <2> QED BY <1>3, <1>4, <2>1 DEF SameLink, Touched
<1>5. CASE event = "merge"
  <2>1. pr'[b] = (IF pr[b] \in {"open", "draft"} THEN "merged" ELSE pr[b])
    BY <1>1, <1>2, <1>5, RecordMoves
  <2>2. ASSUME NEW f \in Files, f \in Touched(b, event)
        PROVE  fix'[f].st = "landed" /\ pr'[fix'[f].pr] = "merged"
    <3>1. Can(FixMachine, "land", fix[f].st) /\ fix'[f].st = Advance(FixMachine, "land", fix[f].st)
      BY <1>3, <1>5, <2>2 DEF Fired, SideEffect
    <3>2. fix[f].st = "delivered" /\ fix'[f].st = "landed" BY <3>1, FixEdges
    <3>3. pr[b] # "closed" BY <1>4, <2>2, <3>2 DEF MergeInv, ClosedIsWithdrawn
    <3> QED BY <1>1, <1>2, <1>4, <2>1, <2>2, <3>2, <3>3 DEF PrState
  <2>3. RecordsHold BY <1>2, <2>1 DEF RecordsHold
  <2>4. ASSUME NEW f \in Files, f \notin Touched(b, event) PROVE fix'[f] = fix[f]
    BY <1>3, <2>4
  <2>5. ASSUME NEW f \in Files, fix'[f].st = "landed" PROVE pr'[fix'[f].pr] = "merged"
    <3>1. CASE f \in Touched(b, event) BY <2>2, <3>1
    <3>2. CASE f \notin Touched(b, event)
      BY <2>3, <2>4, <2>5, <3>2, SettledOn DEF RecordsHold, MergeInv, LandedIsMerged
    <3> QED BY <3>1, <3>2
  <2>6. ASSUME NEW f \in Files, fix'[f].st = "delivered" PROVE pr'[fix'[f].pr] # "closed"
    <3>1. f \notin Touched(b, event) BY <2>2, <2>6
    <3> QED BY <2>3, <2>4, <2>6, <3>1, SettledOn DEF RecordsHold, MergeInv, ClosedIsWithdrawn
  <2> QED BY <2>5, <2>6 DEF LandedIsMerged, ClosedIsWithdrawn
<1>6. CASE event = "close"
  <2>1. pr'[b] = (IF pr[b] \in {"open", "draft"} THEN "closed" ELSE pr[b])
    BY <1>1, <1>2, <1>6, RecordMoves
  <2>2. ASSUME NEW f \in Files, f \in Touched(b, event)
        PROVE  fix'[f].st = "superseded_by_closed_pr"
    BY <1>3, <1>6, <2>2, FixEdges DEF Fired, SideEffect
  <2>3. ASSUME NEW f \in Files, fix'[f].st \in {"delivered", "landed"}
        PROVE  fix'[f] = fix[f] /\ fix[f].pr \in Branches
    BY <1>3, <2>2, <2>3, SettledOn
  <2>4. ASSUME NEW f \in Files, fix'[f].st = "landed" PROVE pr'[fix'[f].pr] = "merged"
    BY <1>2, <2>1, <2>3, <2>4 DEF MergeInv, LandedIsMerged
  <2>5. ASSUME NEW f \in Files, fix'[f].st = "delivered" PROVE pr'[fix'[f].pr] # "closed"
    <3>1. fix'[f] = fix[f] /\ fix[f].pr \in Branches /\ pr[fix[f].pr] # "closed"
      BY <2>3, <2>5 DEF MergeInv, ClosedIsWithdrawn
    <3>2. CASE fix[f].pr = b
      <4>1. Can(FixMachine, "supersede_closed_pr", "delivered") BY DEF Can, FixMachine
      <4>2. f \in Touched(b, event) BY <1>6, <2>5, <3>1, <3>2, <4>1 DEF Touched, SideEffect
      <4> QED BY <2>2, <2>5, <4>2
    <3>3. CASE fix[f].pr # b BY <1>2, <3>1, <3>3
    <3> QED BY <3>2, <3>3
  <2> QED BY <2>4, <2>5 DEF LandedIsMerged, ClosedIsWithdrawn
<1>7. CASE event = "reopen"
  <2>1. pr'[b] = (IF pr[b] = "closed" THEN "open" ELSE pr[b]) BY <1>1, <1>2, <1>7, RecordMoves
  <2>2. RecordsHold BY <1>2, <2>1 DEF RecordsHold
  <2>3. ASSUME NEW f \in Files PROVE Settled(f)
    <3>1. "restore" \in (DOMAIN FixMachine) \ {"delivery_succeeded", "land"} BY FixEvents
    <3>2. RowStep(f, (DOMAIN FixMachine) \ {"delivery_succeeded", "land"})
      BY <1>3, <1>7, <3>1 DEF RowStep, SideEffect
    <3> QED BY <1>0, <1>3, <3>2, StepSettled
  <2> QED BY <2>2, <2>3, SettledKept
<1> QED BY <1>5, <1>6, <1>7 DEF LifecycleEvents

LEMMA GitHubMerges ==
    ASSUME MergeInv, GitHub PROVE LandedIsMerged' /\ ClosedIsWithdrawn'
<1>0. TypeOK BY DEF MergeInv, BackedInv
<1>1. ASSUME UNCHANGED fix, RecordsHold PROVE LandedIsMerged' /\ ClosedIsWithdrawn'
  <2>1. \A f \in Files : Settled(f) BY <1>1 DEF Settled
  <2> QED BY <1>1, <2>1, SettledKept
<1>2. ASSUME NEW b \in Branches, PullRequestOpened(b) PROVE RecordsHold
  <2>1. pr'[b] = (IF pr[b] = "none" THEN "open" ELSE TryAdvance(PullRequestMachine, "reopen", pr[b]))
        /\ \A c \in Branches : c # b => pr'[c] = pr[c]
    BY <1>0, <1>2 DEF PullRequestOpened, TypeOK
  <2>2. pr[b] \in PrState \cup {"none"} BY <1>0 DEF TypeOK
  <2>3. pr'[b] = (IF pr[b] \in {"none", "closed"} THEN "open" ELSE pr[b])
    BY <2>1, <2>2, RecordMoves
  <2> QED BY <2>1, <2>3 DEF RecordsHold
<1>3. ASSUME NEW b \in Branches, NEW event \in {"convert_to_draft", "mark_ready_for_review"},
             PullRequestDraftToggle(b, event)
      PROVE  RecordsHold
  <2>1. pr'[b] = Advance(PullRequestMachine, event, pr[b])
        /\ Can(PullRequestMachine, event, pr[b])
        /\ \A c \in Branches : c # b => pr'[c] = pr[c]
    BY <1>0, <1>3 DEF PullRequestDraftToggle, TypeOK
  <2>2. pr[b] # "merged" /\ pr'[b] # "closed"
    BY <2>1 DEF Can, Advance, PullRequestMachine
  <2> QED BY <2>1, <2>2 DEF RecordsHold
<1>4. CASE \/ \E b \in Branches : PullRequestOpened(b)
           \/ \E b \in Branches : \E event \in {"convert_to_draft", "mark_ready_for_review"} :
                PullRequestDraftToggle(b, event)
           \/ \E f \in Files : CommitFile(f)
  <2>1. RecordsHold
    <3>1. CASE \E f \in Files : CommitFile(f) BY <3>1 DEF CommitFile, RecordsHold
    <3> QED BY <1>2, <1>3, <1>4, <3>1
  <2>2. UNCHANGED fix BY <1>4 DEF PullRequestOpened, PullRequestDraftToggle, CommitFile
  <2> QED BY <1>1, <2>1, <2>2
<1> QED BY <1>4, LifecycleMerges DEF GitHub

LEMMA WorkMerges ==
    ASSUME MergeInv, NEW j \in Jobs, Work(j) PROVE LandedIsMerged' /\ ClosedIsWithdrawn'
<1>0. TypeOK BY DEF MergeInv, BackedInv
<1>1. ASSUME UNCHANGED pr, \A f \in Files : Settled(f)
      PROVE  LandedIsMerged' /\ ClosedIsWithdrawn'
  <2>1. RecordsHold BY <1>1 DEF RecordsHold
  <2> QED BY <1>1, <2>1, SettledKept
<1>2. CASE GenStart(j) \/ GenSucceed(j) \/ GenFail(j) \/ GenCount(j) \/ GenLost(j)
  <2>1. UNCHANGED pr BY <1>2 DEF GenStart, GenSucceed, GenFail, GenCount, GenLost
  <2>2. ASSUME NEW f \in Files PROVE Settled(f)
    <3>1. \/ fix'[f] = fix[f]
          \/ Fired(f, "start_generation")
          \/ fix'[f].st \in {"ready", "failed"}
      BY <1>0, <1>2, GenerationRows
    <3>2. Fired(f, "start_generation") => fix'[f].st = "generating"
      BY DEF Fired, Can, Advance, FixMachine
    <3> QED BY <3>1, <3>2 DEF Settled
  <2> QED BY <1>1, <2>1, <2>2
<1>3. CASE DelPrecheck(j) \/ DelClaim(j) \/ DelPush(j) \/ DelFail(j) \/ DelLost(j)
  <2>1. UNCHANGED pr BY <1>3 DEF DelPrecheck, DelClaim, DelPush, DelFail, DelLost
  <2>2. ASSUME NEW f \in Files PROVE Settled(f)
    <3>2. CASE DelSucceed(j)
      <4>1. job[j].phase = "pushed" /\ job[j].kind = "del" BY <3>2 DEF DelSucceed
      <4>2. DelFail(j) \/ DelLost(j) BY <1>3, <4>1 DEF DelPrecheck, DelClaim, DelPush
      <4>3. CASE DelFail(j)
        <5>1. fix[f] \in Row /\ "failed" \in FixStatus BY <1>0, RowTypes DEF FixStatus
        <5>2. fix'[f] = fix[f] \/ fix'[f] = Move(fix[f], "failed")
          BY <4>3, FixOutcomes DEF DelFail
        <5> QED BY <5>1, <5>2, MoveType DEF Settled
      <4>4. CASE DelLost(j) BY <4>4 DEF DelLost, Settled
      <4> QED BY <4>2, <4>3, <4>4
    <3>3. CASE ~DelSucceed(j)
      BY <1>0, <1>3, <3>3, DeliveryRows DEF Settled
    <3> QED BY <3>2, <3>3
  <2> QED BY <1>1, <2>1, <2>2
<1>4. CASE DelSucceed(j)
  <2> DEFINE b == job[j].branch
  <2>1. b \in Branches BY <1>0 DEF TypeOK, Job
  <2>2. /\ pr'[b] = Recorded(pr[b]) /\ \A c \in Branches : c # b => pr'[c] = pr[c]
        /\ pr[b] \in PrState \cup {"none"}
    BY <1>0, <1>4, <2>1 DEF DelSucceed, TypeOK
  <2>3. pr'[b] = (IF pr[b] \in {"none", "closed"} THEN "open" ELSE pr[b])
    BY <2>2, RecordMoves DEF Recorded
  <2>4. RecordsHold BY <2>1, <2>2, <2>3 DEF RecordsHold
  <2>5. ASSUME NEW f \in Files
        PROVE  fix'[f] = fix[f] \/ (fix'[f].st = "delivered" /\ fix'[f].pr = b)
    <3>1. CASE f \notin job[j].files BY <1>4, <3>1 DEF DelSucceed
    <3>2. CASE f \in job[j].files
      <4> DEFINE moved == Move(fix[f], "delivered")
      <4>1. fix'[f] = [moved EXCEPT !.pr = b] BY <1>4, <3>2, FixOutcomes DEF DelSucceed
      <4>2. fix[f] \in Row /\ "delivered" \in FixStatus BY <1>0, RowTypes DEF FixStatus
      <4>3. moved \in Row /\ moved.st = "delivered" BY <4>2, MoveType
      <4> HIDE DEF moved, b
      <4> QED BY <4>1, <4>3 DEF Row
    <3> QED BY <3>1, <3>2
  <2>6. pr'[b] # "closed" BY <2>3
  <2>7. ASSUME NEW f \in Files, fix'[f].st = "landed" PROVE pr'[fix'[f].pr] = "merged"
    BY <2>4, <2>5, <2>7, SettledOn DEF RecordsHold, MergeInv, LandedIsMerged
  <2>8. ASSUME NEW f \in Files, fix'[f].st = "delivered" PROVE pr'[fix'[f].pr] # "closed"
    BY <2>4, <2>5, <2>6, <2>8, SettledOn DEF RecordsHold, MergeInv, ClosedIsWithdrawn
  <2> QED BY <2>7, <2>8 DEF LandedIsMerged, ClosedIsWithdrawn
<1>5. CASE ScanSync(j) \/ ScanFinish(j)
  <2>1. UNCHANGED pr BY <1>5 DEF ScanSync, ScanFinish
  <2>2. ASSUME NEW f \in Files PROVE Settled(f)
    <3>1. /\ SameLink(f)
          /\ RowStep(f, {"restore", "mark_ready"}) \/ Fired(f, "supersede_deleted_file")
      BY <1>0, <1>5, ScanRows
    <3>2. RowStep(f, (DOMAIN FixMachine) \ {"delivery_succeeded", "land"})
      BY <3>1, FixEvents DEF RowStep
    <3> QED BY <1>0, <3>1, <3>2, StepSettled
  <2> QED BY <1>1, <2>1, <2>2
<1> QED BY <1>2, <1>3, <1>4, <1>5 DEF Work

LEMMA MergeStep == ASSUME NoSync PROVE MergeInv /\ [Next]_vars => MergeInv'
<1> SUFFICES ASSUME MergeInv, [Next]_vars PROVE MergeInv'
  OBVIOUS
<1>1. BackedInv' BY BackedStep DEF MergeInv
<1>2. CASE (\E f \in Files : Age(f)) \/ Sweep \/ (\E j \in Jobs : Crash(j)) \/ UNCHANGED vars
  <2>1. ASSUME NEW f \in Files PROVE Settled(f)
    <3>1. SameLink(f) /\ (SameStatus(f) \/ Fired(f, "swept"))
      BY <1>2, TimeRows DEF MergeInv, BackedInv
    <3>2. RowStep(f, (DOMAIN FixMachine) \ {"delivery_succeeded", "land"})
      BY <3>1, FixEvents DEF RowStep
    <3> QED BY <3>1, <3>2, StepSettled DEF MergeInv, BackedInv
  <2>2. RecordsHold BY <1>2 DEF Age, Sweep, Crash, vars, RecordsHold
  <2> QED BY <1>1, <2>1, <2>2, SettledKept DEF MergeInv
<1>3. LandedIsMerged' /\ ClosedIsWithdrawn'
  BY <1>2, RequestMerges, GitHubMerges, WorkMerges DEF Next, MergeInv
<1> QED BY <1>1, <1>3 DEF MergeInv

LEMMA MergeInit == Init => MergeInv
BY BackedInit DEF Init, MergeInv, LandedIsMerged, ClosedIsWithdrawn, Absent

(* Without the manual PR sync, a fix has landed only on a record that says   *)
(* merged, whatever order the webhooks come in (handle_pull_request_lifecycle *)
(* and record_pull_request).                                                *)
THEOREM LandsMerged == ASSUME NoSync PROVE Spec => []LandedIsMerged
<1>1. MergeInv => LandedIsMerged
  BY DEF MergeInv
<1> QED
  BY MergeInit, MergeStep, <1>1, PTL DEF Spec

(* Without it, no fix counts as delivered on a pull request that was closed. *)
THEOREM CloseWithdraws == ASSUME NoSync PROVE Spec => []ClosedIsWithdrawn
<1>1. MergeInv => ClosedIsWithdrawn
  BY DEF MergeInv
<1> QED
  BY MergeInit, MergeStep, <1>1, PTL DEF Spec

-----------------------------------------------------------------------------
(* BatchNotEarly.  A worker that dies between the count and the end of its  *)
(* task is counted twice, so it is stated of instances without crashes.     *)

NoCrash == "crash" \notin Ops

BatchInv == TypeOK /\ BatchNotEarly /\ \A k \in Batches : IsFiniteSet(Tasks(k))

(* A slot stays in its batch or leaves it. *)
KeepsBatch(j) == job'[j].batch \in {job[j].batch, NoBatch}

LEMMA FewerTasks ==
    ASSUME BatchInv, NEW k \in Batches, \A j \in Jobs : job'[j].batch = k => job[j].batch = k,
           batch'[k] = batch[k]
    PROVE  IsFiniteSet(Tasks(k)') /\ Cardinality(Tasks(k)') <= batch'[k].left
<1>1. Tasks(k)' \subseteq Tasks(k) BY DEF Tasks
<1>2. IsFiniteSet(Tasks(k)) /\ Cardinality(Tasks(k)) <= batch[k].left /\ batch[k].left \in Nat
  BY DEF BatchInv, BatchNotEarly, TypeOK
<1>3. IsFiniteSet(Tasks(k)') /\ Cardinality(Tasks(k)') <= Cardinality(Tasks(k))
  BY <1>1, <1>2, FS_Subset
<1>4. Cardinality(Tasks(k)') \in Nat /\ Cardinality(Tasks(k)) \in Nat
  BY <1>2, <1>3, FS_CardinalityType
<1> QED BY <1>2, <1>3, <1>4

LEMMA BatchKept ==
    ASSUME BatchInv, TypeOK', \A j \in Jobs : KeepsBatch(j), UNCHANGED batch PROVE BatchInv'
<1>1. ASSUME NEW k \in Batches
      PROVE  IsFiniteSet(Tasks(k)') /\ Cardinality(Tasks(k)') <= batch'[k].left
  <2>1. k # NoBatch BY NamesAssumption
  <2>2. \A j \in Jobs : job'[j].batch = k => job[j].batch = k BY <2>1 DEF KeepsBatch
  <2> QED BY <2>2, FewerTasks
<1> QED BY <1>1 DEF BatchInv, BatchNotEarly

(* One task leaves its batch as it is counted off. *)
LEMMA CountedOff ==
    ASSUME BatchInv, TypeOK', NEW j \in Jobs, NEW ok, EndGeneration(j, ok) PROVE BatchInv'
<1>0. PICK b \in Batches \cup {NoBatch} : b = job[j].batch BY DEF BatchInv, TypeOK, Job
<1>1. /\ batch' = Counted(b, ok) /\ job'[j].batch = NoBatch
      /\ \A i \in Jobs : i # j => job'[i] = job[i]
  BY <1>0, EndShape DEF BatchInv
<1>2. CASE b = NoBatch
  <2>1. UNCHANGED batch BY <1>1, <1>2 DEF Counted
  <2> QED BY <1>0, <1>1, <2>1, BatchKept DEF KeepsBatch
<1>3. CASE b # NoBatch
  <2>1. b \in Batches BY <1>3
  <2>2. batch[b].left \in Nat BY <2>1 DEF BatchInv, TypeOK
  <2>3. /\ batch'[b].left = (IF batch[b].left <= 1 THEN 0 ELSE batch[b].left - 1)
        /\ \A k \in Batches : k # b => batch'[k] = batch[k]
    BY <1>1, <1>3, <2>1 DEF Counted, BatchInv, TypeOK, EmptyBatch
  <2>4. Tasks(b)' = Tasks(b) \ {j} BY <1>0, <1>1, <1>3, <2>1, NamesAssumption DEF Tasks
  <2>5. j \in Tasks(b) /\ IsFiniteSet(Tasks(b)) /\ Cardinality(Tasks(b)) <= batch[b].left
    BY <1>0, <2>1 DEF Tasks, BatchInv, BatchNotEarly
  <2>6. /\ IsFiniteSet(Tasks(b)') /\ Cardinality(Tasks(b)') = Cardinality(Tasks(b)) - 1
        /\ Cardinality(Tasks(b)) \in Nat /\ Cardinality(Tasks(b)') \in Nat
    BY <2>4, <2>5, FS_RemoveElement, FS_CardinalityType
  <2>7. Cardinality(Tasks(b)') <= batch'[b].left BY <2>2, <2>3, <2>5, <2>6
  <2>8. ASSUME NEW k \in Batches, k # b
        PROVE  IsFiniteSet(Tasks(k)') /\ Cardinality(Tasks(k)') <= batch'[k].left
    <3>1. \A i \in Jobs : job'[i].batch = k => job[i].batch = k
      BY <1>1, <2>8, NamesAssumption
    <3> QED BY <2>3, <2>8, <3>1, FewerTasks
  <2>9. ASSUME NEW k \in Batches
        PROVE  IsFiniteSet(Tasks(k)') /\ Cardinality(Tasks(k)') <= batch'[k].left
    BY <2>6, <2>7, <2>8
  <2> QED BY <2>9 DEF BatchInv, BatchNotEarly
<1> QED BY <1>2, <1>3

(* A fresh batch gets as many tasks as its counter says. *)
LEMMA DispatchCounts ==
    ASSUME BatchInv, TypeOK', NEW F \in SUBSET Files, NEW own \in SUBSET Jobs, Dispatch(F, own)
    PROVE  BatchInv'
<1>0. TypeOK BY DEF BatchInv
<1>1. PICK k \in Batches, place \in [F -> Free \cup own] : Placed(F, own, k, place)
  BY <1>0, DispatchShape
<1>2. k # NoBatch BY NamesAssumption
<1>3. \A j \in Jobs : job[j].batch # k BY <1>1 DEF Placed, FreshBatch
<1> DEFINE slots == {place[f] : f \in F}
<1>4. ASSUME NEW j \in Jobs, j \notin slots
      PROVE  job'[j] = Idle \/ job'[j] = job[j]
  <2>1. \A f \in F : place[f] # j BY <1>4
  <2> QED BY <1>1, <2>1 DEF Placed
<1>5. \A f \in F : job'[place[f]] = GenTask(f, k) BY <1>1 DEF Placed
<1>6. Tasks(k)' = slots
  <2>1. ASSUME NEW j \in slots PROVE j \in Jobs /\ job'[j].batch = k
    <3>1. PICK f \in F : j = place[f] BY <2>1
    <3> QED BY <1>5, <3>1, QueuedTasks DEF Free
  <2>2. ASSUME NEW j \in Jobs, job'[j].batch = k PROVE j \in slots
    BY <1>2, <1>3, <1>4, <2>2, QueuedTasks
  <2> QED BY <2>1, <2>2 DEF Tasks
<1>7. IsFiniteSet(F) /\ Cardinality(F) \in Nat BY FilesAssumption, FS_Subset, FS_CardinalityType
<1>8. IsFiniteSet(slots) /\ Cardinality(slots) <= Cardinality(F)
  <2>1. place \in Surjection(F, slots)
    BY DEF Surjection
  <2> QED BY <1>7, <2>1, FS_Surjection
<1>9. batch' = [batch EXCEPT ![k] = InitBatch(Cardinality(F))] BY <1>1 DEF Placed
<1>10. batch'[k].left = Cardinality(F) BY <1>0, <1>9 DEF TypeOK, InitBatch
<1>11. ASSUME NEW c \in Batches, c # k
       PROVE  IsFiniteSet(Tasks(c)') /\ Cardinality(Tasks(c)') <= batch'[c].left
  <2>1. ASSUME NEW j \in Jobs, job'[j].batch = c PROVE job[j].batch = c
    <3>1. j \notin slots BY <1>6, <1>11, <2>1 DEF Tasks
    <3>2. c # NoBatch BY NamesAssumption
    <3> QED BY <1>4, <2>1, <3>1, <3>2, QueuedTasks
  <2>2. batch'[c] = batch[c] BY <1>0, <1>9, <1>11 DEF TypeOK
  <2> QED BY <2>1, <2>2, FewerTasks
<1> QED BY <1>6, <1>8, <1>10, <1>11 DEF BatchInv, BatchNotEarly

LEMMA RequestBatches ==
    ASSUME BatchInv, TypeOK', Request PROVE BatchInv'
<1>0. TypeOK BY DEF BatchInv
<1>1. ASSUME NEW F \in SUBSET Files, NEW force \in BOOLEAN, Generate(F, force) PROVE BatchInv'
  <2> DEFINE replaced == {f \in F : force \/ fix[f].st # "delivered"}
  <2>1. Dispatch(replaced, {}) /\ replaced \in SUBSET Files BY <1>1 DEF Generate
  <2> HIDE DEF replaced
  <2> QED BY <2>1, DispatchCounts
<1>2. CASE RegenerateRepository \/ \E f \in Files : RegenerateFix(f)
  <2>1. PICK F \in SUBSET Files : ReplaceFixes(F)
    BY <1>2 DEF RegenerateRepository, RegenerateFix
  <2> QED BY <2>1, DispatchCounts DEF ReplaceFixes
<1>3. ASSUME NEW f \in Files, RetryFix(f) PROVE BatchInv'
  <2>1. PICK j \in Free : job' = [job EXCEPT ![j] = GenTask(f, NoBatch)] BY <1>3 DEF RetryFix
  <2>2. j \in Jobs BY DEF Free
  <2>3. job'[j] = GenTask(f, NoBatch) /\ \A i \in Jobs : i # j => job'[i] = job[i]
    BY <1>0, <2>1, <2>2, SlotSet
  <2>4. \A i \in Jobs : KeepsBatch(i) BY <2>3, QueuedTasks DEF KeepsBatch
  <2>5. UNCHANGED batch BY <1>3 DEF RetryFix
  <2> QED BY <2>4, <2>5, BatchKept
<1>4. ASSUME NEW F, NEW b, NEW force, QueueDelivery(F, b, force), UNCHANGED batch PROVE BatchInv'
  <2>1. \A i \in Jobs : KeepsBatch(i) BY <1>0, <1>4, QueueShape DEF KeepsBatch
  <2> QED BY <1>4, <2>1, BatchKept
<1>5. CASE \/ \E f \in Files, force \in BOOLEAN : DeliverFix(f, force)
           \/ \E force \in BOOLEAN : DeliverRepository(force)
  BY <1>4, <1>5 DEF DeliverFix, DeliverRepository
<1>6. CASE RequestScan
  <2>1. PICK j \in Free : job' = [job EXCEPT ![j] = ScanTask] BY <1>6 DEF RequestScan
  <2>2. j \in Jobs BY DEF Free
  <2>3. job'[j] = ScanTask /\ \A i \in Jobs : i # j => job'[i] = job[i]
    BY <1>0, <2>1, <2>2, SlotSet
  <2>4. \A i \in Jobs : KeepsBatch(i) BY <2>3, QueuedTasks DEF KeepsBatch
  <2> QED BY <1>6, <2>4, BatchKept DEF RequestScan
<1>7. CASE SyncPullRequests \/ \E f \in Files : RejectFix(f)
  BY <1>7, BatchKept DEF SyncPullRequests, RejectFix, KeepsBatch
<1> QED BY <1>1, <1>2, <1>3, <1>5, <1>6, <1>7 DEF Request

LEMMA WorkBatches ==
    ASSUME BatchInv, TypeOK', NEW j \in Jobs, Work(j) PROVE BatchInv'
<1>0. TypeOK /\ job[j] \in Job BY DEF BatchInv, TypeOK
<1>1. ASSUME \A i \in Jobs : i # j => job'[i] = job[i], job'[j].batch \in {job[j].batch, NoBatch},
             UNCHANGED batch
      PROVE  BatchInv'
  BY <1>1, BatchKept DEF KeepsBatch
<1>2. CASE GenStart(j)
  <2>1. PICK f : \/ job' = [job EXCEPT ![j].phase = "running", ![j].rows[f] = fix[f].id]
                    /\ UNCHANGED batch
                 \/ EndGeneration(j, FALSE)
    BY <1>2 DEF GenStart
  <2>2. CASE EndGeneration(j, FALSE) BY <2>2, CountedOff
  <2>3. CASE job' = [job EXCEPT ![j].phase = "running", ![j].rows[f] = fix[f].id] /\ UNCHANGED batch
    <3>1. job'[j] = [job[j] EXCEPT !.phase = "running", !.rows[f] = fix[f].id]
      BY <1>0, <2>3 DEF TypeOK
    <3>2. job'[j].batch = job[j].batch BY <1>0, <3>1 DEF Job
    <3> QED BY <1>0, <1>1, <2>3, <3>2 DEF TypeOK
  <2> QED BY <2>1, <2>2, <2>3
<1>3. CASE GenSucceed(j)
  <2>1. job'[j] = [job[j] EXCEPT !.phase = "ended", !.ok = TRUE]
    BY <1>0, <1>3 DEF GenSucceed, TypeOK
  <2>2. job'[j].batch = job[j].batch BY <1>0, <2>1 DEF Job
  <2> QED BY <1>0, <1>1, <1>3, <2>2 DEF GenSucceed, TypeOK
<1>4. CASE GenFail(j)
  <2>1. job'[j] = [job[j] EXCEPT !.phase = "ended"] BY <1>0, <1>4 DEF GenFail, TypeOK
  <2>2. job'[j].batch = job[j].batch BY <1>0, <2>1 DEF Job
  <2> QED BY <1>0, <1>1, <1>4, <2>2 DEF GenFail, TypeOK
<1>5. CASE GenCount(j) BY <1>5, CountedOff DEF GenCount
<1>6. CASE GenLost(j)
  <2>1. job'[j] = Idle /\ \A i \in Jobs : i # j => job'[i] = job[i]
    BY <1>0, <1>6, SlotSet DEF GenLost
  <2> QED BY <1>1, <1>6, <2>1, QueuedTasks DEF GenLost
<1>7. CASE \/ DelPrecheck(j) \/ DelClaim(j) \/ DelPush(j)
           \/ DelSucceed(j) \/ DelFail(j) \/ DelLost(j)
  <2>1. UNCHANGED batch
    BY <1>7 DEF DelPrecheck, DelClaim, DelPush, DelSucceed, DelFail, DelLost
  <2> QED BY <1>0, <1>1, <1>7, <2>1, DeliverySlot, QueuedTasks
<1>8. CASE ScanSync(j)
  <2>1. UNCHANGED batch BY <1>8 DEF ScanSync
  <2> QED BY <1>0, <1>1, <1>8, <2>1, SyncSlot
<1>9. CASE ScanFinish(j)
  <2>1. PICK keep, redo \in SUBSET Files : Reconciled(j, keep, redo) BY <1>0, <1>9, FinishShape
  <2>2. CASE job' = [job EXCEPT ![j] = Idle] /\ UNCHANGED batch
    <3>1. job'[j] = Idle /\ \A i \in Jobs : i # j => job'[i] = job[i] BY <1>0, <2>2, SlotSet
    <3> QED BY <1>1, <2>2, <3>1, QueuedTasks
  <2>3. CASE Dispatch(redo, {j}) BY <2>3, DispatchCounts
  <2> QED BY <2>1, <2>2, <2>3 DEF Reconciled
<1> QED BY <1>2, <1>3, <1>4, <1>5, <1>6, <1>7, <1>8, <1>9 DEF Work

LEMMA BatchStep == ASSUME NoCrash PROVE BatchInv /\ [Next]_vars => BatchInv'
<1> SUFFICES ASSUME BatchInv, [Next]_vars PROVE BatchInv'
  OBVIOUS
<1>1. TypeOK' BY TypeStep DEF BatchInv
<1>2. CASE GitHub \/ (\E f \in Files : Age(f)) \/ Sweep \/ UNCHANGED vars
  <2>1. UNCHANGED <<job, batch>>
    BY <1>2 DEF GitHub, PullRequestLifecycle, PullRequestOpened, PullRequestDraftToggle, CommitFile,
                Age, Sweep, vars
  <2> QED BY <1>1, <2>1, BatchKept DEF KeepsBatch
<1>3. CASE \E j \in Jobs : Crash(j) BY <1>3 DEF Crash, External, NoCrash
<1> QED BY <1>1, <1>2, <1>3, RequestBatches, WorkBatches DEF Next

LEMMA BatchInit == Init => BatchInv
<1> SUFFICES ASSUME Init PROVE BatchInv
  OBVIOUS
<1>1. TypeOK BY TypeInit
<1>2. ASSUME NEW k \in Batches PROVE Tasks(k) = {}
  BY <1>2, NamesAssumption, QueuedTasks DEF Init, Tasks
<1>3. \A k \in Batches : batch[k].left = 0 BY DEF Init, EmptyBatch
<1> QED BY <1>1, <1>2, <1>3, FS_EmptySet DEF BatchInv, BatchNotEarly

(* Without a worker dying, no generation run is closed, and no deliveries    *)
(* queued for it, while one of its tasks is outstanding                      *)
(* (init_fix_batch, _record_batch_result).                                  *)
THEOREM RunsEndLast == ASSUME NoCrash PROVE Spec => []BatchNotEarly
<1>1. BatchInv => BatchNotEarly
  BY DEF BatchInv
<1> QED
  BY BatchInit, BatchStep, <1>1, PTL DEF Spec

-----------------------------------------------------------------------------
(***************************************************************************)
(* OneWorkerPerRow.  A task takes a row that is pending, or ready, and     *)
(* moves it to a status no other task takes; what keeps the second worker  *)
(* away is that nothing but the first one's outcome moves it from there.   *)
(* A forced delivery, a file that disappears and comes back, and the       *)
(* sweeper do, so the theorem is of instances without them.                *)
(***************************************************************************)

NoTakeover == Ops \cap {"force", "file", "sweep"} = {}

Busy(j) == IF job[j].kind = "gen" THEN "generating" ELSE "delivering"

(* A row that is worked on says so, unless its user has rejected it. *)
Owners == \A j \in Jobs : \A f \in Files :
            Running(j, f) => fix[f].st \in {Busy(j), "rejected_by_user"}

Unforced == \A j \in Jobs : job[j].force = FALSE

AllPresent == \A f \in Files : file[f].present = TRUE

WorkInv == BackedInv /\ Unforced /\ AllPresent /\ Owners /\ OneWorkerPerRow

Working(j) == job[j].phase \in {"running", "pushed"} /\ job[j].kind \in {"gen", "del"}

(* The slot's task gets no further row. *)
Quiet(j) == Working(j)' => /\ Working(j) /\ job'[j].kind = job[j].kind
                           /\ job'[j].files = job[j].files /\ job'[j].rows = job[j].rows

(* The row is replaced, or keeps its id. *)
Stays(f) == fix'[f].id = fix[f].id /\ made'[f] = made[f]
            /\ (fix[f].st = "absent" => fix'[f].st = "absent")

(* What is done to a row by somebody who does not work on it. *)
Aside(f) ==
    \/ Renewed(f) \/ SameStatus(f) \/ Fired(f, "reject")
    \/ Stays(f) /\ fix[f].st \notin {"generating", "delivering", "rejected_by_user"}

LEMMA StillRunning ==
    ASSUME WorkInv, NEW j \in Jobs, NEW f \in Files, Quiet(j), Renewed(f) \/ Stays(f),
           Running(j, f)'
    PROVE  Running(j, f) /\ Stays(f)
<1>1. /\ Working(j) /\ job'[j].kind = job[j].kind /\ job'[j].files = job[j].files
      /\ job'[j].rows[f] = job[j].rows[f] /\ f \in job[j].files
      /\ job[j].rows[f] = fix'[f].id /\ fix'[f].st # "absent"
  BY DEF Running, Quiet, Working, Holds
<1>2. job[j].rows[f] <= made[f] /\ job[j].rows[f] \in Nat /\ made[f] \in Nat
  BY IdsAreNat DEF WorkInv, BackedInv, Numbered
<1>3. Renewed(f) => fix'[f].id = made[f] + 1
  BY RowTypes DEF Renewed, WorkInv, BackedInv
<1>4. ~Renewed(f) BY <1>1, <1>2, <1>3
<1>5. Stays(f) BY <1>4
<1> QED BY <1>1, <1>5 DEF Running, Working, Holds, Stays

LEMMA AsideStays ==
    ASSUME NEW f \in Files, Aside(f) PROVE Renewed(f) \/ Stays(f)
<1>1. ~Can(FixMachine, "reject", "absent") BY DEF Can, FixMachine, InFlight, Superseded
<1> QED BY <1>1 DEF Aside, SameStatus, Stays, Fired

LEMMA AsideStep ==
    ASSUME WorkInv, \A j \in Jobs : Quiet(j), \A f \in Files : Aside(f)
    PROVE  Owners' /\ OneWorkerPerRow'
<1>1. ASSUME NEW j \in Jobs, NEW f \in Files, Running(j, f)'
      PROVE  /\ Running(j, f) /\ job'[j].kind = job[j].kind
             /\ fix'[f].st \in {Busy(j), "rejected_by_user"}
  <2>1. Running(j, f) /\ Stays(f) BY <1>1, AsideStays, StillRunning
  <2>2. job'[j].kind = job[j].kind BY <1>1 DEF Running, Quiet, Working
  <2>3. fix[f].st \in {Busy(j), "rejected_by_user"} BY <2>1 DEF WorkInv, Owners
  <2>4. ~Renewed(f)
    <3>1. made[f] \in Nat /\ made'[f] = made[f] BY <2>1, IdsAreNat DEF Stays, WorkInv, BackedInv
    <3> QED BY <3>1 DEF Renewed
  <2>5. Fired(f, "reject") => fix'[f].st = "rejected_by_user" BY FixEdges DEF Fired
  <2> QED BY <2>1, <2>2, <2>3, <2>4, <2>5 DEF Aside, SameStatus, Busy
<1>2. Owners' BY <1>1 DEF Owners, Busy
<1>3. OneWorkerPerRow' BY <1>1 DEF OneWorkerPerRow, WorkInv
<1> QED BY <1>2, <1>3

(* The outcome of a task, written to the rows it holds. *)
LEMMA OutcomeStep ==
    ASSUME WorkInv, NEW j \in Jobs, ~Working(j)', \A i \in Jobs : i # j => job'[i] = job[i],
           \A f \in Files : SameStatus(f) \/ (Running(j, f) /\ SameRow(f) /\ made'[f] = made[f])
    PROVE  Owners' /\ OneWorkerPerRow'
<1>1. ASSUME NEW i \in Jobs, NEW f \in Files, Running(i, f)'
      PROVE  i # j /\ Running(i, f) /\ SameStatus(f)
  <2>1. i # j BY <1>1 DEF Running, Working
  <2>2. Stays(f) BY DEF SameStatus, SameRow, Stays
  <2>3. Quiet(i) BY <2>1 DEF Quiet, Working
  <2>4. Running(i, f) BY <1>1, <2>2, <2>3, StillRunning
  <2>5. ~Running(j, f) BY <2>1, <2>4 DEF WorkInv, OneWorkerPerRow
  <2> QED BY <2>1, <2>4, <2>5
<1>2. Owners' BY <1>1 DEF Owners, Busy, WorkInv, SameStatus
<1>3. OneWorkerPerRow' BY <1>1 DEF OneWorkerPerRow, WorkInv
<1> QED BY <1>2, <1>3

(* A task takes rows that nobody works on. *)
LEMMA StartStep ==
    ASSUME WorkInv, NEW j \in Jobs, \A i \in Jobs : i # j => job'[i] = job[i],
           \A f \in Files : SameStatus(f) \/ (Stays(f) /\ f \in job'[j].files),
           \A f \in job'[j].files : fix[f].st \in {"pending", "ready"} /\ fix'[f].st = Busy(j)'
    PROVE  Owners' /\ OneWorkerPerRow'
<1>1. ASSUME NEW i \in Jobs, NEW f \in Files, Running(i, f)', i # j
      PROVE  Running(i, f) /\ SameStatus(f) /\ f \notin job'[j].files
  <2>1. Stays(f) BY DEF SameStatus, Stays
  <2>2. Quiet(i) BY <1>1 DEF Quiet, Working
  <2>3. Running(i, f) BY <1>1, <2>1, <2>2, StillRunning
  <2>4. fix[f].st \in {"generating", "delivering", "rejected_by_user"}
    BY <2>3 DEF WorkInv, Owners, Busy
  <2> QED BY <2>3, <2>4
<1>2. ASSUME NEW f \in Files, Running(j, f)' PROVE f \in job'[j].files
  BY <1>2 DEF Running
<1>3. Owners'
  <2>1. ASSUME NEW i \in Jobs, NEW f \in Files, Running(i, f)', i # j
        PROVE  fix'[f].st \in {Busy(i)', "rejected_by_user"}
    <3>1. Running(i, f) /\ fix'[f].st = fix[f].st /\ job'[i] = job[i]
      BY <1>1, <2>1 DEF SameStatus
    <3> QED BY <3>1 DEF WorkInv, Owners, Busy
  <2>2. ASSUME NEW f \in Files, Running(j, f)' PROVE fix'[f].st = Busy(j)'
    BY <1>2, <2>2
  <2> QED BY <2>1, <2>2 DEF Owners
<1>4. OneWorkerPerRow'
  <2> SUFFICES ASSUME NEW f \in Files, NEW i \in Jobs, NEW h \in Jobs,
                      Running(i, f)', Running(h, f)'
               PROVE  i = h
    BY DEF OneWorkerPerRow
  <2>1. CASE i # j /\ h # j BY <1>1, <2>1 DEF WorkInv, OneWorkerPerRow
  <2>2. CASE i = j \/ h = j BY <1>1, <1>2, <2>2
  <2> QED BY <2>1, <2>2
<1> QED BY <1>3, <1>4

(* A slot that is written by a route, or by the end of a task, waits. *)
Queued(j) == job'[j] = job[j] \/ (job'[j].phase = "queued" /\ job'[j].force = FALSE)

LEMMA QueuedQuiet == ASSUME NEW j, Queued(j) PROVE Quiet(j)
BY DEF Queued, Quiet, Working

LEMMA Unpressed ==
    /\ Idle.force = FALSE /\ ScanTask.force = FALSE
    /\ \A f, k : GenTask(f, k).force = FALSE
BY DEF Idle, ScanTask, GenTask

LEMMA DispatchQueued ==
    ASSUME TypeOK, NEW F \in SUBSET Files, NEW own \in SUBSET Jobs, Dispatch(F, own), NEW j \in Jobs
    PROVE  Queued(j)
<1>1. PICK k \in Batches, place \in [F -> Free \cup own] : Placed(F, own, k, place)
  BY DispatchShape
<1>2. CASE \A f \in F : place[f] # j
  <2>1. job'[j] = job[j] \/ job'[j] = Idle BY <1>1, <1>2 DEF Placed
  <2> QED BY <2>1, QueuedTasks, Unpressed DEF Queued
<1>3. CASE ~\A f \in F : place[f] # j
  <2>1. PICK f \in F : place[f] = j BY <1>3
  <2>2. job'[j] = GenTask(f, k) BY <1>1, <2>1 DEF Placed
  <2> QED BY <2>2, QueuedTasks, Unpressed DEF Queued
<1> QED BY <1>2, <1>3

LEMMA RequestQueued ==
    ASSUME TypeOK, Request, "force" \notin Ops, NEW j \in Jobs PROVE Queued(j)
<1>1. ASSUME NEW F \in SUBSET Files, NEW force \in BOOLEAN, Generate(F, force) PROVE Queued(j)
  <2> DEFINE replaced == {f \in F : force \/ fix[f].st # "delivered"}
  <2>1. Dispatch(replaced, {}) /\ replaced \in SUBSET Files BY <1>1 DEF Generate
  <2> HIDE DEF replaced
  <2> QED BY <2>1, DispatchQueued
<1>2. CASE RegenerateRepository \/ \E f \in Files : RegenerateFix(f)
  <2>1. PICK F \in SUBSET Files : ReplaceFixes(F)
    BY <1>2 DEF RegenerateRepository, RegenerateFix
  <2> QED BY <2>1, DispatchQueued DEF ReplaceFixes
<1>3. ASSUME NEW f \in Files, RetryFix(f) PROVE Queued(j)
  <2>1. PICK i \in Free : job' = [job EXCEPT ![i] = GenTask(f, NoBatch)] BY <1>3 DEF RetryFix
  <2>2. i \in Jobs BY DEF Free
  <2>3. job'[j] = job[j] \/ job'[j] = GenTask(f, NoBatch) BY <2>1, <2>2, SlotSet
  <2> QED BY <2>3, QueuedTasks, Unpressed DEF Queued
<1>4. ASSUME NEW F, NEW b, NEW force, force = FALSE, QueueDelivery(F, b, force) PROVE Queued(j)
  <2>1. PICK i \in Free : /\ job'[i].phase = "queued" /\ job'[i].force = FALSE
                          /\ \A h \in Jobs : h # i => job'[h] = job[h]
    BY <1>4, QueueShape
  <2> QED BY <2>1 DEF Queued
<1>5. CASE \/ \E f \in Files, force \in BOOLEAN : DeliverFix(f, force)
           \/ \E force \in BOOLEAN : DeliverRepository(force)
  <2>1. PICK F, b, force : force = FALSE /\ QueueDelivery(F, b, force)
    BY <1>5 DEF DeliverFix, DeliverRepository, External
  <2> QED BY <1>4, <2>1
<1>6. CASE RequestScan
  <2>1. PICK i \in Free : job' = [job EXCEPT ![i] = ScanTask] BY <1>6 DEF RequestScan
  <2>2. i \in Jobs BY DEF Free
  <2>3. job'[j] = job[j] \/ job'[j] = ScanTask BY <2>1, <2>2, SlotSet
  <2> QED BY <2>3, QueuedTasks, Unpressed DEF Queued
<1>7. CASE SyncPullRequests \/ \E f \in Files : RejectFix(f)
  BY <1>7 DEF SyncPullRequests, RejectFix, Queued
<1> QED BY <1>1, <1>2, <1>3, <1>5, <1>6, <1>7 DEF Request

LEMMA PresentStep ==
    ASSUME TypeOK, AllPresent, NoTakeover, [Next]_vars PROVE AllPresent'
<1>0. \A f \in Files : file[f] \in [present : BOOLEAN, open : BOOLEAN] BY DEF TypeOK
<1>1. ASSUME \A f \in Files : file'[f] = file[f] \/ \E open \in BOOLEAN : file'[f] = [file[f] EXCEPT !.open = open]
      PROVE  AllPresent'
  BY <1>0, <1>1 DEF AllPresent
<1>2. CASE UNCHANGED file BY <1>2 DEF AllPresent
<1>3. ASSUME NEW b \in Branches, NEW event \in LifecycleEvents, PullRequestLifecycle(b, event)
      PROVE  AllPresent'
  BY <1>1, <1>3 DEF PullRequestLifecycle
<1>4. CASE \E f \in Files : CommitFile(f) BY <1>4 DEF CommitFile, External, NoTakeover
<1>5. ASSUME NEW j \in Jobs, ScanSync(j) \/ ScanFinish(j) PROVE AllPresent'
  <2>1. CASE ScanSync(j)
    <3>1. \A f \in Files : file'[f] = file[f] \/ file'[f] = [file[f] EXCEPT !.open = FALSE]
      BY <2>1 DEF ScanSync
    <3> QED BY <1>1, <3>1
  <2>2. CASE ScanFinish(j)
    <3>1. PICK open : file' = [f \in Files |-> [file[f] EXCEPT !.open = (f \in open)]]
      BY <2>2 DEF ScanFinish
    <3>2. \A f \in Files : file'[f] = [file[f] EXCEPT !.open = (f \in open)]
      BY <3>1
    <3>3. \A f \in Files : (f \in open) \in BOOLEAN OBVIOUS
    <3> QED BY <1>1, <3>2, <3>3
  <2> QED BY <1>5, <2>1, <2>2
<1>6. CASE Request
  <2>1. UNCHANGED file
    BY <1>6 DEF Request, Generate, RegenerateRepository, RegenerateFix, ReplaceFixes, RetryFix,
                RejectFix, DeliverFix, DeliverRepository, SyncPullRequests, RequestScan
  <2> QED BY <1>2, <2>1
<1>7. CASE GitHub
  BY <1>2, <1>3, <1>4, <1>7 DEF GitHub, PullRequestOpened, PullRequestDraftToggle
<1>8. ASSUME NEW j \in Jobs, Work(j) PROVE AllPresent'
  <2>1. CASE GenStart(j) \/ GenSucceed(j) \/ GenFail(j) \/ GenCount(j) \/ GenLost(j)
    BY <1>2, <2>1 DEF GenStart, GenSucceed, GenFail, GenCount, GenLost
  <2>2. CASE \/ DelPrecheck(j) \/ DelClaim(j) \/ DelPush(j)
             \/ DelSucceed(j) \/ DelFail(j) \/ DelLost(j)
    BY <1>2, <2>2 DEF DelPrecheck, DelClaim, DelPush, DelSucceed, DelFail, DelLost
  <2> QED BY <1>5, <1>8, <2>1, <2>2 DEF Work
<1>9. CASE (\E f \in Files : Age(f)) \/ Sweep \/ (\E j \in Jobs : Crash(j)) \/ UNCHANGED vars
  BY <1>2, <1>9 DEF Age, Sweep, Crash, vars
<1> QED BY <1>6, <1>7, <1>8, <1>9 DEF Next

LEMMA UnforcedKept ==
    ASSUME Unforced, NEW j \in Jobs, job'[j].force = FALSE,
           \A i \in Jobs : i # j => job'[i] = job[i]
    PROVE  Unforced'
BY DEF Unforced

(* A start changes the phase and the row of the task that starts. *)
LEMMA StartTask ==
    ASSUME TypeOK
    PROVE  \A j \in Jobs, f \in Files :
             job' = [job EXCEPT ![j].phase = "running", ![j].rows[f] = fix[f].id] =>
               /\ job'[j].kind = job[j].kind /\ job'[j].files = job[j].files
               /\ job'[j].force = job[j].force
               /\ \A i \in Jobs : i # j => job'[i] = job[i]
<1>1. ASSUME NEW j \in Jobs, NEW f \in Files,
             job' = [job EXCEPT ![j].phase = "running", ![j].rows[f] = fix[f].id]
      PROVE  /\ job'[j].kind = job[j].kind /\ job'[j].files = job[j].files
             /\ job'[j].force = job[j].force
             /\ \A i \in Jobs : i # j => job'[i] = job[i]
  <2>1. job[j] \in Job BY DEF TypeOK
  <2>2. job'[j] = [job[j] EXCEPT !.phase = "running", !.rows[f] = fix[f].id]
    BY <1>1 DEF TypeOK
  <2>3. job'[j].kind = job[j].kind /\ job'[j].files = job[j].files BY <2>1, <2>2 DEF Job
  <2>4. job'[j].force = job[j].force BY <2>1, <2>2 DEF Job
  <2> QED BY <1>1, <2>3, <2>4 DEF TypeOK
<1> QED BY <1>1

LEMMA RowsAside ==
    ASSUME NEW f \in Files,
           RowStep(f, {"regenerate", "land", "supersede_closed_pr", "restore", "mark_ready"})
    PROVE  Aside(f)
<1>1. ASSUME NEW event \in {"regenerate", "land", "supersede_closed_pr", "restore", "mark_ready"},
             Fired(f, event)
      PROVE  /\ Stays(f)
             /\ fix[f].st \notin {"generating", "delivering", "rejected_by_user"}
  <2>1. fix[f].st \notin {"generating", "delivering", "rejected_by_user", "absent"}
    BY <1>1 DEF Fired, Can, FixMachine, Superseded
  <2> QED BY <1>1, <2>1 DEF Fired, Stays
<1> QED BY <1>1 DEF RowStep, Aside

LEMMA GenerationWorks ==
    ASSUME WorkInv, Single, NEW j \in Jobs,
           GenStart(j) \/ GenSucceed(j) \/ GenFail(j) \/ GenCount(j) \/ GenLost(j)
    PROVE  Unforced' /\ Owners' /\ OneWorkerPerRow'
<1>0. /\ TypeOK /\ Unforced /\ job[j] \in Job /\ job[j].kind = "gen"
      /\ job[j].files \in SUBSET Files
  BY IdsAreNat
  DEF WorkInv, BackedInv, TypeOK, GenStart, GenSucceed, GenFail, GenCount, GenLost
<1>1. ASSUME ~Working(j)', job'[j].force = FALSE, \A i \in Jobs : i # j => job'[i] = job[i],
             \A f \in Files : SameStatus(f) \/ (Running(j, f) /\ SameRow(f) /\ made'[f] = made[f])
      PROVE  Unforced' /\ Owners' /\ OneWorkerPerRow'
  BY <1>0, <1>1, OutcomeStep, UnforcedKept
<1>2. ASSUME EndGeneration(j, job[j].ok) \/ EndGeneration(j, FALSE), UNCHANGED <<fix, made>>
      PROVE  Unforced' /\ Owners' /\ OneWorkerPerRow'
  <2>1. PICK ok : EndGeneration(j, ok) BY <1>2
  <2>2. /\ \A i \in Jobs : i # j => job'[i] = job[i]
        /\ job'[j].phase = "queued" /\ job'[j].force = FALSE
    BY <1>0, <2>1, EndShape
  <2> QED BY <1>1, <1>2, <2>2 DEF Working, SameStatus
<1>3. CASE GenStart(j)
  <2>1. PICK f \in job[j].files :
           IF Takes(f)
             THEN /\ fix' = [fix EXCEPT ![f] = Move(@, "generating")]
                  /\ job' = [job EXCEPT ![j].phase = "running", ![j].rows[f] = fix[f].id]
             ELSE EndGeneration(j, FALSE) /\ UNCHANGED fix
    BY <1>3 DEF GenStart
  <2>2. UNCHANGED made /\ job[j].files = {f} BY <1>0, <1>3, <2>1 DEF GenStart, Single
  <2>3. CASE Takes(f)
    <3>1. /\ job'[j].kind = job[j].kind /\ job'[j].files = job[j].files
          /\ job'[j].force = job[j].force
          /\ \A i \in Jobs : i # j => job'[i] = job[i]
      BY <1>0, <2>1, <2>3, StartTask
    <3>2. fix'[f] = Move(fix[f], "generating") /\ \A g \in Files : g # f => fix'[g] = fix[g]
      BY <1>0, <2>1, <2>3 DEF TypeOK
    <3>3. fix[f] \in Row /\ "generating" \in FixStatus /\ fix[f].st = "pending"
      BY <1>0, <2>3, RowTypes DEF FixStatus, Takes
    <3>4. fix'[f].st = "generating" /\ fix'[f].id = fix[f].id BY <3>2, <3>3, MoveType
    <3>5. \A g \in Files : SameStatus(g) \/ (Stays(g) /\ g \in job'[j].files)
      BY <2>2, <3>1, <3>2, <3>3, <3>4 DEF SameStatus, Stays
    <3>6. Busy(j)' = "generating" BY <1>0, <3>1 DEF Busy
    <3>7. \A g \in job'[j].files : fix[g].st \in {"pending", "ready"} /\ fix'[g].st = Busy(j)'
      BY <2>2, <3>1, <3>3, <3>4, <3>6
    <3>8. Unforced' BY <1>0, <3>1, UnforcedKept DEF Unforced
    <3> QED BY <3>1, <3>5, <3>7, <3>8, StartStep
  <2>4. CASE ~Takes(f) BY <1>2, <2>1, <2>2, <2>4
  <2> QED BY <2>3, <2>4
<1>4. CASE GenSucceed(j) \/ GenFail(j)
  <2>1. job'[j] = [job[j] EXCEPT !.phase = "ended", !.ok = TRUE]
        \/ job'[j] = [job[j] EXCEPT !.phase = "ended"]
    BY <1>0, <1>4 DEF GenSucceed, GenFail, TypeOK
  <2>2. job'[j].phase = "ended" BY <1>0, <2>1 DEF Job
  <2>3. job'[j].force = job[j].force BY <1>0, <2>1 DEF Job
  <2>4. \A i \in Jobs : i # j => job'[i] = job[i] BY <1>0, <1>4 DEF GenSucceed, GenFail, TypeOK
  <2>5. ASSUME NEW f \in Files
        PROVE  SameStatus(f) \/ (Running(j, f) /\ SameRow(f) /\ made'[f] = made[f])
    <3>1. ~GenStart(j) BY <1>4 DEF GenStart, GenSucceed, GenFail
    <3> QED BY <1>0, <1>4, <3>1, GenerationRows
  <2> QED BY <1>0, <1>1, <2>2, <2>3, <2>4, <2>5 DEF Working, Unforced
<1>5. CASE GenCount(j) BY <1>2, <1>5 DEF GenCount
<1>6. CASE GenLost(j)
  <2>1. job'[j] = Idle /\ \A i \in Jobs : i # j => job'[i] = job[i]
    BY <1>0, <1>6, SlotSet DEF GenLost
  <2>2. \A f \in Files : SameStatus(f) BY <1>6 DEF GenLost, SameStatus
  <2> QED BY <1>1, <2>1, <2>2, Unpressed, QueuedTasks DEF Working
<1> QED BY <1>3, <1>4, <1>5, <1>6

LEMMA DeliveryWorks ==
    ASSUME WorkInv, NEW j \in Jobs,
           \/ DelPrecheck(j) \/ DelClaim(j) \/ DelPush(j)
           \/ DelSucceed(j) \/ DelFail(j) \/ DelLost(j)
    PROVE  Unforced' /\ Owners' /\ OneWorkerPerRow'
<1>0. /\ TypeOK /\ Unforced /\ job[j] \in Job /\ job[j].force = FALSE
  BY DEF WorkInv, BackedInv, TypeOK, Unforced
<1>1. /\ job[j].kind = "del" /\ \A i \in Jobs : i # j => job'[i] = job[i]
      /\ \/ job'[j] = Idle \/ job'[j] = ScanTask
         \/ /\ job'[j].kind = "del" /\ job'[j].phase # "queued"
            /\ job'[j].batch = job[j].batch /\ job'[j].force = job[j].force
  BY <1>0, DeliverySlot
<1>2. Unforced' BY <1>0, <1>1, UnforcedKept, Unpressed
<1>3. \A i \in Jobs : i # j => Quiet(i) BY <1>1 DEF Quiet, Working
<1>4. ASSUME Quiet(j), \A f \in Files : Aside(f) PROVE Owners' /\ OneWorkerPerRow'
  BY <1>3, <1>4, AsideStep
<1>5. CASE DelPrecheck(j)
  <2>1. Quiet(j) BY <1>0, <1>5, PrecheckTask, QueuedTasks DEF Quiet, Working
  <2>2. ASSUME NEW f \in Files PROVE Aside(f)
    <3>1. made'[f] = made[f] BY <1>5 DEF DelPrecheck
    <3>2. fix'[f].id = fix[f].id /\ (fix'[f] = fix[f] \/ Loads(j, f))
      BY <1>0, <1>5, PrecheckRows
    <3>3. CASE fix'[f] = fix[f] BY <3>1, <3>3 DEF Aside, SameStatus
    <3>4. CASE Loads(j, f)
      <4>1. fix[f].st = "ready" BY <1>0, <3>4 DEF Loads
      <4> QED BY <3>1, <3>2, <4>1 DEF Aside, Stays
    <3> QED BY <3>2, <3>3, <3>4
  <2> QED BY <1>2, <1>4, <2>1, <2>2
<1>6. CASE DelClaim(j)
  <2>1. CASE \A f \in job[j].files : Loads(j, f)
    <3>1. job'[j] = [job[j] EXCEPT !.phase = "running"] BY <1>0, <1>6, <2>1 DEF DelClaim, TypeOK
    <3>2. job'[j].files = job[j].files /\ job'[j].kind = "del" BY <1>0, <1>1, <3>1 DEF Job
    <3>3. \A f \in Files : fix'[f] = IF f \in job[j].files THEN Move(fix[f], "delivering") ELSE fix[f]
      BY <1>6, <2>1 DEF DelClaim
    <3>4. ASSUME NEW f \in Files, f \in job[j].files
          PROVE  fix'[f].st = "delivering" /\ fix'[f].id = fix[f].id /\ fix[f].st = "ready"
      <4>1. fix[f] \in Row /\ "delivering" \in FixStatus BY <1>0, RowTypes DEF FixStatus
      <4>2. fix[f].st = "ready" BY <1>0, <2>1, <3>4 DEF Loads
      <4> QED BY <3>3, <3>4, <4>1, <4>2, MoveType
    <3>5. UNCHANGED made BY <1>6 DEF DelClaim
    <3>6. \A f \in Files : SameStatus(f) \/ (Stays(f) /\ f \in job'[j].files)
      BY <3>2, <3>3, <3>4, <3>5 DEF SameStatus, Stays
    <3>7. Busy(j)' = "delivering" BY <3>2 DEF Busy
    <3>8. \A f \in job'[j].files : fix[f].st \in {"pending", "ready"} /\ fix'[f].st = Busy(j)'
      <4>1. job[j].files \subseteq Files BY <1>0 DEF Job
      <4> QED BY <3>2, <3>4, <3>7, <4>1
    <3> QED BY <1>1, <1>2, <3>6, <3>8, StartStep
  <2>2. CASE ~\A f \in job[j].files : Loads(j, f)
    <3>1. job' = [job EXCEPT ![j] = Idle] BY <1>6, <2>2 DEF DelClaim
    <3>2. Quiet(j) BY <1>0, <3>1, SlotSet, QueuedTasks DEF Quiet, Working
    <3>3. \A f \in Files : SameStatus(f) BY <1>6, <2>2 DEF DelClaim, SameStatus
    <3> QED BY <1>2, <1>4, <3>2, <3>3 DEF Aside
  <2> QED BY <2>1, <2>2
<1>7. CASE DelPush(j)
  <2>1. job'[j] = [job[j] EXCEPT !.phase = "pushed"] BY <1>0, <1>7 DEF DelPush, TypeOK
  <2>2. job'[j].files = job[j].files /\ job'[j].kind = job[j].kind /\ job'[j].rows = job[j].rows
    BY <1>0, <2>1 DEF Job
  <2>3. Quiet(j) BY <1>1, <1>7, <2>2 DEF Quiet, Working, DelPush
  <2>4. \A f \in Files : SameStatus(f) BY <1>7 DEF DelPush, SameStatus
  <2> QED BY <1>2, <1>4, <2>3, <2>4 DEF Aside
<1>8. CASE DelSucceed(j) \/ DelFail(j)
  <2>1. ~Working(j)'
    <3>1. job' = [job EXCEPT ![j] = Idle] \/ job' = [job EXCEPT ![j] = ScanTask]
      BY <1>8 DEF DelSucceed, DelFail
    <3> QED BY <1>0, <3>1, SlotSet, QueuedTasks DEF Working
  <2>2. ASSUME NEW f \in Files
        PROVE  SameStatus(f) \/ (Running(j, f) /\ SameRow(f) /\ made'[f] = made[f])
    <3>1. ~DelPrecheck(j) /\ ~DelClaim(j) BY <1>8 DEF DelSucceed, DelFail, DelPrecheck, DelClaim
    <3> QED BY <1>0, <1>8, <3>1, DeliveryRows
  <2> QED BY <1>1, <1>2, <2>1, <2>2, OutcomeStep
<1>9. CASE DelLost(j)
  <2>1. job' = [job EXCEPT ![j] = Idle] BY <1>9 DEF DelLost
  <2>2. Quiet(j) BY <1>0, <2>1, SlotSet, QueuedTasks DEF Quiet, Working
  <2>3. \A f \in Files : SameStatus(f) BY <1>9 DEF DelLost, SameStatus
  <2> QED BY <1>2, <1>4, <2>2, <2>3 DEF Aside
<1> QED BY <1>2, <1>5, <1>6, <1>7, <1>8, <1>9

LEMMA ScanWorks ==
    ASSUME WorkInv, NEW j \in Jobs, ScanSync(j) \/ ScanFinish(j)
    PROVE  Unforced' /\ Owners' /\ OneWorkerPerRow'
<1>0. TypeOK /\ Unforced /\ AllPresent BY DEF WorkInv, BackedInv
<1>1. ASSUME NEW f \in Files PROVE Aside(f)
  <2>1. RowStep(f, {"restore", "mark_ready"})
    BY <1>0, ScanRows DEF AllPresent
  <2> QED BY <2>1, RowsAside DEF RowStep
<1>2. CASE ScanSync(j)
  <2>1. /\ \A i \in Jobs : i # j => job'[i] = job[i]
        /\ job'[j].kind = "scan" /\ job'[j].force = job[j].force
    BY <1>0, <1>2, SyncSlot
  <2>2. \A i \in Jobs : Quiet(i) BY <2>1 DEF Quiet, Working
  <2>3. Unforced' BY <1>0, <2>1, UnforcedKept DEF Unforced
  <2> QED BY <1>1, <2>2, <2>3, AsideStep
<1>3. CASE ScanFinish(j)
  <2>1. PICK keep, redo \in SUBSET Files : Reconciled(j, keep, redo) BY <1>0, <1>3, FinishShape
  <2>2. ASSUME NEW i \in Jobs PROVE Queued(i)
    <3>1. CASE job' = [job EXCEPT ![j] = Idle]
      BY <1>0, <3>1, SlotSet, QueuedTasks, Unpressed DEF Queued
    <3>2. CASE Dispatch(redo, {j}) BY <1>0, <3>2, DispatchQueued
    <3> QED BY <2>1, <3>1, <3>2 DEF Reconciled
  <2>3. Unforced' BY <1>0, <2>2 DEF Unforced, Queued
  <2> QED BY <1>1, <2>2, <2>3, QueuedQuiet, AsideStep
<1> QED BY <1>2, <1>3

LEMMA CrashWorks ==
    ASSUME WorkInv, NEW j \in Jobs, Crash(j) PROVE Unforced' /\ Owners' /\ OneWorkerPerRow'
<1>0. TypeOK /\ Unforced BY DEF WorkInv, BackedInv
<1>1. /\ UNCHANGED <<fix, made>> /\ job'[j].phase = "queued"
      /\ \A i \in Jobs : i # j => job'[i] = job[i]
      /\ job'[j].force => job[j].force
  BY <1>0, CrashSlot
<1>2. \A f \in Files : Aside(f) BY <1>1 DEF Aside, SameStatus
<1>3. \A i \in Jobs : Quiet(i) BY <1>1 DEF Quiet, Working
<1>4. Unforced'
  <2>1. PICK task \in {Idle, Redelivered(job[j])} : job' = [job EXCEPT ![j] = task] BY DEF Crash
  <2>2. job'[j] = task BY <1>0, <2>1, SlotSet
  <2>3. job'[j] \in Job BY <1>0, TypeStep DEF Next, TypeOK
  <2>4. job'[j].force \in BOOLEAN BY <2>3 DEF Job
  <2>5. job'[j].force = FALSE BY <1>0, <1>1, <2>4 DEF Unforced
  <2> QED BY <1>0, <1>1, <2>5, UnforcedKept
<1> QED BY <1>2, <1>3, <1>4, AsideStep

LEMMA WorkStep ==
    ASSUME NoTakeover PROVE WorkInv /\ Single /\ [Next]_vars => WorkInv'
<1> SUFFICES ASSUME WorkInv, Single, [Next]_vars PROVE WorkInv'
  OBVIOUS
<1>0. TypeOK /\ Unforced BY DEF WorkInv, BackedInv
<1>1. BackedInv' /\ AllPresent' BY BackedStep, PresentStep DEF WorkInv, BackedInv
<1>2. CASE Request
  <2>1. \A i \in Jobs : Queued(i) BY <1>0, <1>2, RequestQueued DEF NoTakeover
  <2>2. ASSUME NEW f \in Files PROVE Aside(f)
    <3>1. RowStep(f, {"regenerate"}) \/ Fired(f, "reject") BY <1>0, <1>2, RequestRows
    <3> QED BY <3>1, RowsAside DEF RowStep, Aside
  <2>3. Unforced' BY <1>0, <2>1 DEF Unforced, Queued
  <2> QED BY <1>1, <2>1, <2>2, <2>3, QueuedQuiet, AsideStep DEF WorkInv
<1>3. CASE GitHub
  <2>1. UNCHANGED job
    BY <1>3 DEF GitHub, PullRequestLifecycle, PullRequestOpened, PullRequestDraftToggle, CommitFile
  <2>2. ASSUME NEW f \in Files PROVE Aside(f)
    <3>1. RowStep(f, {"land", "supersede_closed_pr", "restore"}) BY <1>0, <1>3, GitHubRows
    <3> QED BY <3>1, RowsAside DEF RowStep
  <2>3. \A i \in Jobs : Quiet(i) BY <2>1 DEF Quiet, Working
  <2>4. Unforced' BY <1>0, <2>1 DEF Unforced
  <2> QED BY <1>1, <2>2, <2>3, <2>4, AsideStep DEF WorkInv
<1>4. ASSUME NEW j \in Jobs, Work(j) PROVE WorkInv'
  BY <1>1, <1>4, GenerationWorks, DeliveryWorks, ScanWorks DEF Work, WorkInv
<1>5. ASSUME NEW j \in Jobs, Crash(j) PROVE WorkInv'
  BY <1>1, <1>5, CrashWorks DEF WorkInv
<1>6. CASE (\E f \in Files : Age(f)) \/ Sweep \/ UNCHANGED vars
  <2>1. UNCHANGED job BY <1>6 DEF Age, Sweep, vars
  <2>2. ASSUME NEW f \in Files PROVE Aside(f)
    BY <1>0, <1>6, TimeRows DEF NoTakeover, Aside
  <2>3. \A i \in Jobs : Quiet(i) BY <2>1 DEF Quiet, Working
  <2>4. Unforced' BY <1>0, <2>1 DEF Unforced
  <2> QED BY <1>1, <2>2, <2>3, <2>4, AsideStep DEF WorkInv
<1> QED BY <1>2, <1>3, <1>4, <1>5, <1>6 DEF Next

LEMMA WorkInit == Init => WorkInv
<1> SUFFICES ASSUME Init PROVE WorkInv
  OBVIOUS
<1>1. BackedInv BY BackedInit
<1>2. \A j \in Jobs : job[j] = Idle BY DEF Init
<1>3. Unforced BY <1>2, Unpressed DEF Unforced
<1>4. AllPresent BY DEF Init, AllPresent
<1>5. \A j \in Jobs, f \in Files : ~Running(j, f) BY <1>2, QueuedTasks DEF Running
<1> QED BY <1>1, <1>3, <1>4, <1>5 DEF WorkInv, Owners, OneWorkerPerRow

(* Where no delivery is forced, no file disappears and the sweeper is idle,  *)
(* no two tasks ever work on the same row, however often the fix is queued, *)
(* retried, rejected or replaced, and whichever worker dies                 *)
(* (run_fix_generation, deliver_fixes_batch).                               *)
THEOREM WorkedByOne == ASSUME NoTakeover PROVE Spec => []OneWorkerPerRow
<1> DEFINE Inv == WorkInv /\ Single
<1>1. Init => Inv BY WorkInit, PendingInit DEF PendingInv
<1>2. Inv /\ [Next]_vars => Inv' BY WorkStep, SingleStep DEF WorkInv, BackedInv
<1>3. Inv => OneWorkerPerRow BY DEF WorkInv
<1> QED
  BY <1>1, <1>2, <1>3, PTL DEF Spec

-----------------------------------------------------------------------------
(***************************************************************************)
(* FollowsLifecycle.  A task writes its outcome over whatever the row has   *)
(* become; the write is an edge of FixMachine because the row still is in   *)
(* the status the task put it in.  On top of what OneWorkerPerRow asks, no *)
(* user may reject a fix, for the outcome would then come after it.         *)
(***************************************************************************)

NothingTaken == NoTakeover /\ "reject" \notin Ops

NoneRejected == \A f \in Files : fix[f].st # "rejected_by_user"

(* The last row a file got is the one it has. *)
LastMade == \A f \in Files : fix[f].id = made[f]

LifeInv == WorkInv /\ Single /\ NoneRejected /\ LastMade

FollowsEdge(f) == RowStep(f, (DOMAIN FixMachine) \ {"reject"})

LEMMA EdgeStep ==
    ASSUME LifeInv, TypeOK', \A f \in Files : FollowsEdge(f)
    PROVE  NoneRejected' /\ LastMade'
<1>0. TypeOK BY DEF LifeInv, WorkInv, BackedInv
<1>1. ASSUME NEW f \in Files PROVE fix'[f].st # "rejected_by_user" /\ fix'[f].id = made'[f]
  <2>1. CASE Renewed(f) BY <1>0, <2>1, RowTypes DEF Renewed
  <2>2. CASE SameStatus(f) BY <2>2 DEF SameStatus, LifeInv, NoneRejected, LastMade
  <2>3. ASSUME NEW event \in (DOMAIN FixMachine) \ {"reject"}, Fired(f, event)
        PROVE  fix'[f].st # "rejected_by_user" /\ fix'[f].id = made'[f]
    <3>1. fix'[f].id = made'[f] BY <2>3 DEF Fired, LifeInv, LastMade
    <3>2. Can(FixMachine, event, fix[f].st) => Advance(FixMachine, event, fix[f].st) # "rejected_by_user"
      BY <2>3 DEF Can, Advance, FixMachine, InFlight, Superseded
    <3> QED BY <2>3, <3>1, <3>2 DEF Fired
  <2> QED BY <2>1, <2>2, <2>3 DEF FollowsEdge, RowStep
<1> QED BY <1>1 DEF NoneRejected, LastMade

(* The writes of the tasks, where the row is known to be theirs. *)
LEMMA TaskEdges ==
    ASSUME LifeInv, NEW f \in Files, NEW j \in Jobs, Work(j), NothingTaken PROVE FollowsEdge(f)
<1>0. TypeOK /\ job[j].force = FALSE /\ AllPresent
  BY DEF LifeInv, WorkInv, BackedInv, Unforced
<1>1. /\ Can(FixMachine, "generation_succeeded", "generating")
      /\ Can(FixMachine, "generation_failed", "generating")
      /\ Can(FixMachine, "delivery_succeeded", "delivering")
      /\ Can(FixMachine, "delivery_failed", "delivering")
      /\ Can(FixMachine, "start_delivery", "ready")
      /\ Advance(FixMachine, "start_delivery", "ready") = "delivering"
      /\ \A event \in {"supersede_closed_pr", "precheck_failed", "precheck_no_op"} :
           Can(FixMachine, event, "ready")
  BY DEF Can, Advance, FixMachine
<1>2. ASSUME NEW event \in (DOMAIN FixMachine) \ {"reject"}, Fired(f, event) PROVE FollowsEdge(f)
  BY <1>2 DEF FollowsEdge, RowStep
<1>3. ASSUME Running(j, f) PROVE fix[f].st = Busy(j)
  BY <1>3 DEF LifeInv, WorkInv, Owners, NoneRejected
<1>4. CASE GenStart(j) \/ GenSucceed(j) \/ GenFail(j) \/ GenCount(j) \/ GenLost(j)
  <2>1. \/ SameStatus(f) \/ Fired(f, "start_generation")
        \/ /\ Running(j, f) /\ SameRow(f) /\ made'[f] = made[f]
           /\ fix'[f].st \in {"ready", "failed"}
    BY <1>0, <1>4, GenerationRows
  <2>2. CASE /\ Running(j, f) /\ SameRow(f) /\ made'[f] = made[f]
             /\ fix'[f].st \in {"ready", "failed"}
    <3>1. job[j].kind = "gen" BY <1>4 DEF GenStart, GenSucceed, GenFail, GenCount, GenLost
    <3>2. fix[f].st = "generating" /\ fix'[f].id = fix[f].id BY <1>3, <2>2, <3>1 DEF Busy, SameRow
    <3>3. Fired(f, "generation_succeeded") \/ Fired(f, "generation_failed")
      BY <1>1, <2>2, <3>2, FixOutcomes DEF Fired
    <3> QED BY <1>2, <3>3, FixEvents
  <2> QED BY <1>2, <2>1, <2>2, FixEvents DEF FollowsEdge, RowStep
<1>5. CASE \/ DelPrecheck(j) \/ DelClaim(j) \/ DelPush(j)
           \/ DelSucceed(j) \/ DelFail(j) \/ DelLost(j)
  <2>0. job[j].kind = "del" BY <1>0, <1>5, DeliverySlot
  <2>1. Loads(j, f) => fix[f].st = "ready" BY <1>0 DEF Loads
  <2>2. \/ SameStatus(f)
        \/ /\ Loads(j, f) /\ fix'[f].id = fix[f].id /\ made'[f] = made[f]
           /\ fix'[f].st \in {"superseded_by_closed_pr", "failed", "no_op", "delivering"}
        \/ /\ Running(j, f) /\ SameRow(f) /\ made'[f] = made[f]
           /\ fix'[f].st \in {"delivered", "failed"}
    BY <1>0, <1>5, DeliveryRows
  <2>3. CASE /\ Loads(j, f) /\ fix'[f].id = fix[f].id /\ made'[f] = made[f]
             /\ fix'[f].st \in {"superseded_by_closed_pr", "failed", "no_op", "delivering"}
    <3>1. \E event \in {"supersede_closed_pr", "precheck_failed", "precheck_no_op", "start_delivery"} :
             Fired(f, event)
      BY <1>1, <2>1, <2>3, FixEdges DEF Fired
    <3> QED BY <1>2, <3>1, FixEvents
  <2>4. CASE /\ Running(j, f) /\ SameRow(f) /\ made'[f] = made[f]
             /\ fix'[f].st \in {"delivered", "failed"}
    <3>1. fix[f].st = "delivering" /\ fix'[f].id = fix[f].id BY <1>3, <2>0, <2>4 DEF Busy, SameRow
    <3>2. Fired(f, "delivery_succeeded") \/ Fired(f, "delivery_failed")
      BY <1>1, <2>4, <3>1, FixOutcomes DEF Fired
    <3> QED BY <1>2, <3>2, FixEvents
  <2> QED BY <2>2, <2>3, <2>4 DEF FollowsEdge, RowStep
<1>6. CASE ScanSync(j) \/ ScanFinish(j)
  <2>1. RowStep(f, {"restore", "mark_ready"}) BY <1>0, <1>6, ScanRows DEF AllPresent
  <2> QED BY <1>2, <2>1, FixEvents DEF FollowsEdge, RowStep
<1> QED BY <1>4, <1>5, <1>6 DEF Work

LEMMA AllEdges ==
    ASSUME LifeInv, NothingTaken, [Next]_vars, NEW f \in Files PROVE FollowsEdge(f)
<1>0. TypeOK BY DEF LifeInv, WorkInv, BackedInv
<1>1. CASE Request
  <2>1. RowStep(f, {"regenerate"}) BY <1>0, <1>1, RequestRows DEF NothingTaken
  <2> QED BY <2>1, FixEvents DEF FollowsEdge, RowStep
<1>2. CASE GitHub
  <2>1. RowStep(f, {"land", "supersede_closed_pr", "restore"}) BY <1>0, <1>2, GitHubRows
  <2> QED BY <2>1, FixEvents DEF FollowsEdge, RowStep
<1>3. CASE \E j \in Jobs : Work(j) BY <1>3, TaskEdges
<1>4. CASE (\E g \in Files : Age(g)) \/ Sweep \/ (\E j \in Jobs : Crash(j)) \/ UNCHANGED vars
  <2>1. SameStatus(f) BY <1>0, <1>4, TimeRows DEF NothingTaken, NoTakeover
  <2> QED BY <2>1 DEF FollowsEdge, RowStep
<1> QED BY <1>1, <1>2, <1>3, <1>4 DEF Next

LEMMA SameMachine ==
    /\ Lifecycle!FixMachine = FixMachine /\ Lifecycle!FixStatus = FixStatus
    /\ \A event, s : /\ Lifecycle!Can(Lifecycle!FixMachine, event, s) <=> Can(FixMachine, event, s)
                     /\ Lifecycle!Advance(Lifecycle!FixMachine, event, s) = Advance(FixMachine, event, s)
<1>1. Lifecycle!FixMachine = FixMachine
  BY DEF Lifecycle!FixMachine, FixMachine, Lifecycle!InFlight, InFlight,
         Lifecycle!Superseded, Superseded
<1>2. Lifecycle!FixStatus = FixStatus BY DEF Lifecycle!FixStatus, FixStatus
<1> QED BY <1>1, <1>2 DEF Lifecycle!Can, Can, Lifecycle!Advance, Advance

LEMMA EdgesRefine ==
    ASSUME LifeInv, TypeOK', \A f \in Files : FollowsEdge(f) PROVE Lifecycle!Next
<1>0. TypeOK BY DEF LifeInv, WorkInv, BackedInv
<1> DEFINE ids == [f \in Files |-> fix[f].id]
           sts == [f \in Files |-> fix[f].st]
<1>1. \A f \in Files : fix'[f] \in Row BY DEF TypeOK
<1>2. /\ [f \in Files |-> fix'[f].id] \in [Files -> Nat]
      /\ [f \in Files |-> fix'[f].st] \in [Files -> Lifecycle!FixStatus \cup {"absent"}]
  BY <1>1, SameMachine DEF Row
<1>3. ASSUME NEW f \in Files
      PROVE  \/ fix'[f].id = fix[f].id + 1 /\ fix'[f].st = "pending"
             \/ /\ fix'[f].id = fix[f].id
                /\ \E event \in Lifecycle!FixEvents :
                     /\ Lifecycle!Can(Lifecycle!FixMachine, event, fix[f].st)
                     /\ fix'[f].st = Lifecycle!Advance(Lifecycle!FixMachine, event, fix[f].st)
             \/ fix'[f].id = fix[f].id /\ fix'[f].st = fix[f].st
  <2>1. CASE Renewed(f)
    BY <1>0, <2>1, RowTypes DEF Renewed, LifeInv, LastMade
  <2>2. CASE SameStatus(f) BY <2>2 DEF SameStatus
  <2>3. ASSUME NEW event \in DOMAIN FixMachine, Fired(f, event)
        PROVE  /\ fix'[f].id = fix[f].id /\ event \in Lifecycle!FixEvents
               /\ Lifecycle!Can(Lifecycle!FixMachine, event, fix[f].st)
               /\ fix'[f].st = Lifecycle!Advance(Lifecycle!FixMachine, event, fix[f].st)
    BY <2>3, SameMachine DEF Fired, Lifecycle!FixEvents
  <2> QED BY <2>1, <2>2, <2>3 DEF FollowsEdge, RowStep
<1> QED BY <1>2, <1>3 DEF Lifecycle!Next, Lifecycle!Created, Lifecycle!Moved

(* Where nothing takes a row from the task that works on it, every task,     *)
(* route and webhook moves a fix along the lifecycle of                     *)
(* state_machines/fix.py: the pipeline implements FixLifecycle.             *)
THEOREM KeepsToLifecycle == ASSUME NothingTaken PROVE Spec => FollowsLifecycle
<1>1. Init => LifeInv
  <2> SUFFICES ASSUME Init PROVE LifeInv
    OBVIOUS
  <2>1. \A f \in Files : fix[f].st = "absent" /\ fix[f].id = 0 /\ made[f] = 0
    BY DEF Init, Absent
  <2> QED BY <2>1, WorkInit, PendingInit DEF LifeInv, PendingInv, NoneRejected, LastMade
<1>2. LifeInv /\ [Next]_vars => LifeInv'
  <2> SUFFICES ASSUME LifeInv, [Next]_vars PROVE LifeInv'
    OBVIOUS
  <2>1. WorkInv' /\ Single' BY WorkStep, SingleStep DEF LifeInv, WorkInv, BackedInv, NothingTaken
  <2>2. TypeOK' BY <2>1 DEF WorkInv, BackedInv
  <2> QED BY <2>1, <2>2, AllEdges, EdgeStep DEF LifeInv
<1>3. Init => Lifecycle!Init
  BY DEF Init, Lifecycle!Init, Absent
<1>4. LifeInv /\ LifeInv' /\ [Next]_vars => [Lifecycle!Next]_<<[f \in Files |-> fix[f].id], [f \in Files |-> fix[f].st]>>
  <2> SUFFICES ASSUME LifeInv, LifeInv', [Next]_vars PROVE Lifecycle!Next
    OBVIOUS
  <2>1. TypeOK' BY DEF LifeInv, WorkInv, BackedInv
  <2> QED BY <2>1, AllEdges, EdgesRefine
<1> QED
  BY <1>1, <1>2, <1>3, <1>4, PTL DEF Spec, FollowsLifecycle, Lifecycle!Spec
-----------------------------------------------------------------------------
(***************************************************************************)
(* What keeps a row in flight from being forgotten, as long as no worker   *)
(* dies: the task that works on it.                                        *)
(***************************************************************************)

Generates(j, f) == /\ job[j].kind = "gen" /\ job[j].phase = "running"
                   /\ job[j].files = {f} /\ job[j].rows[f] = fix[f].id

(* A fix that is being generated has a task that will write its outcome.    *)
GeneratingHasTask ==
    \A f \in Files : fix[f].st = "generating" => \E j \in Jobs : Generates(j, f)

Delivers(j, f) == job[j].kind = "del" /\ Running(j, f)

(* A row in delivery keeps a task that delivers it, or leaves that status,  *)
(* or was claimed together with one that is gone.                           *)
LeftBehind(f) ==
    /\ fix'[f].st = "delivering" /\ \A j \in Jobs : ~Delivers(j, f)'
    /\ fix[f].st # "delivering" \/ \E j \in Jobs : Delivers(j, f)

NoneLeftBehind ==
    [][\A f \in Files : LeftBehind(f) =>
         \E j \in Jobs : \E g \in job[j].files : Delivers(j, f) /\ g # f /\ ~Holds(j, g)]_vars

(* A row that is worked on was so before, and is the same row. *)
NoneStarts(st) ==
    \A f \in Files : fix'[f].st = st => fix[f].st = st /\ fix'[f].id = fix[f].id


LEMMA EventEdges ==
    ASSUME NEW event \in {"regenerate", "reject", "land", "supersede_closed_pr", "restore",
                          "mark_ready", "supersede_deleted_file", "swept"},
           NEW s, Can(FixMachine, event, s)
    PROVE  Advance(FixMachine, event, s) \notin {"generating", "delivering"}
BY FixEdges

LEMMA NotStarted ==
    ASSUME TypeOK, NEW f \in Files,
           RowStep(f, {"regenerate", "reject", "land", "supersede_closed_pr", "restore",
                       "mark_ready", "supersede_deleted_file", "swept"}),
           fix'[f].st \in {"generating", "delivering"}
    PROVE  fix[f].st = fix'[f].st /\ fix'[f].id = fix[f].id
<1>1. ~Renewed(f)
  <2>1. NewRow(f).st = "pending" BY RowTypes
  <2> QED BY <2>1 DEF Renewed
<1>2. ASSUME NEW event \in {"regenerate", "reject", "land", "supersede_closed_pr", "restore",
                            "mark_ready", "supersede_deleted_file", "swept"}, Fired(f, event)
      PROVE  FALSE
  BY <1>2, EventEdges DEF Fired
<1> QED BY <1>1, <1>2 DEF RowStep, SameStatus

(* Neither a route, a webhook, a scan nor the sweeper starts work on a row. *)
LEMMA OthersStart ==
    ASSUME TypeOK, NoCrash,
           \/ Request \/ GitHub \/ \E j \in Jobs : ScanSync(j) \/ ScanFinish(j)
           \/ (\E f \in Files : Age(f)) \/ Sweep \/ (\E j \in Jobs : Crash(j)) \/ UNCHANGED vars
    PROVE  NoneStarts("generating") /\ NoneStarts("delivering")
<1> SUFFICES ASSUME NEW f \in Files
             PROVE  RowStep(f, {"regenerate", "reject", "land", "supersede_closed_pr", "restore",
                                "mark_ready", "supersede_deleted_file", "swept"})
  BY NotStarted DEF NoneStarts
<1>1. CASE Request BY <1>1, RequestRows DEF RowStep
<1>2. CASE GitHub BY <1>2, GitHubRows DEF RowStep
<1>3. CASE \E j \in Jobs : ScanSync(j) \/ ScanFinish(j) BY <1>3, ScanRows DEF RowStep
<1>4. CASE (\E g \in Files : Age(g)) \/ Sweep \/ (\E j \in Jobs : Crash(j)) \/ UNCHANGED vars
  BY <1>4, TimeRows DEF RowStep
<1> QED BY <1>1, <1>2, <1>3, <1>4

LEMMA DispatchFree ==
    ASSUME TypeOK, NEW F \in SUBSET Files, NEW own \in SUBSET Jobs, Dispatch(F, own),
           NEW j \in Jobs, j \notin own, job[j].kind # "idle"
    PROVE  job'[j] = job[j]
<1>1. PICK k \in Batches, place \in [F -> Free \cup own] : Placed(F, own, k, place)
  BY DispatchShape
<1>2. \A f \in F : place[f] # j BY DEF Free
<1> QED BY <1>1, <1>2 DEF Placed

LEMMA RequestFree ==
    ASSUME TypeOK, Request, NEW j \in Jobs, job[j].kind # "idle" PROVE job'[j] = job[j]
<1>1. ASSUME NEW F \in SUBSET Files, NEW force \in BOOLEAN, Generate(F, force)
      PROVE  job'[j] = job[j]
  <2> DEFINE replaced == {f \in F : force \/ fix[f].st # "delivered"}
  <2>1. Dispatch(replaced, {}) /\ replaced \in SUBSET Files BY <1>1 DEF Generate
  <2> HIDE DEF replaced
  <2> QED BY <2>1, DispatchFree
<1>2. CASE RegenerateRepository \/ \E f \in Files : RegenerateFix(f)
  <2>1. PICK F \in SUBSET Files : ReplaceFixes(F)
    BY <1>2 DEF RegenerateRepository, RegenerateFix
  <2> QED BY <2>1, DispatchFree DEF ReplaceFixes
<1>3. ASSUME NEW f \in Files, RetryFix(f) PROVE job'[j] = job[j]
  <2>1. PICK i \in Free : job' = [job EXCEPT ![i] = GenTask(f, NoBatch)] BY <1>3 DEF RetryFix
  <2>2. i \in Jobs /\ i # j BY DEF Free
  <2> QED BY <2>1, <2>2, SlotSet
<1>4. ASSUME NEW F, NEW b, NEW force, QueueDelivery(F, b, force) PROVE job'[j] = job[j]
  <2>1. PICK i \in Free : \A h \in Jobs : h # i => job'[h] = job[h] BY <1>4, QueueShape
  <2> QED BY <2>1 DEF Free
<1>5. CASE \/ \E f \in Files, force \in BOOLEAN : DeliverFix(f, force)
           \/ \E force \in BOOLEAN : DeliverRepository(force)
  BY <1>4, <1>5 DEF DeliverFix, DeliverRepository
<1>6. CASE RequestScan
  <2>1. PICK i \in Free : job' = [job EXCEPT ![i] = ScanTask] BY <1>6 DEF RequestScan
  <2>2. i \in Jobs /\ i # j BY DEF Free
  <2> QED BY <2>1, <2>2, SlotSet
<1>7. CASE SyncPullRequests \/ \E f \in Files : RejectFix(f)
  BY <1>7 DEF SyncPullRequests, RejectFix
<1> QED BY <1>1, <1>2, <1>3, <1>5, <1>6, <1>7 DEF Request

(* What works on rows goes on when a route, a webhook, a scan or time does  *)
(* something.                                                               *)
LEMMA OthersLeave ==
    ASSUME TypeOK, NoCrash,
           \/ Request \/ GitHub \/ \E j \in Jobs : ScanSync(j) \/ ScanFinish(j)
           \/ (\E f \in Files : Age(f)) \/ Sweep \/ (\E j \in Jobs : Crash(j)) \/ UNCHANGED vars,
           NEW j \in Jobs, job[j].kind \in {"gen", "del"}
    PROVE  job'[j] = job[j]
<1>1. CASE Request BY <1>1, RequestFree
<1>2. CASE GitHub
  BY <1>2 DEF GitHub, PullRequestLifecycle, PullRequestOpened, PullRequestDraftToggle, CommitFile
<1>3. ASSUME NEW i \in Jobs, ScanSync(i) PROVE job'[j] = job[j]
  BY <1>3, SyncSlot
<1>4. ASSUME NEW i \in Jobs, ScanFinish(i) PROVE job'[j] = job[j]
  <2>1. job[i].kind = "scan" /\ \E keep, redo \in SUBSET Files : Reconciled(i, keep, redo)
    BY <1>4, FinishShape
  <2>2. j # i BY <2>1
  <2>3. CASE job' = [job EXCEPT ![i] = Idle] BY <2>2, <2>3, SlotSet
  <2>4. CASE \E redo \in SUBSET Files : Dispatch(redo, {i})
    <3>1. PICK redo \in SUBSET Files : Dispatch(redo, {i}) BY <2>4
    <3>2. {i} \in SUBSET Jobs /\ j \notin {i} BY <2>2
    <3> QED BY <3>1, <3>2, DispatchFree
  <2> QED BY <2>1, <2>3, <2>4 DEF Reconciled
<1>5. CASE (\E f \in Files : Age(f)) \/ Sweep \/ (\E i \in Jobs : Crash(i)) \/ UNCHANGED vars
  BY <1>5 DEF Age, Sweep, Crash, External, NoCrash, vars
<1> QED BY <1>1, <1>2, <1>3, <1>4, <1>5

HeldInv == TypeOK /\ Single /\ GeneratingHasTask

LEMMA OthersHold ==
    ASSUME HeldInv, NoCrash,
           \/ Request \/ GitHub \/ \E j \in Jobs : ScanSync(j) \/ ScanFinish(j)
           \/ (\E f \in Files : Age(f)) \/ Sweep \/ (\E j \in Jobs : Crash(j)) \/ UNCHANGED vars
    PROVE  GeneratingHasTask'
<1> SUFFICES ASSUME NEW f \in Files, fix'[f].st = "generating"
             PROVE  \E j \in Jobs : Generates(j, f)'
  BY DEF GeneratingHasTask
<1>1. fix[f].st = "generating" /\ fix'[f].id = fix[f].id
  BY OthersStart DEF NoneStarts, HeldInv
<1>2. PICK j \in Jobs : Generates(j, f) BY <1>1 DEF HeldInv, GeneratingHasTask
<1>3. job'[j] = job[j] BY <1>2, OthersLeave DEF HeldInv, Generates
<1> QED BY <1>1, <1>2, <1>3 DEF Generates

(* A delivery never writes generating, and leaves the other slots alone. *)
LEMMA DeliveryHolds ==
    ASSUME HeldInv, NEW j \in Jobs,
           \/ DelPrecheck(j) \/ DelClaim(j) \/ DelPush(j)
           \/ DelSucceed(j) \/ DelFail(j) \/ DelLost(j)
    PROVE  GeneratingHasTask'
<1> SUFFICES ASSUME NEW f \in Files, fix'[f].st = "generating"
             PROVE  \E i \in Jobs : Generates(i, f)'
  BY DEF GeneratingHasTask
<1>1. fix'[f] = fix[f] BY DeliveryRows DEF HeldInv
<1>2. PICK i \in Jobs : Generates(i, f) BY <1>1 DEF HeldInv, GeneratingHasTask
<1>3. i # j /\ job'[i] = job[i] BY <1>2, DeliverySlot DEF HeldInv, Generates
<1> QED BY <1>1, <1>2, <1>3 DEF Generates

LEMMA GenerationHolds ==
    ASSUME HeldInv, NEW j \in Jobs,
           GenStart(j) \/ GenSucceed(j) \/ GenFail(j) \/ GenCount(j) \/ GenLost(j)
    PROVE  GeneratingHasTask'
<1> SUFFICES ASSUME NEW f \in Files, fix'[f].st = "generating"
             PROVE  \E i \in Jobs : Generates(i, f)'
  BY DEF GeneratingHasTask
<1>0. job[j] \in Job /\ \A i \in Jobs : i # j => job'[i] = job[i]
  BY GenerationOwn DEF HeldInv, OwnStep, TypeOK
<1>1. CASE fix'[f] = fix[f]
  <2>1. PICK i \in Jobs : Generates(i, f) BY <1>1 DEF HeldInv, GeneratingHasTask
  <2>2. CASE i # j BY <1>0, <1>1, <2>1, <2>2 DEF Generates
  <2>3. CASE i = j
    <3>1. job[j].files = {f} /\ job[j].phase = "running" BY <2>1, <2>3 DEF Generates
    <3>2. Holds(j, f) BY <1>1, <2>1, <2>3 DEF Holds, Generates
    <3>3. ~GenStart(j) /\ ~GenCount(j) /\ ~GenLost(j)
      BY <3>1, <3>2 DEF GenStart, GenCount, GenLost
    <3>4. fix[f] \in Row BY RowTypes DEF HeldInv
    <3>5. ~GenSucceed(j)
      <4> SUFFICES ASSUME GenSucceed(j) PROVE FALSE
        OBVIOUS
      <4>1. PICK flagged \in BOOLEAN :
              fix' = [fix EXCEPT ![f] =
                      [Move(@, Advance(FixMachine, "generation_succeeded", "generating"))
                         EXCEPT !.content = TRUE, !.manual = flagged]]
        BY <3>1 DEF GenSucceed
      <4>2. fix'[f].st = "ready" BY <4>1, OutcomeRows DEF HeldInv, TypeOK
      <4> QED BY <4>2
    <3>6. ~GenFail(j)
      <4> SUFFICES ASSUME GenFail(j) PROVE FALSE
        OBVIOUS
      <4>1. fix' = [fix EXCEPT ![f] = FailedRow(@)] BY <3>1 DEF GenFail
      <4>2. fix'[f] = Move(fix[f], "failed") BY <4>1, FixOutcomes DEF FailedRow, HeldInv, TypeOK
      <4>3. fix'[f].st = "failed" BY <3>4, <4>2, MoveType DEF FixStatus
      <4> QED BY <4>3
    <3> QED BY <3>3, <3>5, <3>6
  <2> QED BY <2>2, <2>3
<1>2. CASE fix'[f] # fix[f]
  <2>1. GenStart(j) /\ f \in job[j].files /\ fix'[f].id = fix[f].id
    BY <1>2, GenerationRows DEF HeldInv, Fired
  <2>2. job[j].kind = "gen" /\ job[j].files = {f} BY <2>1 DEF GenStart, HeldInv, Single
  <2>3. job' = [job EXCEPT ![j].phase = "running", ![j].rows[f] = fix[f].id]
    BY <1>2, <2>1, <2>2 DEF GenStart
  <2>4. job'[j] = [job[j] EXCEPT !.phase = "running", !.rows[f] = fix[f].id]
    BY <2>3 DEF HeldInv, TypeOK
  <2>5. /\ job'[j].kind = "gen" /\ job'[j].phase = "running"
        /\ job'[j].files = {f} /\ job'[j].rows[f] = fix[f].id
    BY <1>0, <2>2, <2>4 DEF Job
  <2> QED BY <2>1, <2>5 DEF Generates
<1> QED BY <1>1, <1>2

LEMMA HeldStep == ASSUME NoCrash PROVE HeldInv /\ [Next]_vars => HeldInv'
<1> SUFFICES ASSUME HeldInv, [Next]_vars PROVE HeldInv'
  OBVIOUS
<1>1. TypeOK' /\ Single' BY TypeStep, SingleStep DEF HeldInv
<1>2. GeneratingHasTask'
  <2>1. CASE \/ Request \/ GitHub \/ \E j \in Jobs : ScanSync(j) \/ ScanFinish(j)
             \/ (\E f \in Files : Age(f)) \/ Sweep \/ (\E j \in Jobs : Crash(j))
             \/ UNCHANGED vars
    BY <2>1, OthersHold
  <2>2. ASSUME NEW j \in Jobs, Work(j), ~(ScanSync(j) \/ ScanFinish(j)) PROVE GeneratingHasTask'
    BY <2>2, DeliveryHolds, GenerationHolds DEF Work
  <2> QED BY <2>1, <2>2 DEF Next
<1> QED BY <1>1, <1>2 DEF HeldInv

(* While no worker dies, a fix that is being generated always has the task  *)
(* that took it and will write how it ended: no rejected, restored, swept,  *)
(* retried or forced row leaves another one without (run_fix_generation).   *)
THEOREM GenerationsEnd == ASSUME NoCrash PROVE Spec => []GeneratingHasTask
<1>1. Init => HeldInv
  <2>1. Init => GeneratingHasTask BY DEF Init, GeneratingHasTask, Absent
  <2> QED BY <2>1, PendingInit DEF PendingInv, HeldInv
<1>2. HeldInv => GeneratingHasTask BY DEF HeldInv
<1> QED BY <1>1, <1>2, HeldStep, PTL DEF Spec

(* What a delivery does to a row that it, or another one, delivers. *)
LEMMA DeliveryLeaves ==
    ASSUME TypeOK, NEW j \in Jobs, NEW f \in Files, LeftBehind(f),
           \/ DelPrecheck(j) \/ DelClaim(j) \/ DelPush(j)
           \/ DelSucceed(j) \/ DelFail(j) \/ DelLost(j)
    PROVE  \E g \in job[j].files : Delivers(j, f) /\ g # f /\ ~Holds(j, g)
<1>0. /\ job[j] \in Job /\ job[j].kind = "del" /\ job[j].files \in SUBSET Files
      /\ \A i \in Jobs : i # j => job'[i] = job[i]
  BY DeliverySlot, IdsAreNat DEF TypeOK
<1>1. ~(DelClaim(j) /\ f \in job[j].files /\ \A g \in job[j].files : Loads(j, g))
  <2> SUFFICES ASSUME DelClaim(j), f \in job[j].files, \A g \in job[j].files : Loads(j, g)
               PROVE  FALSE
    OBVIOUS
  <2>1. job'[j] = [job[j] EXCEPT !.phase = "running"] BY DEF DelClaim, TypeOK
  <2>2. /\ job'[j].kind = "del" /\ job'[j].phase = "running"
        /\ job'[j].files = job[j].files /\ job'[j].rows = job[j].rows
    BY <1>0, <2>1 DEF Job
  <2>3. Holds(j, f) BY DEF Loads
  <2>4. fix'[f].id = fix[f].id /\ fix'[f].st = "delivering"
    <3>1. fix'[f] = Move(fix[f], "delivering") BY DEF DelClaim
    <3>2. fix[f] \in Row BY RowTypes
    <3> QED BY <3>1, <3>2, MoveType DEF FixStatus
  <2>5. Delivers(j, f)' BY <2>2, <2>3, <2>4 DEF Delivers, Running, Holds
  <2> QED BY <2>5 DEF LeftBehind
<1>2. fix'[f] = fix[f] BY <1>1, DeliveryRows DEF LeftBehind
<1>3. PICK i \in Jobs : Delivers(i, f) BY <1>2 DEF LeftBehind
<1>4. i = j
  <2>1. i # j => Delivers(i, f)' BY <1>0, <1>2, <1>3 DEF Delivers, Running, Holds
  <2> QED BY <2>1 DEF LeftBehind
<1>5. f \in job[j].files /\ job[j].phase \in {"running", "pushed"} /\ Holds(j, f)
  BY <1>3, <1>4 DEF Delivers, Running
<1>6. ~DelPrecheck(j) /\ ~DelClaim(j) BY <1>5 DEF DelPrecheck, DelClaim
<1>7. ~DelPush(j)
  <2> SUFFICES ASSUME DelPush(j) PROVE FALSE
    OBVIOUS
  <2>1. job'[j] = [job[j] EXCEPT !.phase = "pushed"] BY DEF DelPush, TypeOK
  <2>2. /\ job'[j].kind = "del" /\ job'[j].phase = "pushed"
        /\ job'[j].files = job[j].files /\ job'[j].rows = job[j].rows
    BY <1>0, <2>1 DEF Job
  <2>3. Delivers(j, f)' BY <1>2, <1>5, <2>2 DEF Delivers, Running, Holds
  <2> QED BY <2>3 DEF LeftBehind
<1>8. ~DelSucceed(j) /\ ~DelFail(j)
  <2>1. fix[f] \in Row BY RowTypes
  <2>2. Move(fix[f], "failed").st = "failed"
    BY <2>1, MoveType DEF FixStatus
  <2>3. DelFail(j) => fix'[f].st = "failed" BY <1>5, <2>2, FixOutcomes DEF DelFail
  <2>4. Move(fix[f], "delivered") \in Row /\ Move(fix[f], "delivered").st = "delivered"
    BY <2>1, MoveType DEF FixStatus
  <2>5. DelSucceed(j) => fix'[f] = [Move(fix[f], "delivered") EXCEPT !.pr = job[j].branch]
    BY <1>5, FixOutcomes DEF DelSucceed
  <2>6. DelSucceed(j) => fix'[f].st = "delivered" BY <2>4, <2>5 DEF Row
  <2> QED BY <2>3, <2>6 DEF LeftBehind
<1>9. PICK g \in job[j].files : ~Holds(j, g) BY <1>6, <1>7, <1>8 DEF DelLost
<1> QED BY <1>3, <1>4, <1>5, <1>9

(* While no worker dies, a delivery leaves a row in delivering only because *)
(* another row that it had claimed was replaced meanwhile: the commit fails *)
(* as a whole, and the row waits for the sweeper (deliver_fixes_batch).     *)
THEOREM OnlyLossStrands == ASSUME NoCrash PROVE Spec => NoneLeftBehind
<1>1. ASSUME TypeOK, [Next]_vars, NEW f \in Files, LeftBehind(f)
      PROVE  \E j \in Jobs : \E g \in job[j].files : Delivers(j, f) /\ g # f /\ ~Holds(j, g)
  <2>1. CASE \/ Request \/ GitHub \/ \E j \in Jobs : ScanSync(j) \/ ScanFinish(j)
             \/ (\E g \in Files : Age(g)) \/ Sweep \/ (\E j \in Jobs : Crash(j))
             \/ UNCHANGED vars
    <3>1. fix[f].st = "delivering" /\ fix'[f].id = fix[f].id
      BY <1>1, <2>1, OthersStart DEF NoneStarts, LeftBehind
    <3>2. PICK j \in Jobs : Delivers(j, f) BY <1>1, <3>1 DEF LeftBehind
    <3>3. job'[j] = job[j] BY <1>1, <2>1, <3>2, OthersLeave DEF Delivers
    <3>4. Delivers(j, f)' BY <1>1, <3>1, <3>2, <3>3 DEF Delivers, Running, Holds, LeftBehind
    <3> QED BY <1>1, <3>4 DEF LeftBehind
  <2>2. ASSUME NEW j \in Jobs,
               \/ DelPrecheck(j) \/ DelClaim(j) \/ DelPush(j)
               \/ DelSucceed(j) \/ DelFail(j) \/ DelLost(j)
        PROVE  \E g \in job[j].files : Delivers(j, f) /\ g # f /\ ~Holds(j, g)
    BY <1>1, <2>2, DeliveryLeaves
  <2>3. ASSUME NEW j \in Jobs,
               GenStart(j) \/ GenSucceed(j) \/ GenFail(j) \/ GenCount(j) \/ GenLost(j)
        PROVE  FALSE
    <3>1. SameStatus(f)
      <4>1. ~Fired(f, "start_generation")
        <5>1. Can(FixMachine, "start_generation", fix[f].st)
                => Advance(FixMachine, "start_generation", fix[f].st) = "generating"
          BY DEF Can, Advance, FixMachine
        <5> QED BY <1>1, <5>1 DEF Fired, LeftBehind
      <4> QED BY <1>1, <2>3, <4>1, GenerationRows DEF LeftBehind
    <3>2. PICK i \in Jobs : Delivers(i, f) BY <1>1, <3>1 DEF LeftBehind, SameStatus
    <3>3. job[j].kind = "gen" BY <2>3 DEF GenStart, GenSucceed, GenFail, GenCount, GenLost
    <3>4. job'[i] = job[i] BY <1>1, <2>3, <3>2, <3>3, GenerationOwn DEF OwnStep, Delivers
    <3>5. Delivers(i, f)'
      BY <1>1, <3>1, <3>2, <3>4 DEF Delivers, Running, Holds, LeftBehind, SameStatus
    <3> QED BY <1>1, <3>5 DEF LeftBehind
  <2> QED BY <1>1, <2>1, <2>2, <2>3 DEF Next, Work
<1>2. ASSUME TypeOK, [Next]_vars
      PROVE  [\A f \in Files : LeftBehind(f) =>
                \E j \in Jobs : \E g \in job[j].files :
                  Delivers(j, f) /\ g # f /\ ~Holds(j, g)]_vars
  BY <1>1, <1>2
<1> QED BY <1>2, TypeCorrect, PTL DEF Spec, NoneLeftBehind
-----------------------------------------------------------------------------
(* A fix that has landed, or was found to need manual work, stays so.  *)
FinalStays ==
    [][\A f \in Files : SameRow(f) /\ fix[f].st \in {"landed", "no_op"}
         => fix'[f].st = fix[f].st]_vars

LEMMA NoEdgeLeaves ==
    ASSUME NEW event \in DOMAIN FixMachine, NEW s \in {"landed", "no_op"}
    PROVE  ~Can(FixMachine, event, s)
BY DEF Can, FixMachine, InFlight, Superseded

(* Nobody works on such a row, so no outcome is written over it. *)
LEMMA FinalUnworked ==
    ASSUME WorkInv, NEW j \in Jobs, NEW f \in Files, fix[f].st \in {"landed", "no_op"}
    PROVE  ~Running(j, f) /\ ~Loads(j, f)
<1>1. ~Running(j, f) BY DEF WorkInv, Owners, Busy
<1>2. ~Loads(j, f) BY DEF WorkInv, Unforced, Loads
<1> QED BY <1>1, <1>2

LEMMA FinalRow ==
    ASSUME TypeOK, NEW f \in Files, RowStep(f, DOMAIN FixMachine),
           fix[f].st \in {"landed", "no_op"}, fix'[f].id = fix[f].id, Numbered
    PROVE  fix'[f].st = fix[f].st
<1>1. ~Renewed(f)
  <2>1. NewRow(f).id = made[f] + 1 /\ made[f] \in Nat BY RowTypes, IdsAreNat
  <2>2. fix[f].id <= made[f] BY DEF Numbered
  <2> QED BY <2>1, <2>2 DEF Renewed
<1>2. \A event \in DOMAIN FixMachine : ~Fired(f, event) BY NoEdgeLeaves DEF Fired
<1> QED BY <1>1, <1>2 DEF RowStep, SameStatus

(* A generation or delivery writes neither.                                 *)
LEMMA WorkLeavesFinal ==
    ASSUME WorkInv, NEW j \in Jobs, NEW f \in Files, fix[f].st \in {"landed", "no_op"},
           \/ GenStart(j) \/ GenSucceed(j) \/ GenFail(j) \/ GenCount(j) \/ GenLost(j)
           \/ DelPrecheck(j) \/ DelClaim(j) \/ DelPush(j)
           \/ DelSucceed(j) \/ DelFail(j) \/ DelLost(j)
    PROVE  fix'[f].st = fix[f].st
<1>0. TypeOK /\ ~Running(j, f) /\ ~Loads(j, f) BY FinalUnworked DEF WorkInv, BackedInv
<1>1. CASE GenStart(j) \/ GenSucceed(j) \/ GenFail(j) \/ GenCount(j) \/ GenLost(j)
  <2>1. "start_generation" \in DOMAIN FixMachine BY FixEvents
  <2>2. ~Fired(f, "start_generation") BY <2>1, NoEdgeLeaves DEF Fired
  <2> QED BY <1>0, <1>1, <2>2, GenerationRows
<1>2. CASE \/ DelPrecheck(j) \/ DelClaim(j) \/ DelPush(j)
           \/ DelSucceed(j) \/ DelFail(j) \/ DelLost(j)
  BY <1>0, <1>2, DeliveryRows
<1> QED BY <1>1, <1>2

(* A merged fix stays landed, and one that needs manual work stays no_op,   *)
(* until its row is replaced: no late delivery, closing, reopening or       *)
(* deletion of the pull request, scan or retry takes it out.  Of instances  *)
(* like those of OneWorkerPerRow, with rejections.                          *)
THEOREM FinalIsFinal == ASSUME NoTakeover PROVE Spec => FinalStays
<1> DEFINE Inv == WorkInv /\ Single
<1>1. ASSUME WorkInv, [Next]_vars, NEW f \in Files,
             SameRow(f), fix[f].st \in {"landed", "no_op"}
      PROVE  fix'[f].st = fix[f].st
  <2>0. TypeOK /\ Numbered /\ fix'[f].id = fix[f].id BY <1>1 DEF WorkInv, BackedInv, SameRow
  <2>1. CASE \/ Request \/ GitHub \/ \E j \in Jobs : ScanSync(j) \/ ScanFinish(j)
             \/ (\E g \in Files : Age(g)) \/ Sweep \/ (\E j \in Jobs : Crash(j))
             \/ UNCHANGED vars
    <3>1. RowStep(f, DOMAIN FixMachine)
      <4>1. CASE Request BY <2>0, <4>1, RequestRows, FixEvents DEF RowStep
      <4>2. CASE GitHub BY <2>0, <4>2, GitHubRows, FixEvents DEF RowStep
      <4>3. CASE \E j \in Jobs : ScanSync(j) \/ ScanFinish(j)
        BY <2>0, <4>3, ScanRows, FixEvents DEF RowStep
      <4>4. CASE (\E g \in Files : Age(g)) \/ Sweep \/ (\E j \in Jobs : Crash(j))
                 \/ UNCHANGED vars
        BY <2>0, <4>4, TimeRows, FixEvents DEF RowStep
      <4> QED BY <2>1, <4>1, <4>2, <4>3, <4>4
    <3> QED BY <1>1, <2>0, <3>1, FinalRow
  <2>2. ASSUME NEW j \in Jobs, Work(j), ~(ScanSync(j) \/ ScanFinish(j))
        PROVE  fix'[f].st = fix[f].st
    BY <1>1, <2>2, WorkLeavesFinal DEF Work
  <2> QED BY <1>1, <2>1, <2>2 DEF Next
<1>2. ASSUME WorkInv, [Next]_vars
      PROVE  [\A f \in Files : SameRow(f) /\ fix[f].st \in {"landed", "no_op"}
                => fix'[f].st = fix[f].st]_vars
  BY <1>1, <1>2
<1>3. Init => Inv BY WorkInit, PendingInit DEF PendingInv
<1>4. Inv /\ [Next]_vars => Inv' BY WorkStep, SingleStep DEF WorkInv, BackedInv
<1> QED BY <1>2, <1>3, <1>4, PTL DEF Spec, FinalStays
=============================================================================
