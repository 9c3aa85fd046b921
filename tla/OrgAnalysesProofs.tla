------------------------- MODULE OrgAnalysesProofs -------------------------
(***************************************************************************)
(* Theorems about OrgAnalyses, for every plan, every number of rules,      *)
(* scans, runs and tasks and every bound on the external events: its       *)
(* types, WithinAllowance, EnrichedIsStored and, if no scan outlasts its   *)
(* lock, OpenIsReported.  Last, what the collector's quiet rules report    *)
(* when calls fail, for every account.                                     *)
(***************************************************************************)
EXTENDS OrgAnalyses, FiniteSetTheorems, TLAPS

(* The account table and the telemetry table, as the two engines see them. *)

LEMMA AccountEdges ==
    ASSUME NEW s, NEW event \in {"verify", "verification_failed", "enable", "disable"},
           C!S!Can(C!S!CloudAccountMachine, event, s)
    PROVE  /\ s \in C!S!CloudAccountStatus
           /\ C!S!Advance(C!S!CloudAccountMachine, event, s) \in C!S!CloudAccountStatus
  BY DEF C!S!Can, C!S!Advance, C!S!CloudAccountMachine, C!S!CloudAccountStatus

LEMMA RemovedIsNoStatus == "removed" \notin C!S!CloudAccountStatus
  BY DEF C!S!CloudAccountStatus

LEMMA TelemetryEdges ==
    ASSUME NEW s, NEW event \in {"started", "enrich", "fail", "swept"}
    PROVE  /\ s \in T!S!DynamicAnalysisStatus
                => T!S!TryAdvance(T!S!TelemetryMachine, event, s) \in T!S!DynamicAnalysisStatus
           /\ event # "enrich" /\ T!S!TryAdvance(T!S!TelemetryMachine, event, s) = "enriched"
                => s = "enriched"
           /\ T!S!TryAdvance(T!S!TelemetryMachine, event, "none") = "none"
  BY DEF T!S!Can, T!S!Advance, T!S!TryAdvance, T!S!TelemetryMachine, T!S!DynamicAnalysisStatus

LEMMA SweptEdge ==
    ASSUME NEW s \in {"queued", "running"}
    PROVE  T!S!Advance(T!S!TelemetryMachine, "swept", s) = "failed"
  BY DEF T!S!Advance, T!S!TelemetryMachine

-----------------------------------------------------------------------------
(***************************************************************************)
(* The inductive invariants.                                               *)
(***************************************************************************)

(* The tasks that may still add a record without asking again. *)
CloudDue == {j \in Scans : scan[j].stage \in {"loaded", "collected"}}

TelemetryDue == {w \in Workers : task[w].stage = "checked"}

(* What is used, and what is as good as used, is within the bound. *)
DueInv ==
    PeriodUsage + Cardinality(CloudDue) + Cardinality(TelemetryDue)
        <= Limit + Cardinality(Scans) + Cardinality(Workers) - 1

Working(j) == scan[j].stage \in {"loaded", "collected", "stored"}

OpenFindings == {t \in Types : finding[t].open}

(* One scan works at a time, under the lock; ... *)
OneScan ==
    /\ \A j \in Scans : Working(j) => lock
    /\ \A j, k \in Scans : Working(j) /\ Working(k) => j = k

(* ... a scan about to resolve is the one that was committed last ... *)
StoredIsLast ==
    \A j \in Scans : scan[j].stage = "stored" /\ account # "removed" => scan[j].seen = last

(* ... and everything it reported is open. *)
ScanInv ==
    /\ OneScan
    /\ StoredIsLast
    /\ last \subseteq OpenFindings
    /\ behind = FALSE => OpenFindings = last
    /\ account = "removed" => behind = FALSE /\ last = {} /\ OpenFindings = {}

AtDelete(w, r) == task[w].stage = "deleted" /\ task[w].run = r

(* A task with work has a run. *)
HasRun == \A w \in Workers : task[w].stage # "none" => task[w].run \in Runs

Typed == TypeOK /\ HasRun

(* One that is through has its enrichment in the table; alone with its run,  *)
(* it replaces all there is.                                                *)
EnrichInv ==
    /\ \A w \in Workers : task[w].stage = "stored" => stored[task[w].run] # {}
    /\ \A r \in Runs : status[r] = "enriched" => stored[r] # {}
    /\ \A r \in Runs \ met :
         /\ \A v, w \in Workers : AtDelete(v, r) /\ AtDelete(w, r) => v = w
         /\ \A w \in Workers : AtDelete(w, r) => task[w].saw = stored[r]
         /\ \A x, y \in stored[r] : x = y

-----------------------------------------------------------------------------
(***************************************************************************)
(* Types.                                                                  *)
(***************************************************************************)

LEMMA UsageTyped ==
    ASSUME used \in [Engines -> Nat], NEW e \in Engines, RecordUsage(e, 1)
    PROVE  /\ used' \in [Engines -> Nat]
           /\ used'[e] = used[e] + 1
           /\ \A d \in Engines : d # e => used'[d] = used[d]
  BY DEF RecordUsage, Engines

LEMMA UsageSum ==
    ASSUME used \in [Engines -> Nat], NEW e \in Engines, RecordUsage(e, 1)
    PROVE  PeriodUsage' = PeriodUsage + 1
  BY UsageTyped DEF PeriodUsage, Engines

LEMMA SameNames ==
    /\ C!Engines = Engines /\ T!Engines = Engines
    /\ C!PeriodUsage = PeriodUsage /\ T!PeriodUsage = PeriodUsage
    /\ C!Unused = Unused /\ T!Unused = Unused
    /\ \A n : (C!Allows(n) <=> Allows(n)) /\ (T!Allows(n) <=> Allows(n))
    /\ \A e, n : (C!RecordUsage(e, n) <=> RecordUsage(e, n)) /\ (T!RecordUsage(e, n) <=> RecordUsage(e, n))
  BY DEF C!Engines, T!Engines, Engines, C!PeriodUsage, T!PeriodUsage, PeriodUsage,
         C!Unused, T!Unused, Unused, C!Allows, T!Allows, Allows,
         C!RecordUsage, T!RecordUsage, RecordUsage

LEMMA ScanTasks ==
    /\ C!NoTask \in C!Task
    /\ C!NoTask.stage = "none"
    /\ [C!NoTask EXCEPT !.stage = "queued"] \in C!Task
    /\ [C!NoTask EXCEPT !.stage = "queued"].stage = "queued"
    /\ \A s \in C!S!CloudAccountStatus \cup {"removed"} :
         /\ [C!NoTask EXCEPT !.stage = "loaded", !.acct = s] \in C!Task
         /\ [C!NoTask EXCEPT !.stage = "loaded", !.acct = s].stage = "loaded"
  BY DEF C!NoTask, C!Task

LEMMA ScanTaskGoesOn ==
    ASSUME NEW t \in C!Task
    PROVE  /\ \A seen \in SUBSET Types :
                LET next == [t EXCEPT !.stage = "collected", !.seen = seen]
                IN  next \in C!Task /\ next.stage = "collected" /\ next.seen = seen
           /\ LET next == [t EXCEPT !.stage = "stored"]
              IN  next \in C!Task /\ next.stage = "stored" /\ next.seen = t.seen
           /\ LET next == [t EXCEPT !.tries = @ + 1]
              IN  next \in C!Task /\ next.stage = t.stage /\ next.seen = t.seen
<1>1. t.tries + 1 \in Nat
  BY DEF C!Task
<1>2. \A seen \in SUBSET Types :
        LET next == [t EXCEPT !.stage = "collected", !.seen = seen]
        IN  next \in C!Task /\ next.stage = "collected" /\ next.seen = seen
  BY DEF C!Task
<1>3. LET next == [t EXCEPT !.stage = "stored"]
      IN  next \in C!Task /\ next.stage = "stored" /\ next.seen = t.seen
  BY DEF C!Task
<1>4. LET next == [t EXCEPT !.tries = @ + 1]
      IN  next \in C!Task /\ next.stage = t.stage /\ next.seen = t.seen
  BY <1>1 DEF C!Task
<1> QED BY <1>2, <1>3, <1>4

(* A task goes on: the others stay where they are. *)
LEMMA ScanGoes ==
    ASSUME scan \in [Scans -> C!Task], NEW j \in Scans, NEW next \in C!Task, C!Goes(j, next)
    PROVE  /\ scan' \in [Scans -> C!Task]
           /\ scan'[j] = next
           /\ \A k \in Scans \ {j} : scan'[k] = scan[k]
  BY DEF C!Goes

LEMMA WrittenTyped ==
    ASSUME C!TypeOK, NEW j \in Scans, NEW event \in {"verify", "verification_failed"}
    PROVE  /\ C!Written(j, event) \in C!S!CloudAccountStatus \cup {"removed"}
           /\ account # "removed" => C!Written(j, event) # "removed"
  BY AccountEdges, RemovedIsNoStatus DEF C!Written, C!TypeOK

FindingType == [Types -> [open : BOOLEAN, status : {"none", "open", "resolved", "ignored"}]]

LEMMA Findings ==
    ASSUME C!TypeOK
    PROVE  /\ finding \in FindingType
           /\ [t \in Types |-> C!NoFinding] \in FindingType
           /\ \A j \in Scans :
                /\ [t \in Types |-> IF t \in scan[j].seen THEN C!Reopened(finding[t]) ELSE finding[t]]
                     \in FindingType
                /\ C!Resolved(j) \in FindingType
           /\ \A t \in Types, s \in {"open", "ignored"} :
                [finding EXCEPT ![t].status = s] \in FindingType
<1>1. finding \in FindingType
  BY DEF C!TypeOK, FindingType
<1>2. [t \in Types |-> C!NoFinding] \in FindingType
  BY DEF C!NoFinding, FindingType
<1>3. ASSUME NEW t \in Types
      PROVE  C!Reopened(finding[t]) \in [open : BOOLEAN, status : {"none", "open", "resolved", "ignored"}]
  BY <1>1 DEF FindingType, C!Reopened
<1>4. ASSUME NEW j \in Scans
      PROVE  [t \in Types |-> IF t \in scan[j].seen THEN C!Reopened(finding[t]) ELSE finding[t]]
               \in FindingType
  BY <1>1, <1>3 DEF FindingType
<1>5. ASSUME NEW j \in Scans
      PROVE  C!Resolved(j) \in FindingType
  BY <1>1 DEF FindingType, C!Resolved
<1>6. ASSUME NEW t \in Types, NEW s \in {"open", "ignored"}
      PROVE  [finding EXCEPT ![t].status = s] \in FindingType
  BY <1>1 DEF FindingType
<1> QED BY <1>1, <1>2, <1>4, <1>5, <1>6

(* What an action of the account leaves well-typed. *)
LEMMA CloudTyped ==
    ASSUME C!TypeOK, C!Next
    PROVE  C!TypeOK'
<1>0. /\ used \in [Engines -> Nat] /\ C!Engines = Engines /\ C!Engines' = C!Engines
      /\ cloudOps \in Nat /\ cloudOps + 1 \in Nat
  BY SameNames DEF C!TypeOK, C!Engines
<1>1. CASE C!Drift \/ C!TrustChanges \/ C!UpdateFinding
  <2>1. CASE C!Drift
    BY <1>0, <2>1 DEF C!Drift, C!Counted, C!TypeOK
  <2>2. CASE C!TrustChanges
    BY <1>0, <2>2 DEF C!TrustChanges, C!Counted, C!TypeOK
  <2>3. CASE C!UpdateFinding
    <3>1. finding' \in FindingType
      BY <2>3, Findings DEF C!UpdateFinding
    <3>2. QED BY <1>0, <2>3, <3>1 DEF C!UpdateFinding, C!Counted, C!TypeOK, FindingType
  <2> QED BY <1>1, <2>1, <2>2, <2>3
<1>2. CASE C!TriggerScan
  <2>1. scan' \in [Scans -> C!Task]
    BY <1>2, ScanTasks DEF C!TriggerScan, C!TypeOK, C!Goes
  <2> QED BY <1>0, <1>2, <2>1 DEF C!TriggerScan, C!Counted, C!TypeOK
<1>3. CASE C!UpdateAccount
  <2>1. account' \in C!S!CloudAccountStatus
    BY <1>3, AccountEdges DEF C!UpdateAccount
  <2> QED BY <1>0, <1>3, <2>1 DEF C!UpdateAccount, C!Counted, C!TypeOK
<1>4. CASE C!DeleteAccount
  <2>1. finding' \in FindingType
    BY <1>4, Findings DEF C!DeleteAccount
  <2> QED BY <1>0, <1>4, <2>1 DEF C!DeleteAccount, C!Counted, C!TypeOK, FindingType
<1>5. ASSUME NEW j \in Scans, C!Step(j)
      PROVE  C!TypeOK'
  <2>0. scan \in [Scans -> C!Task] /\ scan[j] \in C!Task
    BY DEF C!TypeOK
  <2>1. CASE C!Load(j)
    <3>1. scan' \in [Scans -> C!Task]
      BY <2>0, <2>1, ScanTasks, ScanGoes DEF C!Load, C!TypeOK
    <3>2. lock' \in BOOLEAN
      BY <2>1 DEF C!Load
    <3> QED BY <2>1, <3>1, <3>2 DEF C!Load, C!TypeOK
  <2>2. CASE C!Busy(j)
    <3>1. scan' \in [Scans -> C!Task]
      BY <2>0, <2>2, ScanTasks, ScanTaskGoesOn, ScanGoes DEF C!Busy
    <3> QED BY <2>2, <3>1 DEF C!Busy, C!TypeOK
  <2>3. CASE C!Collect(j)
    <3>1. scan' \in [Scans -> C!Task]
      BY <2>0, <2>3, ScanTaskGoesOn, ScanGoes DEF C!Collect
    <3>2. cloudOps' \in Nat
      BY <1>0, <2>3 DEF C!Collect, C!Counted
    <3> QED BY <2>3, <3>1, <3>2 DEF C!Collect, C!TypeOK
  <2>4. ASSUME C!Leave(j)
        PROVE  scan' \in [Scans -> C!Task] /\ lock' \in BOOLEAN
    BY <2>0, <2>4, ScanTasks, ScanGoes DEF C!Leave
  <2>5. ASSUME C!RecordUsage("cloud", 1)
        PROVE  used' \in [Engines -> Nat]
    BY <1>0, <2>5, UsageTyped, SameNames DEF Engines
  <2>6. CASE C!CollectionFails(j)
    <3>1. account' \in C!S!CloudAccountStatus \cup {"removed"}
      BY <2>6, WrittenTyped DEF C!CollectionFails
    <3> QED BY <1>0, <2>4, <2>5, <2>6, <3>1 DEF C!CollectionFails, C!TypeOK
  <2>7. CASE C!EvaluationFails(j)
    BY <1>0, <2>4, <2>5, <2>7 DEF C!EvaluationFails, C!TypeOK
  <2>8. CASE C!Store(j)
    <3>1. account' \in C!S!CloudAccountStatus \cup {"removed"}
      BY <2>8, WrittenTyped DEF C!Store, C!Verified
    <3>2. finding' \in FindingType
      BY <2>8, Findings DEF C!Store
    <3>3. scan' \in [Scans -> C!Task]
      BY <2>0, <2>8, ScanTaskGoesOn, ScanGoes DEF C!Store
    <3>4. last' \subseteq Types /\ behind' \in BOOLEAN
      BY <2>0, <2>8 DEF C!Store, C!Task
    <3> QED BY <1>0, <2>5, <2>8, <3>1, <3>2, <3>3, <3>4 DEF C!Store, C!TypeOK, FindingType
  <2>9. CASE C!ResolveStale(j)
    <3>1. finding' \in FindingType
      BY <2>9, Findings DEF C!ResolveStale
    <3> QED BY <2>4, <2>9, <3>1 DEF C!ResolveStale, C!TypeOK, FindingType
  <2>10. CASE C!LosesAccount(j)
    BY <2>4, <2>10 DEF C!LosesAccount, C!TypeOK
  <2>11. CASE C!Crash(j)
    <3>1. scan' \in [Scans -> C!Task]
      BY <2>0, <2>11, ScanTasks, ScanGoes DEF C!Crash
    <3> QED BY <1>0, <2>11, <3>1 DEF C!Crash, C!Counted, C!TypeOK
  <2> QED BY <1>5, <2>1, <2>2, <2>3, <2>6, <2>7, <2>8, <2>9, <2>10, <2>11 DEF C!Step
<1>6. CASE C!Expire
  <2>1. cloudOps' \in Nat /\ lock' \in BOOLEAN
    BY <1>0, <1>6 DEF C!Expire, C!Counted
  <2> QED BY <1>6, <2>1 DEF C!Expire, C!TypeOK
<1> QED BY <1>1, <1>2, <1>3, <1>4, <1>5, <1>6 DEF C!Next

-----------------------------------------------------------------------------
(***************************************************************************)
(* What is open is what the last scan reported.                            *)
(***************************************************************************)

(* Scans end within the hour that their lock lasts. *)
InTime == "overrun" \notin CloudOps

(* Without new work, and with the lock where it was, one scan works. *)
LEMMA NoNewScan ==
    ASSUME OneScan, lock' = lock, \A k \in Scans : Working(k)' => Working(k)
    PROVE  OneScan'
  BY DEF OneScan

(* The one that works leaves, and the lock is free. *)
LEMMA LeavesNone ==
    ASSUME OneScan, scan \in [Scans -> C!Task], NEW j \in Scans, Working(j), C!Leave(j)
    PROVE  \A k \in Scans : ~Working(k)' /\ scan'[k].stage # "stored"
<1>1. scan'[j].stage = "none" /\ \A k \in Scans \ {j} : scan'[k] = scan[k]
  BY ScanTasks, ScanGoes DEF C!Leave
<1>2. \A k \in Scans \ {j} : ~Working(k)
  BY DEF OneScan
<1> QED BY <1>1, <1>2 DEF Working

LEMMA OpenAsBefore ==
    ASSUME C!TypeOK
    PROVE  /\ OpenFindings \subseteq Types
           /\ C!UpdateFinding => OpenFindings' = OpenFindings
           /\ C!DeleteAccount => OpenFindings' = {}
           /\ \A j \in Scans :
                /\ C!Store(j) => scan[j].seen \subseteq OpenFindings'
                /\ C!ResolveStale(j) => OpenFindings' = OpenFindings \cap scan[j].seen
<1>1. finding \in FindingType
  BY Findings
<1>2. ASSUME NEW f, NEW g, f \in FindingType, g \in FindingType,
             \A t \in Types : g[t].open = f[t].open
      PROVE  {t \in Types : g[t].open} = {t \in Types : f[t].open}
  BY <1>2
<1>3. ASSUME C!UpdateFinding
      PROVE  OpenFindings' = OpenFindings
  <2>1. finding' \in FindingType
    BY <1>3, Findings DEF C!UpdateFinding
  <2>2. \A t \in Types : finding'[t].open = finding[t].open
    BY <1>1, <1>3 DEF C!UpdateFinding, FindingType
  <2> QED BY <1>1, <1>2, <2>1, <2>2 DEF OpenFindings
<1>4. ASSUME C!DeleteAccount
      PROVE  OpenFindings' = {}
  BY <1>4 DEF C!DeleteAccount, C!NoFinding, OpenFindings
<1>5. ASSUME NEW j \in Scans, C!Store(j)
      PROVE  scan[j].seen \subseteq OpenFindings'
  <2>1. scan[j].seen \subseteq Types
    BY DEF C!TypeOK, C!Task
  <2>2. \A t \in scan[j].seen : finding'[t].open = TRUE
    BY <1>5, <2>1 DEF C!Store, C!Reopened
  <2> QED BY <2>1, <2>2 DEF OpenFindings
<1>6. ASSUME NEW j \in Scans, C!ResolveStale(j)
      PROVE  OpenFindings' = OpenFindings \cap scan[j].seen
  <2>1. \A t \in Types : finding'[t] = IF ~finding[t].open \/ t \in scan[j].seen THEN finding[t]
                                     ELSE [open |-> FALSE,
                                           status |-> IF finding[t].status = "open" THEN "resolved"
                                                      ELSE finding[t].status]
    BY <1>6 DEF C!ResolveStale, C!Resolved
  <2>2. \A t \in Types : finding'[t].open <=> finding[t].open /\ t \in scan[j].seen
    <3>1. ASSUME NEW t \in Types
          PROVE  finding'[t].open <=> finding[t].open /\ t \in scan[j].seen
      <4>1. finding[t].open \in BOOLEAN
        BY <1>1 DEF FindingType
      <4>2. CASE finding[t].open = TRUE /\ t \notin scan[j].seen
        <5>0. ~(~finding[t].open \/ t \in scan[j].seen)
          BY <4>2
        <5>1. finding'[t] = [open |-> FALSE,
                             status |-> IF finding[t].status = "open" THEN "resolved"
                                        ELSE finding[t].status]
          BY <2>1, <5>0, Zenon
        <5>2. finding'[t].open = FALSE
          BY <5>1
        <5> QED BY <4>2, <5>2
      <4>3. CASE finding[t].open = FALSE \/ t \in scan[j].seen
        BY <2>1, <4>1, <4>3
      <4> QED BY <4>1, <4>2, <4>3
    <3> QED BY <3>1
  <2> QED BY <2>2 DEF OpenFindings
<1>7. OpenFindings \subseteq Types
  BY DEF OpenFindings
<1> QED BY <1>3, <1>4, <1>5, <1>6, <1>7

LEMMA ScanStep ==
    ASSUME InTime, C!TypeOK, ScanInv, C!Next
    PROVE  ScanInv'
<1>0. /\ scan \in [Scans -> C!Task] /\ behind \in BOOLEAN /\ lock \in BOOLEAN
      /\ OneScan /\ StoredIsLast
      /\ last \subseteq OpenFindings /\ (behind = FALSE => OpenFindings = last)
      /\ account = "removed" => behind = FALSE /\ last = {} /\ OpenFindings = {}
  BY DEF C!TypeOK, ScanInv
(* Actions after which as many tasks work, and the findings are as before. *)
<1>1. ASSUME UNCHANGED <<finding, last, behind, account, lock>>,
             \A k \in Scans : /\ Working(k)' => Working(k)
                              /\ scan'[k].stage = "stored"
                                   => scan[k].stage = "stored" /\ scan'[k].seen = scan[k].seen
      PROVE  ScanInv'
  <2>1. OneScan'
    BY <1>0, <1>1, NoNewScan
  <2>2. StoredIsLast'
    BY <1>0, <1>1 DEF StoredIsLast
  <2> QED BY <1>0, <1>1, <2>1, <2>2 DEF ScanInv, OpenFindings
(* Actions with which the one that works leaves. *)
<1>2. ASSUME NEW j \in Scans, Working(j), C!Leave(j),
             UNCHANGED <<finding, last, behind>>, account' = "removed" => account = "removed"
      PROVE  ScanInv'
  <2>1. \A k \in Scans : ~Working(k)' /\ scan'[k].stage # "stored"
    BY <1>0, <1>2, LeavesNone
  <2>2. OneScan' /\ StoredIsLast'
    BY <2>1 DEF OneScan, StoredIsLast
  <2> QED BY <1>0, <1>2, <2>2 DEF ScanInv, OpenFindings
<1>3. CASE C!Drift \/ C!TrustChanges
  BY <1>1, <1>3 DEF C!Drift, C!TrustChanges, Working
<1>4. CASE C!TriggerScan
  <2>1. PICK j \in Scans : C!At(j, "none") /\ C!Goes(j, [C!NoTask EXCEPT !.stage = "queued"])
    BY <1>4 DEF C!TriggerScan
  <2>2. scan'[j].stage = "queued" /\ \A k \in Scans \ {j} : scan'[k] = scan[k]
    BY <1>0, <2>1, ScanTasks, ScanGoes
  <2> QED BY <1>1, <1>4, <2>2 DEF C!TriggerScan, Working
<1>5. CASE C!UpdateAccount
  <2>1. account # "removed" /\ account' # "removed"
    BY <1>5, AccountEdges, RemovedIsNoStatus DEF C!UpdateAccount
  <2>2. OneScan' /\ StoredIsLast'
    BY <1>0, <1>5, <2>1 DEF C!UpdateAccount, OneScan, StoredIsLast, Working
  <2> QED BY <1>0, <1>5, <2>1, <2>2 DEF C!UpdateAccount, ScanInv, OpenFindings
<1>6. CASE C!DeleteAccount
  <2>1. OpenFindings' = {} /\ last' = {} /\ behind' = FALSE /\ account' = "removed"
    BY <1>6, OpenAsBefore DEF C!DeleteAccount
  <2>2. OneScan' /\ StoredIsLast'
    BY <1>0, <1>6, <2>1 DEF C!DeleteAccount, OneScan, StoredIsLast, Working
  <2> QED BY <2>1, <2>2 DEF ScanInv
<1>7. CASE C!UpdateFinding
  <2>1. OpenFindings' = OpenFindings
    BY <1>7, OpenAsBefore
  <2>2. OneScan' /\ StoredIsLast'
    BY <1>0, <1>7 DEF C!UpdateFinding, OneScan, StoredIsLast, Working
  <2> QED BY <1>0, <1>7, <2>1, <2>2 DEF C!UpdateFinding, ScanInv
<1>8. ASSUME NEW j \in Scans, C!Step(j)
      PROVE  ScanInv'
  <2>0. scan[j] \in C!Task
    BY <1>0
  <2>1. CASE C!Load(j)
    <3>1. \A k \in Scans : ~Working(k)
      BY <1>0, <2>1 DEF C!Load, C!LockFree, OneScan
    <3>2. CASE account # "removed" /\ C!Allows(1)
      <4>1. account \in C!S!CloudAccountStatus \cup {"removed"}
        BY DEF C!TypeOK
      <4>2. lock' = TRUE /\ scan'[j].stage = "loaded" /\ \A k \in Scans \ {j} : scan'[k] = scan[k]
        BY <1>0, <2>1, <3>2, <4>1, ScanTasks, ScanGoes DEF C!Load
      <4>3. OneScan' /\ StoredIsLast'
        BY <1>0, <2>1, <3>1, <4>2 DEF OneScan, StoredIsLast, Working, C!Load
      <4> QED BY <1>0, <2>1, <4>3 DEF C!Load, ScanInv, OpenFindings
    <3>3. CASE ~(account # "removed" /\ C!Allows(1))
      <4>1. lock' = FALSE /\ scan'[j].stage = "none" /\ \A k \in Scans \ {j} : scan'[k] = scan[k]
        BY <1>0, <2>1, <3>3, ScanTasks, ScanGoes DEF C!Load
      <4>2. OneScan' /\ StoredIsLast'
        BY <1>0, <2>1, <3>1, <4>1 DEF OneScan, StoredIsLast, Working, C!Load
      <4> QED BY <1>0, <2>1, <4>2 DEF C!Load, ScanInv, OpenFindings
    <3> QED BY <3>2, <3>3
  <2>2. CASE C!Busy(j)
    <3>1. scan'[j].stage \in {"queued", "none"} /\ \A k \in Scans \ {j} : scan'[k] = scan[k]
      <4>1. PICK next \in C!Task : next.stage \in {"queued", "none"} /\ C!Goes(j, next)
        BY <2>0, <2>2, ScanTasks, ScanTaskGoesOn DEF C!Busy, C!At
      <4> QED BY <1>0, <4>1, ScanGoes
    <3> QED BY <1>1, <2>2, <3>1 DEF C!Busy, Working
  <2>3. CASE C!Collect(j)
    <3>1. scan'[j].stage = "collected" /\ \A k \in Scans \ {j} : scan'[k] = scan[k]
      <4>1. PICK next \in C!Task : next.stage = "collected" /\ C!Goes(j, next)
        <5>1. PICK seen \in SUBSET Types :
                C!Goes(j, [scan[j] EXCEPT !.stage = "collected", !.seen = seen])
          BY <2>3 DEF C!Collect
        <5>2. PICK b : b = [scan[j] EXCEPT !.stage = "collected", !.seen = seen]
          OBVIOUS
        <5>3. b \in C!Task /\ b.stage = "collected"
          BY <2>0, <5>2 DEF C!Task
        <5> QED BY <5>1, <5>2, <5>3
      <4> QED BY <1>0, <4>1, ScanGoes
    <3> QED BY <1>1, <2>3, <3>1 DEF C!Collect, C!At, Working
  <2>4. CASE C!CollectionFails(j)
    <3>1. account' = "removed" => account = "removed"
      BY <2>4, WrittenTyped DEF C!CollectionFails
    <3> QED BY <1>2, <2>4, <3>1 DEF C!CollectionFails, C!At, Working
  <2>5. CASE C!EvaluationFails(j)
    BY <1>2, <2>5 DEF C!EvaluationFails, C!At, Working
  <2>6. CASE C!Store(j)
    <3>1. /\ scan'[j].stage = "stored" /\ scan'[j].seen = scan[j].seen
          /\ \A k \in Scans \ {j} : scan'[k] = scan[k]
      <4>1. PICK next \in C!Task : /\ next.stage = "stored" /\ next.seen = scan[j].seen
                                   /\ C!Goes(j, next)
        BY <2>0, <2>6, ScanTaskGoesOn DEF C!Store
      <4> QED BY <1>0, <4>1, ScanGoes
    <3>2. Working(j) /\ \A k \in Scans \ {j} : ~Working(k)
      BY <1>0, <2>6 DEF C!Store, C!At, Working, OneScan
    <3>3. OneScan'
      BY <1>0, <2>6, <3>1, <3>2, NoNewScan DEF C!Store, Working
    <3>4. StoredIsLast'
      BY <2>6, <3>1, <3>2 DEF C!Store, StoredIsLast, Working
    <3>5. last' \subseteq OpenFindings' /\ behind' = TRUE /\ account' # "removed"
      BY <2>6, OpenAsBefore, WrittenTyped DEF C!Store, C!Verified
    <3> QED BY <3>3, <3>4, <3>5 DEF ScanInv
  <2>7. CASE C!ResolveStale(j)
    <3>1. \A k \in Scans : ~Working(k)' /\ scan'[k].stage # "stored"
      BY <1>0, <2>7, LeavesNone DEF C!ResolveStale, C!At, Working
    <3>2. OneScan' /\ StoredIsLast'
      BY <3>1 DEF OneScan, StoredIsLast
    <3>3. OpenFindings' = last' /\ account' # "removed"
      BY <1>0, <2>7, OpenAsBefore DEF C!ResolveStale, C!At, StoredIsLast
    <3> QED BY <3>2, <3>3 DEF ScanInv
  <2>8. CASE C!LosesAccount(j)
    BY <1>2, <2>8 DEF C!LosesAccount, Working
  <2>9. CASE C!Crash(j)
    <3>1. scan'[j].stage = "queued" /\ \A k \in Scans \ {j} : scan'[k] = scan[k]
      BY <1>0, <2>9, ScanTasks, ScanGoes DEF C!Crash
    <3> QED BY <1>1, <2>9, <3>1 DEF C!Crash, Working
  <2> QED BY <1>8, <2>1, <2>2, <2>3, <2>4, <2>5, <2>6, <2>7, <2>8, <2>9 DEF C!Step
<1>9. CASE C!Expire
  <2>1. \A k \in Scans : ~Working(k)
    BY <1>9 DEF InTime, C!Expire, C!Counted, Working
  <2>2. OneScan' /\ StoredIsLast'
    BY <1>0, <1>9, <2>1 DEF C!Expire, OneScan, StoredIsLast, Working
  <2> QED BY <1>0, <1>9, <2>2 DEF C!Expire, ScanInv, OpenFindings
<1> QED BY <1>3, <1>4, <1>5, <1>6, <1>7, <1>8, <1>9 DEF C!Next

-----------------------------------------------------------------------------
(***************************************************************************)
(* The analyses of telemetry: types.                                       *)
(***************************************************************************)

(* Tasks that were sent took slots that were free. *)
LEMMA SendTyped ==
    ASSUME T!TypeOK, NEW rs \in SUBSET Runs, T!Send(rs)
    PROVE  /\ task' \in [Workers -> T!Task]
           /\ \A w \in Workers :
                \/ task'[w] = task[w]
                \/ task[w].stage = "none" /\ task'[w].stage = "queued" /\ task'[w].run \in Runs
<1>1. PICK slot \in [rs -> {w \in Workers : T!At(w, "none")}] :
        task' = [w \in Workers |->
                   IF \E r \in rs : slot[r] = w
                     THEN [T!NoTask EXCEPT !.stage = "queued", !.run = CHOOSE r \in rs : slot[r] = w]
                     ELSE task[w]]
  BY DEF T!Send
<1>2. task \in [Workers -> T!Task]
  BY DEF T!TypeOK
<1>3. ASSUME NEW r \in Runs, NEW new, new = [T!NoTask EXCEPT !.stage = "queued", !.run = r]
      PROVE  new \in T!Task /\ new.stage = "queued" /\ new.run = r
  BY <1>3 DEF T!NoTask, T!Task
<1>4. ASSUME NEW w \in Workers
      PROVE  /\ task'[w] \in T!Task
             /\ \/ task'[w] = task[w]
                \/ task[w].stage = "none" /\ task'[w].stage = "queued" /\ task'[w].run \in Runs
  <2>1. CASE \E r \in rs : slot[r] = w
    <3>1. PICK r : r = CHOOSE s \in rs : slot[s] = w
      OBVIOUS
    <3>2. r \in rs /\ slot[r] = w
      BY <2>1, <3>1
    <3>3. PICK new : new = [T!NoTask EXCEPT !.stage = "queued", !.run = r]
      OBVIOUS
    <3>4. task'[w] = new
      BY <1>1, <2>1, <3>1, <3>3
    <3>5. new \in T!Task /\ new.stage = "queued" /\ new.run = r
      BY <1>3, <3>2, <3>3
    <3>6. task[w].stage = "none"
      BY <3>2 DEF T!At
    <3> QED BY <3>2, <3>4, <3>5, <3>6
  <2>2. CASE ~\E r \in rs : slot[r] = w
    BY <1>1, <1>2, <2>2
  <2> QED BY <2>1, <2>2
<1>5. task' = [w \in Workers |-> task'[w]]
  BY <1>1
<1> QED BY <1>4, <1>5

LEMMA WorkGoes ==
    ASSUME task \in [Workers -> T!Task], NEW w \in Workers, NEW next \in T!Task, T!Goes(w, next)
    PROVE  /\ task' \in [Workers -> T!Task]
           /\ task'[w] = next
           /\ \A v \in Workers \ {w} : task'[v] = task[v]
  BY DEF T!Goes

LEMMA WorkTasks ==
    /\ T!NoTask \in T!Task /\ T!NoTask.stage = "none"
    /\ \A r \in Runs \cup {T!NoRun} :
         LET next == [T!NoTask EXCEPT !.stage = "queued", !.run = r]
         IN  next \in T!Task /\ next.stage = "queued" /\ next.run = r
  BY DEF T!NoTask, T!Task

(* The task w is in this stage now, with the run it had. *)
Became(w, stage) ==
    /\ task' \in [Workers -> T!Task]
    /\ task'[w].stage = stage
    /\ stage # "none" => task'[w].run = task[w].run
    /\ \A v \in Workers \ {w} : task'[v] = task[v]

(* What a task does next, by its action. *)
LEMMA WorkSteps ==
    ASSUME T!TypeOK, HasRun, NEW w \in Workers
    PROVE  /\ T!CheckQuota(w) /\ T!Allows(1) => Became(w, "checked")
           /\ T!CheckQuota(w) /\ ~T!Allows(1) => Became(w, "none")
           /\ T!Pay(w) => Became(w, "paid")
           /\ T!Start(w) => Became(w, "running")
           /\ T!DeleteEnrichments(w) =>
                Became(w, "deleted") /\ task'[w].saw = stored[task[w].run]
           /\ T!InsertEnrichments(w) => Became(w, "stored")
           /\ T!Enrich(w) \/ T!EnrichFails(w) => Became(w, "none")
           /\ T!Crash(w) => Became(w, "queued")
<1>0. /\ task \in [Workers -> T!Task] /\ task[w] \in T!Task
      /\ task[w].stage # "none" => task[w].run \in Runs
      /\ stored \in [Runs -> SUBSET Workers]
  BY DEF T!TypeOK, HasRun
<1>1. ASSUME NEW stage \in {"checked", "paid", "running"},
             T!Goes(w, [task[w] EXCEPT !.stage = stage])
      PROVE  Became(w, stage)
  <2>1. PICK next : next = [task[w] EXCEPT !.stage = stage]
    OBVIOUS
  <2>2. next \in T!Task /\ next.stage = stage /\ next.run = task[w].run
    BY <1>0, <2>1 DEF T!Task
  <2>3. T!Goes(w, next)
    BY <1>1, <2>1
  <2> QED BY <1>0, <2>2, <2>3, WorkGoes DEF Became
<1>2. ASSUME NEW stage \in {"deleted", "stored"}, NEW saw \in SUBSET Workers,
             T!Goes(w, [task[w] EXCEPT !.stage = stage, !.saw = saw])
      PROVE  Became(w, stage) /\ task'[w].saw = saw
  <2>1. PICK next : next = [task[w] EXCEPT !.stage = stage, !.saw = saw]
    OBVIOUS
  <2>2. next \in T!Task /\ next.stage = stage /\ next.run = task[w].run /\ next.saw = saw
    BY <1>0, <2>1 DEF T!Task
  <2>3. T!Goes(w, next)
    BY <1>2, <2>1
  <2> QED BY <1>0, <2>2, <2>3, WorkGoes DEF Became
<1>3. ASSUME T!Goes(w, T!NoTask)
      PROVE  Became(w, "none")
  BY <1>0, <1>3, WorkTasks, WorkGoes DEF Became
<1>4. T!CheckQuota(w) /\ T!Allows(1) => Became(w, "checked")
  BY <1>1 DEF T!CheckQuota
<1>5. T!CheckQuota(w) /\ ~T!Allows(1) => Became(w, "none")
  BY <1>3 DEF T!CheckQuota
<1>6. T!Pay(w) => Became(w, "paid")
  BY <1>1 DEF T!Pay
<1>7. T!Start(w) => Became(w, "running")
  BY <1>1 DEF T!Start
<1>8. T!DeleteEnrichments(w) => Became(w, "deleted") /\ task'[w].saw = stored[task[w].run]
  <2>1. SUFFICES ASSUME T!DeleteEnrichments(w)
                 PROVE  Became(w, "deleted") /\ task'[w].saw = stored[task[w].run]
    OBVIOUS
  <2>2. stored[task[w].run] \in SUBSET Workers
    BY <1>0, <2>1 DEF T!DeleteEnrichments, T!At
  <2> QED BY <1>2, <2>1, <2>2 DEF T!DeleteEnrichments, T!Deleted
<1>9. T!InsertEnrichments(w) => Became(w, "stored")
  <2>1. T!InsertEnrichments(w) => T!Goes(w, [task[w] EXCEPT !.stage = "stored", !.saw = {}])
    BY DEF T!InsertEnrichments
  <2>2. "stored" \in {"deleted", "stored"} /\ {} \in SUBSET Workers
    OBVIOUS
  <2> QED BY <1>2, <2>1, <2>2
<1>10. T!Enrich(w) \/ T!EnrichFails(w) => Became(w, "none")
  BY <1>3 DEF T!Enrich, T!EnrichFails
<1>11. T!Crash(w) => Became(w, "queued")
  <2>1. SUFFICES ASSUME T!Crash(w)
                 PROVE  Became(w, "queued")
    OBVIOUS
  <2>2. PICK next : next = [T!NoTask EXCEPT !.stage = "queued", !.run = task[w].run]
    OBVIOUS
  <2>3. task[w].run \in Runs
    BY <1>0, <2>1 DEF T!Crash
  <2>4. next \in T!Task /\ next.stage = "queued" /\ next.run = task[w].run
    BY <2>2, <2>3 DEF T!NoTask, T!Task
  <2>5. T!Goes(w, next)
    BY <2>1, <2>2 DEF T!Crash
  <2> QED BY <1>0, <2>4, <2>5, WorkGoes DEF Became
<1> QED BY <1>4, <1>5, <1>6, <1>7, <1>8, <1>9, <1>10, <1>11

RunStatus == T!S!DynamicAnalysisStatus \cup {"none", "null"}

(* An event other than "enrich" enriches nothing. *)
LEMMA FireTyped ==
    ASSUME T!TypeOK, NEW r \in Runs, NEW event \in {"started", "enrich", "fail"}, T!Fire(event, r)
    PROVE  /\ status' \in [Runs -> RunStatus]
           /\ \A s \in Runs : status'[s] = "enriched" =>
                                status[s] = "enriched" \/ (s = r /\ event = "enrich")
<1>1. status \in [Runs -> RunStatus]
  BY DEF T!TypeOK, RunStatus
<1>2. PICK new : new = IF status[r] = "null" THEN status[r]
                       ELSE T!S!TryAdvance(T!S!TelemetryMachine, event, status[r])
  OBVIOUS
<1>3. status' = [status EXCEPT ![r] = new]
  BY <1>2 DEF T!Fire
<1>4. new \in RunStatus /\ (new = "enriched" => status[r] = "enriched" \/ event = "enrich")
  BY <1>1, <1>2, TelemetryEdges DEF RunStatus
<1> QED BY <1>1, <1>3, <1>4

LEMMA WorkTyped ==
    ASSUME T!TypeOK, HasRun, T!Next
    PROVE  T!TypeOK' /\ HasRun'
<1>0. /\ task \in [Workers -> T!Task] /\ stored \in [Runs -> SUBSET Workers]
      /\ status \in [Runs -> RunStatus] /\ runOps \in Nat /\ runOps + 1 \in Nat
      /\ used \in [Engines -> Nat] /\ T!Engines = Engines /\ T!Engines' = Engines
      /\ met \subseteq Runs /\ request \subseteq Runs
  BY SameNames DEF T!TypeOK, T!Engines, Engines, RunStatus
<1>1. ASSUME NEW rs \in SUBSET Runs, T!Send(rs)
      PROVE  task' \in [Workers -> T!Task] /\ HasRun'
  BY <1>1, SendTyped DEF HasRun
<1>2. ASSUME NEW kind, NEW first \in RunStatus, T!Ingest(kind, first)
      PROVE  T!TypeOK' /\ HasRun'
  <2>1. PICK r \in Runs : /\ status' = [status EXCEPT ![r] = first]
                          /\ T!Send({r}) \/ UNCHANGED task
    BY <1>2 DEF T!Ingest, T!Stored
  <2>2. task' \in [Workers -> T!Task] /\ HasRun'
    BY <1>0, <1>1, <2>1 DEF HasRun
  <2> QED BY <1>0, <1>2, <2>1, <2>2 DEF T!Ingest, T!Counted, T!TypeOK, RunStatus
<1>3. CASE T!IngestRun \/ T!IngestDockerBuild
  <2>1. "queued" \in RunStatus /\ "null" \in RunStatus
    BY DEF RunStatus, T!S!DynamicAnalysisStatus
  <2> QED BY <1>2, <1>3, <2>1 DEF T!IngestRun, T!IngestDockerBuild
<1>4. CASE T!TriggerScan
  <2>1. task' \in [Workers -> T!Task] /\ HasRun' /\ request' \subseteq Runs
    BY <1>1, <1>4 DEF T!TriggerScan, T!Stored
  <2> QED BY <1>0, <1>4, <2>1 DEF T!TriggerScan, T!Counted, T!TypeOK, RunStatus
<1>5. CASE T!CommitTrigger
  <2>1. status' \in [Runs -> RunStatus]
    BY <1>0, <1>5 DEF T!CommitTrigger, RunStatus, T!S!DynamicAnalysisStatus
  <2> QED BY <1>0, <1>5, <2>1 DEF T!CommitTrigger, T!TypeOK, RunStatus, HasRun
<1>6. ASSUME NEW w \in Workers, T!Step(w)
      PROVE  T!TypeOK' /\ HasRun'
  <2>1. ASSUME NEW stage, Became(w, stage), stage # "none" => task[w].stage # "none"
        PROVE  task' \in [Workers -> T!Task] /\ HasRun'
    BY <2>1 DEF Became, HasRun
  <2>2. CASE T!CheckQuota(w)
    <3>1. task' \in [Workers -> T!Task] /\ HasRun'
      BY <2>1, <2>2, WorkSteps DEF T!CheckQuota, T!At
    <3> QED BY <1>0, <2>2, <3>1 DEF T!CheckQuota, T!TypeOK, RunStatus
  <2>3. CASE T!Pay(w)
    <3>1. task' \in [Workers -> T!Task] /\ HasRun'
      BY <2>1, <2>3, WorkSteps DEF T!Pay, T!At
    <3>2. used' \in [Engines -> Nat]
      BY <1>0, <2>3, UsageTyped, SameNames DEF T!Pay, Engines
    <3> QED BY <1>0, <2>3, <3>1, <3>2 DEF T!Pay, T!TypeOK, RunStatus
  <2>4. CASE T!Start(w)
    <3>1. task' \in [Workers -> T!Task] /\ HasRun'
      BY <2>1, <2>4, WorkSteps DEF T!Start, T!At
    <3>2. status' \in [Runs -> RunStatus]
      BY <2>4, FireTyped DEF T!Start, T!At, HasRun
    <3> QED BY <1>0, <2>4, <3>1, <3>2 DEF T!Start, T!TypeOK, RunStatus
  <2>5. CASE T!DeleteEnrichments(w)
    <3>1. task' \in [Workers -> T!Task] /\ HasRun'
      BY <2>1, <2>5, WorkSteps DEF T!DeleteEnrichments, T!At
    <3>2. met' \subseteq Runs
      BY <1>0, <2>5 DEF T!DeleteEnrichments, T!At, HasRun
    <3> QED BY <1>0, <2>5, <3>1, <3>2 DEF T!DeleteEnrichments, T!TypeOK, RunStatus
  <2>6. CASE T!InsertEnrichments(w)
    <3>1. task' \in [Workers -> T!Task] /\ HasRun'
      BY <2>1, <2>6, WorkSteps DEF T!InsertEnrichments, T!At
    <3>2. stored' \in [Runs -> SUBSET Workers]
      BY <1>0, <2>6 DEF T!InsertEnrichments, T!Inserted, T!At, HasRun
    <3> QED BY <1>0, <2>6, <3>1, <3>2 DEF T!InsertEnrichments, T!TypeOK, RunStatus
  <2>7. CASE T!Enrich(w)
    <3>1. task' \in [Workers -> T!Task] /\ HasRun'
      BY <2>1, <2>7, WorkSteps
    <3>2. status' \in [Runs -> RunStatus]
      BY <2>7, FireTyped DEF T!Enrich, T!At, HasRun
    <3> QED BY <1>0, <2>7, <3>1, <3>2 DEF T!Enrich, T!TypeOK, RunStatus
  <2>8. CASE T!EnrichFails(w)
    <3>1. task' \in [Workers -> T!Task] /\ HasRun'
      BY <2>1, <2>8, WorkSteps
    <3>2. status' \in [Runs -> RunStatus]
      BY <2>8, FireTyped DEF T!EnrichFails, T!At, HasRun
    <3> QED BY <1>0, <2>8, <3>1, <3>2 DEF T!EnrichFails, T!Counted, T!TypeOK, RunStatus
  <2>9. CASE T!Crash(w)
    <3>1. task' \in [Workers -> T!Task] /\ HasRun'
      BY <2>1, <2>9, WorkSteps DEF T!Crash
    <3> QED BY <1>0, <2>9, <3>1 DEF T!Crash, T!Counted, T!TypeOK, RunStatus
  <2> QED BY <1>6, <2>2, <2>3, <2>4, <2>5, <2>6, <2>7, <2>8, <2>9 DEF T!Step
<1>7. CASE T!Sweep
  <2>1. PICK rs \in SUBSET T!Stuck :
          status' = [r \in Runs |-> IF r \in rs THEN T!S!Advance(T!S!TelemetryMachine, "swept", status[r])
                                                ELSE status[r]]
    BY <1>7 DEF T!Sweep
  <2>2. \A r \in rs : T!S!Advance(T!S!TelemetryMachine, "swept", status[r]) = "failed"
    BY SweptEdge DEF T!Stuck
  <2>3. status' \in [Runs -> RunStatus]
    BY <1>0, <2>1, <2>2 DEF RunStatus, T!S!DynamicAnalysisStatus
  <2> QED BY <1>0, <1>7, <2>3 DEF T!Sweep, T!TypeOK, RunStatus, HasRun
<1> QED BY <1>3, <1>4, <1>5, <1>6, <1>7 DEF T!Next

-----------------------------------------------------------------------------
(***************************************************************************)
(* Enriched telemetry is in the table, once.                               *)
(***************************************************************************)

LEMMA EnrichStep ==
    ASSUME T!TypeOK, HasRun, EnrichInv, T!Next
    PROVE  EnrichInv'
<1>0. /\ task \in [Workers -> T!Task] /\ stored \in [Runs -> SUBSET Workers]
      /\ status \in [Runs -> RunStatus] /\ HasRun
  BY DEF T!TypeOK, RunStatus
(* Actions with which no task comes to delete or has inserted. *)
<1>1. ASSUME UNCHANGED <<stored, met>>,
             \A r \in Runs : status'[r] = "enriched" => status[r] = "enriched",
             \A w \in Workers : task'[w].stage \in {"deleted", "stored"} => task'[w] = task[w]
      PROVE  EnrichInv'
  <2>1. \A w \in Workers : task'[w].stage = "stored" => stored'[task'[w].run] # {}
    BY <1>1 DEF EnrichInv
  <2>2. \A r \in Runs : status'[r] = "enriched" => stored'[r] # {}
    BY <1>1 DEF EnrichInv
  <2>3. ASSUME NEW r \in Runs \ met'
        PROVE  /\ \A v, w \in Workers : AtDelete(v, r)' /\ AtDelete(w, r)' => v = w
               /\ \A w \in Workers : AtDelete(w, r)' => task'[w].saw = stored'[r]
               /\ \A x, y \in stored'[r] : x = y
    BY <1>1, <2>3 DEF EnrichInv, AtDelete
  <2> QED BY <2>1, <2>2, <2>3 DEF EnrichInv
<1>2. ASSUME NEW rs \in SUBSET Runs, T!Send(rs), UNCHANGED <<stored, met>>,
             \A r \in Runs : status'[r] = "enriched" => status[r] = "enriched"
      PROVE  EnrichInv'
  BY <1>1, <1>2, SendTyped
<1>3. ASSUME NEW w \in Workers, NEW stage \in {"none", "queued", "checked", "paid", "running"},
             Became(w, stage), UNCHANGED <<stored, met>>,
             \A r \in Runs : status'[r] = "enriched" => status[r] = "enriched"
      PROVE  EnrichInv'
  <2>1. \A v \in Workers : task'[v].stage \in {"deleted", "stored"} => task'[v] = task[v]
    BY <1>3 DEF Became
  <2> QED BY <1>1, <1>3, <2>1
<1>4. ASSUME NEW kind, NEW first \in {"queued", "null"}, T!Ingest(kind, first)
      PROVE  EnrichInv'
  <2>1. PICK r \in Runs : /\ status' = [status EXCEPT ![r] = first]
                          /\ T!Send({r}) \/ UNCHANGED task
    BY <1>4 DEF T!Ingest, T!Stored
  <2>2. \A s \in Runs : status'[s] = "enriched" => status[s] = "enriched"
    BY <1>0, <2>1
  <2>3. CASE T!Send({r})
    BY <1>2, <1>4, <2>2, <2>3 DEF T!Ingest
  <2>4. CASE UNCHANGED task
    BY <1>1, <1>4, <2>2, <2>4 DEF T!Ingest
  <2> QED BY <2>1, <2>3, <2>4
<1>5. CASE T!IngestRun \/ T!IngestDockerBuild
  BY <1>4, <1>5 DEF T!IngestRun, T!IngestDockerBuild
<1>6. CASE T!TriggerScan
  BY <1>2, <1>6 DEF T!TriggerScan, T!Stored
<1>7. CASE T!CommitTrigger
  BY <1>1, <1>7 DEF T!CommitTrigger
<1>8. CASE T!Sweep
  <2>1. PICK rs \in SUBSET T!Stuck :
          status' = [r \in Runs |-> IF r \in rs THEN T!S!Advance(T!S!TelemetryMachine, "swept", status[r])
                                                ELSE status[r]]
    BY <1>8 DEF T!Sweep
  <2>2. \A r \in rs : T!S!Advance(T!S!TelemetryMachine, "swept", status[r]) = "failed"
    BY SweptEdge DEF T!Stuck
  <2>3. \A r \in Runs : status'[r] = "enriched" => status[r] = "enriched"
    BY <2>1, <2>2
  <2> QED BY <1>1, <1>8, <2>3 DEF T!Sweep
<1>9. ASSUME NEW w \in Workers, T!Step(w)
      PROVE  EnrichInv'
  <2>1. CASE T!CheckQuota(w) \/ T!Pay(w) \/ T!Crash(w)
    <3>1. \E stage \in {"none", "queued", "checked", "paid", "running"} : Became(w, stage)
      BY <2>1, WorkSteps
    <3> QED BY <1>3, <2>1, <3>1 DEF T!CheckQuota, T!Pay, T!Crash
  <2>2. CASE T!Start(w)
    <3>1. task[w].run \in Runs
      BY <2>2 DEF T!Start, T!At, HasRun
    <3>2. \A r \in Runs : status'[r] = "enriched" => status[r] = "enriched"
      BY <2>2, <3>1, FireTyped DEF T!Start
    <3> QED BY <1>3, <2>2, <3>2, WorkSteps DEF T!Start
  <2>3. CASE T!EnrichFails(w)
    <3>1. task[w].run \in Runs
      BY <2>3 DEF T!EnrichFails, T!At, HasRun
    <3>2. \A r \in Runs : status'[r] = "enriched" => status[r] = "enriched"
      BY <2>3, <3>1, FireTyped DEF T!EnrichFails
    <3> QED BY <1>3, <2>3, <3>2, WorkSteps DEF T!EnrichFails
  <2>4. CASE T!DeleteEnrichments(w)
    <3> DEFINE r == task[w].run
    <3>1. r \in Runs /\ UNCHANGED <<status, stored>>
      BY <2>4 DEF T!DeleteEnrichments, T!At, HasRun
    <3>2. Became(w, "deleted") /\ task'[w].saw = stored[r]
      BY <2>4, WorkSteps
    <3>3. met' = IF T!Replacing(r) = {} THEN met ELSE met \cup {r}
      BY <2>4 DEF T!DeleteEnrichments
    <3>4. \A v \in Workers : task'[v].stage = "stored" => stored'[task'[v].run] # {}
      BY <3>1, <3>2 DEF EnrichInv, Became
    <3>5. \A s \in Runs : status'[s] = "enriched" => stored'[s] # {}
      BY <3>1 DEF EnrichInv
    <3>6. ASSUME NEW s \in Runs \ met'
          PROVE  /\ \A u, v \in Workers : AtDelete(u, s)' /\ AtDelete(v, s)' => u = v
                 /\ \A v \in Workers : AtDelete(v, s)' => task'[v].saw = stored'[s]
                 /\ \A x, y \in stored'[s] : x = y
      <4>1. s \in Runs \ met
        BY <3>3, <3>6
      <4>2. CASE s = r
        <5>1. \A v \in Workers : ~AtDelete(v, s)
          BY <3>3, <3>6, <4>2 DEF T!Replacing, T!At, AtDelete
        <5>2. \A v \in Workers \ {w} : ~AtDelete(v, s)'
          BY <3>2, <5>1 DEF AtDelete, Became
        <5>3. \A u, v \in Workers : AtDelete(u, s)' /\ AtDelete(v, s)' => u = v
          BY <4>2, <5>2
        <5>4. \A v \in Workers : AtDelete(v, s)' => task'[v].saw = stored'[s]
          BY <3>1, <3>2, <4>2, <5>2
        <5>5. \A x, y \in stored'[s] : x = y
          BY <3>1, <4>1 DEF EnrichInv
        <5> QED BY <5>3, <5>4, <5>5
      <4>3. CASE s # r
        <5>1. \A v \in Workers : AtDelete(v, s)' <=> AtDelete(v, s) /\ v # w
          BY <3>2, <4>3 DEF AtDelete, Became
        <5> QED BY <3>1, <3>2, <4>1, <5>1 DEF EnrichInv, Became
      <4> QED BY <4>2, <4>3
    <3> QED BY <3>4, <3>5, <3>6 DEF EnrichInv
  <2>5. CASE T!InsertEnrichments(w)
    <3> DEFINE r == task[w].run
    <3>1. /\ r \in Runs /\ UNCHANGED <<status, met>>
          /\ AtDelete(w, r)
      BY <2>5 DEF T!InsertEnrichments, T!At, HasRun, AtDelete
    <3>2. Became(w, "stored")
      BY <2>5, WorkSteps
    <3>3. /\ stored'[r] = (stored[r] \ task[w].saw) \cup {w}
          /\ \A s \in Runs \ {r} : stored'[s] = stored[s]
      BY <1>0, <2>5, <3>1 DEF T!InsertEnrichments, T!Inserted
    <3>4. ASSUME NEW v \in Workers, task'[v].stage = "stored"
          PROVE  stored'[task'[v].run] # {}
      <4>1. CASE v = w
        BY <3>2, <3>3, <4>1 DEF Became
      <4>2. CASE v # w
        <5>1. task'[v] = task[v] /\ task[v].run \in Runs
          BY <3>2, <3>4, <4>2 DEF Became, HasRun
        <5> QED BY <3>3, <3>4, <5>1 DEF EnrichInv
      <4> QED BY <4>1, <4>2
    <3>5. \A s \in Runs : status'[s] = "enriched" => stored'[s] # {}
      BY <3>1, <3>3 DEF EnrichInv
    <3>6. ASSUME NEW s \in Runs \ met'
          PROVE  /\ \A u, v \in Workers : AtDelete(u, s)' /\ AtDelete(v, s)' => u = v
                 /\ \A v \in Workers : AtDelete(v, s)' => task'[v].saw = stored'[s]
                 /\ \A x, y \in stored'[s] : x = y
      <4>1. s \in Runs \ met
        BY <3>1
      <4>2. \A v \in Workers : AtDelete(v, s)' => AtDelete(v, s) /\ v # w
        BY <3>2 DEF AtDelete, Became
      <4>3. CASE s = r
        <5>1. \A v \in Workers : ~AtDelete(v, s)'
          BY <3>1, <4>1, <4>2, <4>3 DEF EnrichInv
        <5>2. task[w].saw = stored[r]
          BY <3>1, <4>1, <4>3 DEF EnrichInv
        <5>3. stored'[s] = {w}
          BY <3>3, <4>3, <5>2
        <5> QED BY <5>1, <5>3
      <4>4. CASE s # r
        <5>1. stored'[s] = stored[s]
          BY <3>3, <4>1, <4>4
        <5> QED BY <3>2, <4>1, <4>2, <5>1 DEF EnrichInv, Became
      <4> QED BY <4>3, <4>4
    <3> QED BY <3>4, <3>5, <3>6 DEF EnrichInv
  <2>6. CASE T!Enrich(w)
    <3>1. task[w].run \in Runs /\ stored[task[w].run] # {} /\ UNCHANGED <<stored, met>>
      BY <2>6 DEF T!Enrich, T!At, HasRun, EnrichInv
    <3>2. \A r \in Runs : status'[r] = "enriched" => status[r] = "enriched" \/ r = task[w].run
      BY <2>6, <3>1, FireTyped DEF T!Enrich
    <3>3. Became(w, "none")
      BY <2>6, WorkSteps
    <3>4. \A v \in Workers : task'[v].stage \in {"deleted", "stored"} => task'[v] = task[v]
      BY <3>3 DEF Became
    <3>5. \A v \in Workers : task'[v].stage = "stored" => stored'[task'[v].run] # {}
      BY <3>1, <3>4 DEF EnrichInv
    <3>6. \A r \in Runs : status'[r] = "enriched" => stored'[r] # {}
      BY <3>1, <3>2 DEF EnrichInv
    <3>7. ASSUME NEW r \in Runs \ met'
          PROVE  /\ \A u, v \in Workers : AtDelete(u, r)' /\ AtDelete(v, r)' => u = v
                 /\ \A v \in Workers : AtDelete(v, r)' => task'[v].saw = stored'[r]
                 /\ \A x, y \in stored'[r] : x = y
      BY <3>1, <3>4, <3>7 DEF EnrichInv, AtDelete
    <3> QED BY <3>5, <3>6, <3>7 DEF EnrichInv
  <2> QED BY <1>9, <2>1, <2>2, <2>3, <2>4, <2>5, <2>6 DEF T!Step
<1> QED BY <1>5, <1>6, <1>7, <1>8, <1>9 DEF T!Next

-----------------------------------------------------------------------------
(***************************************************************************)
(* The allowance: what is used, and what is as good as used.               *)
(***************************************************************************)

LEMMA DueCounts ==
    /\ IsFiniteSet(Scans) /\ Cardinality(Scans) \in Nat
    /\ IsFiniteSet(Workers) /\ Cardinality(Workers) \in Nat
    /\ IsFiniteSet(CloudDue) /\ Cardinality(CloudDue) \in Nat
    /\ Cardinality(CloudDue) <= Cardinality(Scans)
    /\ IsFiniteSet(TelemetryDue) /\ Cardinality(TelemetryDue) \in Nat
    /\ Cardinality(TelemetryDue) <= Cardinality(Workers)
<1>1. CloudDue \in SUBSET Scans /\ TelemetryDue \in SUBSET Workers
  BY DEF CloudDue, TelemetryDue
<1> QED BY <1>1, TasksAssumption, FS_Subset, FS_CardinalityType

LEMMA UsageIsNat ==
    ASSUME used \in [Engines -> Nat]
    PROVE  PeriodUsage \in Nat
  BY DEF PeriodUsage, Engines

(* Nothing is charged, and nothing more is due. *)
LEMMA NothingDue ==
    ASSUME TypeOK, DueInv, used' = used, CloudDue' \subseteq CloudDue, TelemetryDue' \subseteq TelemetryDue
    PROVE  DueInv'
<1>1. PeriodUsage' = PeriodUsage /\ PeriodUsage \in Nat
  BY UsageIsNat DEF PeriodUsage, TypeOK, C!TypeOK, C!Engines, Engines
<1>2. /\ Cardinality(CloudDue') \in Nat /\ Cardinality(CloudDue') <= Cardinality(CloudDue)
      /\ Cardinality(TelemetryDue') \in Nat /\ Cardinality(TelemetryDue') <= Cardinality(TelemetryDue)
  BY DueCounts, FS_Subset, FS_CardinalityType
<1> QED BY <1>1, <1>2, DueCounts, LimitAssumption DEF DueInv

(* One that was due is charged. *)
LEMMA DueIsCharged ==
    ASSUME TypeOK, DueInv, NEW e \in Engines, RecordUsage(e, 1),
           \/ \E j \in CloudDue : CloudDue' = CloudDue \ {j} /\ TelemetryDue' = TelemetryDue
           \/ \E w \in TelemetryDue : CloudDue' = CloudDue /\ TelemetryDue' = TelemetryDue \ {w}
    PROVE  DueInv'
<1>1. PeriodUsage' = PeriodUsage + 1 /\ PeriodUsage \in Nat
  BY UsageIsNat, UsageSum, SameNames DEF TypeOK, C!TypeOK
<1>2. CASE \E j \in CloudDue : CloudDue' = CloudDue \ {j} /\ TelemetryDue' = TelemetryDue
  <2>1. Cardinality(CloudDue') = Cardinality(CloudDue) - 1
    BY <1>2, DueCounts, FS_RemoveElement
  <2> QED BY <1>1, <1>2, <2>1, DueCounts, LimitAssumption DEF DueInv
<1>3. CASE \E w \in TelemetryDue : CloudDue' = CloudDue /\ TelemetryDue' = TelemetryDue \ {w}
  <2>1. Cardinality(TelemetryDue') = Cardinality(TelemetryDue) - 1
    BY <1>3, DueCounts, FS_RemoveElement
  <2> QED BY <1>1, <1>3, <2>1, DueCounts, LimitAssumption DEF DueInv
<1> QED BY <1>2, <1>3

(* One more is due, and was allowed: there is room for every task. *)
LEMMA DueIsAllowed ==
    ASSUME TypeOK, TypeOK', used' = used, Allows(1)
    PROVE  DueInv'
<1>1. PeriodUsage' = PeriodUsage /\ PeriodUsage \in Nat /\ 1 <= Limit - PeriodUsage
  BY UsageIsNat, SameNames DEF PeriodUsage, TypeOK, C!TypeOK, Allows
<1>2. CloudDue' \in SUBSET Scans /\ TelemetryDue' \in SUBSET Workers
  BY DEF CloudDue, TelemetryDue
<1>3. /\ Cardinality(CloudDue') \in Nat /\ Cardinality(CloudDue') <= Cardinality(Scans)
      /\ Cardinality(TelemetryDue') \in Nat /\ Cardinality(TelemetryDue') <= Cardinality(Workers)
  BY <1>2, TasksAssumption, FS_Subset, FS_CardinalityType
<1> QED BY <1>1, <1>3, DueCounts, LimitAssumption DEF DueInv

LEMMA CloudAllowed ==
    ASSUME TypeOK, TypeOK', DueInv, C!Next, UNCHANGED telemetryVars
    PROVE  DueInv'
<1>0. /\ C!TypeOK /\ scan \in [Scans -> C!Task] /\ TelemetryDue' = TelemetryDue /\ "cloud" \in Engines
  BY DEF TypeOK, C!TypeOK, TelemetryDue, telemetryVars, Engines
<1>1. ASSUME used' = used, \A k \in Scans : scan'[k].stage \in {"loaded", "collected"}
                                               => scan[k].stage \in {"loaded", "collected"}
      PROVE  DueInv'
  <2>1. CloudDue' \subseteq CloudDue
    BY <1>1 DEF CloudDue
  <2> QED BY <1>0, <1>1, <2>1, NothingDue
<1>2. ASSUME NEW j \in Scans, NEW next \in C!Task, C!Goes(j, next), used' = used,
             next.stage \notin {"loaded", "collected"}
      PROVE  DueInv'
  BY <1>0, <1>1, <1>2, ScanGoes
<1>3. ASSUME NEW j \in CloudDue, NEW next \in C!Task, C!Goes(j, next), C!RecordUsage("cloud", 1),
             next.stage \notin {"loaded", "collected"}
      PROVE  DueInv'
  <2>1. j \in Scans /\ CloudDue' = CloudDue \ {j}
    BY <1>0, <1>3, ScanGoes DEF CloudDue
  <2> QED BY <1>0, <1>3, <2>1, DueIsCharged, SameNames
<1>4. CASE C!Drift \/ C!TrustChanges \/ C!UpdateAccount \/ C!DeleteAccount \/ C!UpdateFinding \/ C!Expire
  BY <1>1, <1>4 DEF C!Drift, C!TrustChanges, C!UpdateAccount, C!DeleteAccount, C!UpdateFinding, C!Expire
<1>5. CASE C!TriggerScan
  BY <1>2, <1>5, ScanTasks DEF C!TriggerScan
<1>6. ASSUME NEW j \in Scans, C!Step(j)
      PROVE  DueInv'
  <2>0. scan[j] \in C!Task
    BY <1>0
  <2>1. CASE C!Load(j)
    <3>1. CASE account # "removed" /\ C!Allows(1)
      BY <2>1, <3>1, SameNames, DueIsAllowed DEF C!Load
    <3>2. CASE ~(account # "removed" /\ C!Allows(1))
      BY <1>2, <2>1, <3>2, ScanTasks DEF C!Load
    <3> QED BY <3>1, <3>2
  <2>2. CASE C!Busy(j)
    <3>1. PICK next \in C!Task : next.stage \in {"queued", "none"} /\ C!Goes(j, next)
      BY <2>0, <2>2, ScanTasks, ScanTaskGoesOn DEF C!Busy, C!At
    <3> QED BY <1>2, <2>2, <3>1 DEF C!Busy
  <2>3. CASE C!Collect(j)
    <3>1. \A k \in Scans \ {j} : scan'[k] = scan[k]
      BY <1>0, <2>3 DEF C!Collect, C!Goes
    <3> QED BY <1>1, <2>3, <3>1 DEF C!Collect, C!At
  <2>4. CASE C!CollectionFails(j) \/ C!EvaluationFails(j)
    BY <1>3, <2>4, ScanTasks DEF C!CollectionFails, C!EvaluationFails, C!Leave, C!At, CloudDue
  <2>5. CASE C!Store(j)
    <3>1. PICK next \in C!Task : next.stage = "stored" /\ C!Goes(j, next)
      BY <2>0, <2>5, ScanTaskGoesOn DEF C!Store
    <3> QED BY <1>3, <2>5, <3>1 DEF C!Store, C!At, CloudDue
  <2>6. CASE C!ResolveStale(j) \/ C!LosesAccount(j)
    BY <1>2, <2>6, ScanTasks DEF C!ResolveStale, C!LosesAccount, C!Leave
  <2>7. CASE C!Crash(j)
    BY <1>2, <2>7, ScanTasks DEF C!Crash
  <2> QED BY <1>6, <2>1, <2>2, <2>3, <2>4, <2>5, <2>6, <2>7 DEF C!Step
<1> QED BY <1>4, <1>5, <1>6 DEF C!Next

LEMMA TelemetryAllowed ==
    ASSUME TypeOK, TypeOK', HasRun, DueInv, T!Next, UNCHANGED cloudVars
    PROVE  DueInv'
<1>0. T!TypeOK /\ CloudDue' = CloudDue /\ "telemetry" \in Engines
  BY DEF TypeOK, CloudDue, cloudVars, Engines
<1>1. ASSUME used' = used,
             \A w \in Workers : task'[w].stage = "checked" => task[w].stage = "checked"
      PROVE  DueInv'
  <2>1. TelemetryDue' \subseteq TelemetryDue
    BY <1>1 DEF TelemetryDue
  <2> QED BY <1>0, <1>1, <2>1, NothingDue
<1>2. ASSUME NEW w \in Workers, NEW stage, stage # "checked", Became(w, stage), used' = used
      PROVE  DueInv'
  BY <1>1, <1>2 DEF Became
<1>3. ASSUME NEW rs \in SUBSET Runs, T!Send(rs), used' = used
      PROVE  DueInv'
  BY <1>0, <1>1, <1>3, SendTyped
<1>4. CASE T!IngestRun \/ T!IngestDockerBuild
  <2>1. used' = used /\ (UNCHANGED task \/ \E r \in Runs : T!Send({r}))
    BY <1>4 DEF T!IngestRun, T!IngestDockerBuild, T!Ingest, T!Stored
  <2> QED BY <1>1, <1>3, <2>1
<1>5. CASE T!TriggerScan
  BY <1>3, <1>5 DEF T!TriggerScan, T!Stored
<1>6. CASE T!CommitTrigger \/ T!Sweep
  BY <1>1, <1>6 DEF T!CommitTrigger, T!Sweep
<1>7. ASSUME NEW w \in Workers, T!Step(w)
      PROVE  DueInv'
  <2>1. CASE T!CheckQuota(w)
    <3>1. CASE T!Allows(1)
      BY <2>1, <3>1, SameNames, DueIsAllowed DEF T!CheckQuota
    <3>2. CASE ~T!Allows(1)
      BY <1>0, <1>2, <2>1, <3>2, WorkSteps DEF T!CheckQuota
    <3> QED BY <3>1, <3>2
  <2>2. CASE T!Pay(w)
    <3>1. Became(w, "paid") /\ w \in TelemetryDue /\ RecordUsage("telemetry", 1)
      BY <1>0, <2>2, WorkSteps, SameNames DEF T!Pay, T!At, TelemetryDue
    <3>2. TelemetryDue' = TelemetryDue \ {w}
      BY <3>1 DEF TelemetryDue, Became
    <3> QED BY <1>0, <3>1, <3>2, DueIsCharged
  <2>3. CASE T!Start(w) \/ T!DeleteEnrichments(w) \/ T!InsertEnrichments(w) \/ T!Enrich(w)
             \/ T!EnrichFails(w) \/ T!Crash(w)
    <3>1. \E stage : stage # "checked" /\ Became(w, stage)
      <4>1. \E stage \in {"running", "deleted", "stored", "none", "queued"} : Became(w, stage)
        BY <1>0, <2>3, WorkSteps
      <4> QED BY <4>1
    <3>2. used' = used
      BY <2>3 DEF T!Start, T!DeleteEnrichments, T!InsertEnrichments, T!Enrich, T!EnrichFails, T!Crash
    <3> QED BY <1>2, <3>1, <3>2
  <2> QED BY <1>7, <2>1, <2>2, <2>3 DEF T!Step
<1> QED BY <1>4, <1>5, <1>6, <1>7 DEF T!Next

-----------------------------------------------------------------------------
(***************************************************************************)
(* The theorems.                                                           *)
(***************************************************************************)

(* A step of the composition is one of either engine's. *)
LEMMA EitherEngine ==
    ASSUME [Next]_vars
    PROVE  \/ C!Next /\ UNCHANGED telemetryVars
           \/ T!Next /\ UNCHANGED cloudVars
           \/ UNCHANGED vars
  BY DEF Next

LEMMA InitTyped ==
    ASSUME Init
    PROVE  Typed
<1>1. C!TypeOK
  BY AccountEdges, ScanTasks, BoundsAssumption
     DEF Init, C!Init, C!TypeOK, C!Unused, C!Engines, C!NoFinding, C!S!CloudAccountStatus
<1>2. T!TypeOK /\ HasRun
  BY WorkTasks DEF Init, T!Init, T!TypeOK, T!Unused, T!Engines, HasRun
<1> QED BY <1>1, <1>2 DEF Typed, TypeOK

LEMMA StepTyped ==
    ASSUME Typed, [Next]_vars
    PROVE  Typed'
<1>0. C!TypeOK /\ T!TypeOK /\ HasRun
  BY DEF Typed, TypeOK
<1>1. CASE C!Next /\ UNCHANGED telemetryVars
  <2>1. C!TypeOK'
    BY <1>0, <1>1, CloudTyped
  <2>2. used' \in [T!Engines -> Nat]
    BY <2>1 DEF C!TypeOK, C!Engines, T!Engines
  <2>3. T!TypeOK' /\ HasRun'
    BY <1>0, <1>1, <2>2 DEF T!TypeOK, T!Engines, HasRun, telemetryVars
  <2> QED BY <2>1, <2>3 DEF Typed, TypeOK
<1>2. CASE T!Next /\ UNCHANGED cloudVars
  <2>1. T!TypeOK' /\ HasRun'
    BY <1>0, <1>2, WorkTyped
  <2>2. used' \in [C!Engines -> Nat]
    BY <2>1 DEF T!TypeOK, C!Engines, T!Engines
  <2>3. C!TypeOK'
    BY <1>0, <1>2, <2>2 DEF C!TypeOK, C!Engines, cloudVars
  <2> QED BY <2>1, <2>3 DEF Typed, TypeOK
<1>3. CASE UNCHANGED vars
  BY <1>0, <1>3 DEF Typed, TypeOK, C!TypeOK, T!TypeOK, C!Engines, T!Engines, HasRun,
                    vars, cloudVars, telemetryVars
<1> QED BY <1>1, <1>2, <1>3, EitherEngine

LEMMA AlwaysTyped == Spec => []Typed
  BY InitTyped, StepTyped, PTL DEF Spec

(* Every variable has its type, in every behaviour: what the two engines'   *)
(* tasks write to the account, the findings, the telemetry rows and the     *)
(* ledger are values of those tables.                                       *)
THEOREM TypeCorrect == Spec => []TypeOK
<1>1. Typed => TypeOK
  BY DEF Typed
<1> QED BY AlwaysTyped, <1>1, PTL

(* Tasks of both engines check the allowance before they work and add to    *)
(* the ledger afterwards; together they overrun the plan by one record each *)
(* but the first.  With no task at all there is none to be the first.       *)
THEOREM Allowed ==
    ASSUME Scans # {} \/ Workers # {}
    PROVE  Spec => []WithinAllowance
<1>1. ASSUME Init
      PROVE  DueInv
  <2>1. CloudDue = {} /\ TelemetryDue = {} /\ PeriodUsage = 0
    <3>1. CloudDue = {}
      BY <1>1, ScanTasks DEF Init, C!Init, CloudDue
    <3>2. TelemetryDue = {}
      BY <1>1, WorkTasks DEF Init, T!Init, TelemetryDue
    <3>3. PeriodUsage = 0
      BY <1>1, SameNames DEF Init, C!Init, Unused, Engines, PeriodUsage
    <3> QED BY <3>1, <3>2, <3>3
  <2>2. Cardinality(Scans) + Cardinality(Workers) >= 1
    BY DueCounts, FS_EmptySet
  <2> QED BY <2>1, <2>2, DueCounts, FS_EmptySet, LimitAssumption DEF DueInv
<1>2. ASSUME Typed, Typed', DueInv, [Next]_vars
      PROVE  DueInv'
  <2>0. TypeOK /\ TypeOK' /\ HasRun
    BY <1>2 DEF Typed
  <2>1. CASE UNCHANGED vars
    <3>1. CloudDue' = CloudDue /\ TelemetryDue' = TelemetryDue /\ used' = used
      BY <2>1 DEF CloudDue, TelemetryDue, vars, cloudVars, telemetryVars
    <3> QED BY <1>2, <2>0, <3>1, NothingDue
  <2> QED BY <1>2, <2>0, <2>1, CloudAllowed, TelemetryAllowed, EitherEngine
<1>3. Typed /\ DueInv => WithinAllowance
  BY DueCounts, UsageIsNat, SameNames, LimitAssumption
     DEF Typed, TypeOK, C!TypeOK, DueInv, WithinAllowance
<1> QED BY AlwaysTyped, <1>1, <1>2, <1>3, PTL DEF Spec

(* Once a scan is through, the open findings are those it reported: scans   *)
(* of one account do not resolve each other's findings, however many were   *)
(* asked for, whatever crashed and whatever the user did to the account     *)
(* meanwhile, as long as no scan takes longer than its lock lasts.          *)
THEOREM Current ==
    ASSUME InTime
    PROVE  Spec => []OpenIsReported
<1>1. ASSUME Init
      PROVE  ScanInv
  <2>1. OpenFindings = {} /\ last = {} /\ behind = FALSE
    BY <1>1 DEF Init, C!Init, C!NoFinding, OpenFindings
  <2>2. \A j \in Scans : scan[j].stage = "none"
    BY <1>1, ScanTasks DEF Init, C!Init
  <2> QED BY <2>1, <2>2 DEF ScanInv, OneScan, StoredIsLast, Working
<1>2. ASSUME Typed, ScanInv, [Next]_vars
      PROVE  ScanInv'
  <2>1. CASE C!Next
    BY <1>2, <2>1, ScanStep DEF Typed, TypeOK
  <2>2. CASE UNCHANGED cloudVars \/ UNCHANGED vars
    BY <1>2, <2>2 DEF ScanInv, OneScan, StoredIsLast, Working, OpenFindings, cloudVars, vars
  <2> QED BY <1>2, <2>1, <2>2, EitherEngine
<1>3. Typed /\ ScanInv => OpenIsReported
  BY DEF Typed, TypeOK, C!TypeOK, ScanInv, OpenFindings, OpenIsReported, C!OpenIsReported
<1> QED BY AlwaysTyped, <1>1, <1>2, <1>3, PTL DEF Spec

(* TelemetryRuns counts as this module does. *)
LEMMA SameCardinality == \A S : T!Cardinality(S) = Cardinality(S)
  BY DEF T!Cardinality, Cardinality, T!IsFiniteSet, IsFiniteSet

(* A run that says it is enriched has its enrichment in the table, and one  *)
(* copy of it unless two tasks replaced it at once, whatever was lost,      *)
(* crashed, was swept, or was asked for again.                              *)
THEOREM Enriched == Spec => []EnrichedIsStored
<1>1. ASSUME Init
      PROVE  EnrichInv
  BY <1>1, WorkTasks DEF Init, T!Init, EnrichInv, AtDelete
<1>2. ASSUME Typed, EnrichInv, [Next]_vars
      PROVE  EnrichInv'
  <2>1. CASE T!Next
    BY <1>2, <2>1, EnrichStep DEF Typed, TypeOK
  <2>2. CASE UNCHANGED telemetryVars \/ UNCHANGED vars
    BY <1>2, <2>2 DEF EnrichInv, AtDelete, telemetryVars, vars
  <2> QED BY <1>2, <2>1, <2>2, EitherEngine
<1>3. ASSUME EnrichInv
      PROVE  EnrichedIsStored
  <2>1. ASSUME NEW r \in Runs, r \notin met
        PROVE  Cardinality(stored[r]) <= 1
    <3>1. \A x, y \in stored[r] : x = y
      BY <1>3, <2>1 DEF EnrichInv
    <3>2. CASE stored[r] = {}
      BY <3>2, FS_EmptySet
    <3>3. CASE stored[r] # {}
      <4>1. PICK x : stored[r] = {x}
        BY <3>1, <3>3
      <4>2. Cardinality({x}) = 1
        BY FS_Singleton
      <4> QED BY <4>1, <4>2
    <3> QED BY <3>2, <3>3
  <2>2. \A r \in Runs : status[r] = "enriched" => stored[r] # {}
    BY <1>3 DEF EnrichInv
  <2>3. \A r \in Runs : r \notin met => Cardinality(stored[r]) <= 1
    BY <2>1
  <2> QED BY <2>2, <2>3, SameCardinality DEF EnrichedIsStored, T!EnrichedIsStored
<1> QED BY AlwaysTyped, <1>1, <1>2, <1>3, PTL DEF Spec

-----------------------------------------------------------------------------
(* AwsCollector: the quiet rules invent nothing, for every account and any  *)
(* failing calls.                                                           *)

\* Functions and balancers are records: the collector changes some fields.
WellFormed(A) ==
    /\ \A fn \in A.functions :
          fn = [id |-> fn.id, region |-> fn.region, public |-> fn.public]
    /\ \A lb \in A.balancers :
          lb = [id |-> lb.id, region |-> lb.region, scheme |-> lb.scheme,
                listeners |-> lb.listeners, logged |-> lb.logged]

(* A call that does not fail is answered. *)
LEMMA NothingFails ==
    \A call, id : ~Failed(NoFailure, call, id) /\ ~Broken(NoFailure, call, id)
  BY DEF Failed, Broken, NoFailure

(* What is listed in spite of failures is listed without them. *)
LEMMA ListedAnyway ==
    ASSUME NEW F, NEW call, NEW resources, NEW regions
    PROVE  Listed(F, call, resources, regions) \subseteq Listed(NoFailure, call, resources, regions)
  BY NothingFails DEF Listed

(* A document that cannot be read grants nothing. *)
LEMMA ReadOrEmpty ==
    ASSUME NEW F, NEW call, NEW r, NEW document
    PROVE  NormalizeStatements(Ask(F, call, r, document, Unreadable))
              \subseteq NormalizeStatements(Ask(NoFailure, call, r, document, Unreadable))
  BY NothingFails DEF NormalizeStatements, Ask, Unreadable

LEMMA BucketsQuiet ==
    ASSUME NEW A, NEW F, NEW b \in CollectS3Buckets(A, F)
    PROVE  \E c \in CollectS3Buckets(A, NoFailure) :
              c.id = b.id /\ b.statements \subseteq c.statements
<1> DEFINE row(G, a) ==
            [id |-> a.id,
             blocked |-> Ask(G, "get_public_access_block", a, a.blocked, FALSE),
             encrypted |-> Ask(G, "get_bucket_encryption", a, a.encrypted, FALSE),
             versioned |-> Ask(G, "get_bucket_versioning", a, a.versioned, FALSE),
             logged |-> Ask(G, "get_bucket_logging", a, a.logged, FALSE),
             statements |-> BucketPolicyStatements(G, a)]
<1>a. PICK a \in A.buckets : b = row(F, a)
  BY DEF CollectS3Buckets
<1>1. b.id = a.id /\ b.statements = BucketPolicyStatements(F, a)
  BY <1>a
<1> DEFINE c == [id |-> a.id,
             blocked |-> Ask(NoFailure, "get_public_access_block", a, a.blocked, FALSE),
             encrypted |-> Ask(NoFailure, "get_bucket_encryption", a, a.encrypted, FALSE),
             versioned |-> Ask(NoFailure, "get_bucket_versioning", a, a.versioned, FALSE),
             logged |-> Ask(NoFailure, "get_bucket_logging", a, a.logged, FALSE),
             statements |-> BucketPolicyStatements(NoFailure, a)]
<1>2. c \in CollectS3Buckets(A, NoFailure)
  BY NothingFails DEF CollectS3Buckets
<1>3. BucketPolicyStatements(F, a) \subseteq BucketPolicyStatements(NoFailure, a)
  BY ReadOrEmpty DEF BucketPolicyStatements
<1>4. c.id = a.id /\ c.statements = BucketPolicyStatements(NoFailure, a)
  OBVIOUS
<1> HIDE DEF c
<1> QED BY <1>1, <1>2, <1>3, <1>4

LEMMA PoliciesQuiet ==
    ASSUME NEW A, NEW F, NEW p \in CollectPolicies(A, F)
    PROVE  \E q \in CollectPolicies(A, NoFailure) :
              q.id = p.id /\ p.statements \subseteq q.statements
<1>1. PICK a \in A.policies :
         p.id = a.id /\ p.statements =
            NormalizeStatements(Ask(F, "get_policy_version", a, a.document, Unreadable))
  BY DEF CollectPolicies
<1> DEFINE q == [id |-> a.id, statements |->
            NormalizeStatements(Ask(NoFailure, "get_policy_version", a, a.document, Unreadable))]
<1>2. q \in CollectPolicies(A, NoFailure)
  BY NothingFails DEF CollectPolicies
<1>3. p.statements \subseteq q.statements
  BY <1>1, ReadOrEmpty
<1>4. q.id = p.id
  BY <1>1
<1> HIDE DEF q
<1> QED BY <1>2, <1>3, <1>4

LEMMA UsersQuiet ==
    ASSUME NEW A, NEW F, NEW u \in CollectUsers(A, F), u.credentials.key = "old"
    PROVE  \E v \in CollectUsers(A, NoFailure) : v.id = u.id /\ v.credentials.key = "old"
<1> DEFINE row(G, a) ==
            [id |-> a.id, mfa |-> Ask(G, "list_mfa_devices", a, a.mfa, FALSE),
             credentials |-> CredentialsOf(CredentialReport(A, G), a)]
<1>a. PICK a \in A.users : u = row(F, a)
  BY DEF CollectUsers
<1>1. u.id = a.id /\ u.credentials = CredentialsOf(CredentialReport(A, F), a)
  BY <1>a
<1>2. CredentialReport(A, F) \in {{}, CredentialReport(A, NoFailure)}
  BY NothingFails DEF CredentialReport
<1>3. CredentialReport(A, F) # {}
  BY <1>1 DEF CredentialsOf, NoCredentialReport
<1>4. u.credentials = CredentialsOf(CredentialReport(A, NoFailure), a)
  BY <1>1, <1>2, <1>3
<1> DEFINE v == [id |-> a.id, mfa |-> Ask(NoFailure, "list_mfa_devices", a, a.mfa, FALSE),
                 credentials |-> CredentialsOf(CredentialReport(A, NoFailure), a)]
<1>5. v \in CollectUsers(A, NoFailure)
  BY NothingFails DEF CollectUsers
<1>6. v.id = a.id /\ v.credentials = CredentialsOf(CredentialReport(A, NoFailure), a)
  OBVIOUS
<1> HIDE DEF v
<1> QED BY <1>1, <1>4, <1>5, <1>6

(* What changing fields of such a record gives. *)
LEMMA FunctionChanged ==
    ASSUME NEW a, NEW x, a = [id |-> a.id, region |-> a.region, public |-> a.public]
    PROVE  [a EXCEPT !.public = x] = [id |-> a.id, region |-> a.region, public |-> x]
  OBVIOUS

LEMMA BalancerChanged ==
    ASSUME NEW a, NEW x, NEW y,
           a = [id |-> a.id, region |-> a.region, scheme |-> a.scheme,
                listeners |-> a.listeners, logged |-> a.logged]
    PROVE  /\ [a EXCEPT !.listeners = x, !.logged = y].id = a.id
           /\ [a EXCEPT !.listeners = x, !.logged = y].scheme = a.scheme
           /\ [a EXCEPT !.listeners = x, !.logged = y].listeners = x
<1>1. DOMAIN a = {"id", "region", "scheme", "listeners", "logged"}
  OBVIOUS
<1> QED BY <1>1

LEMMA FunctionsQuiet ==
    ASSUME NEW A, WellFormed(A), NEW F, NEW regions,
           NEW fn \in CollectLambdaFunctions(A, F, regions), fn.public
    PROVE  \E g \in CollectLambdaFunctions(A, NoFailure, regions) : g.id = fn.id /\ g.public
<1> DEFINE asked(G, a) == [a EXCEPT !.public = Ask(G, "get_function_url_config", a, a.public, FALSE)]
<1>1. PICK a \in Listed(F, "list_functions", A.functions, regions) : fn = asked(F, a)
  BY DEF CollectLambdaFunctions
<1>2. a \in A.functions /\ a = [id |-> a.id, region |-> a.region, public |-> a.public]
  BY <1>1 DEF WellFormed, Listed
<1>3. \A G : asked(G, a) = [id |-> a.id, region |-> a.region,
                    public |-> Ask(G, "get_function_url_config", a, a.public, FALSE)]
  BY <1>2, FunctionChanged
<1>4. fn.id = a.id /\ fn.public = Ask(F, "get_function_url_config", a, a.public, FALSE)
  BY <1>1, <1>3
<1>5. a.public
  BY <1>4 DEF Ask
<1>6. asked(NoFailure, a).id = a.id /\ asked(NoFailure, a).public
  BY <1>3, <1>5, NothingFails DEF Ask
<1>7. asked(NoFailure, a) \in CollectLambdaFunctions(A, NoFailure, regions)
  BY <1>1, ListedAnyway, NothingFails DEF CollectLambdaFunctions
<1> QED BY <1>4, <1>6, <1>7

LEMMA BalancersQuiet ==
    ASSUME NEW A, WellFormed(A), NEW F, NEW regions,
           NEW lb \in CollectLoadBalancers(A, F, regions)
    PROVE  \E c \in CollectLoadBalancers(A, NoFailure, regions) :
              c.id = lb.id /\ c.scheme = lb.scheme /\ lb.listeners \subseteq c.listeners
<1> DEFINE asked(G, a) ==
       [a EXCEPT !.listeners = Ask(G, "describe_listeners", a, a.listeners, {}),
                 !.logged = Ask(G, "describe_load_balancer_attributes", a, a.logged, FALSE)]
<1>1. PICK a \in Listed(F, "describe_load_balancers", A.balancers, regions) : lb = asked(F, a)
  BY DEF CollectLoadBalancers
<1>2. a \in A.balancers /\ a = [id |-> a.id, region |-> a.region, scheme |-> a.scheme,
                                listeners |-> a.listeners, logged |-> a.logged]
  BY <1>1 DEF WellFormed, Listed
<1>3. \A G : /\ asked(G, a).id = a.id /\ asked(G, a).scheme = a.scheme
             /\ asked(G, a).listeners = Ask(G, "describe_listeners", a, a.listeners, {})
  BY <1>2, BalancerChanged
<1>4. lb.id = a.id /\ lb.scheme = a.scheme /\ lb.listeners \subseteq a.listeners
  BY <1>1, <1>3 DEF Ask
<1>5. /\ asked(NoFailure, a).id = a.id /\ asked(NoFailure, a).scheme = a.scheme
      /\ asked(NoFailure, a).listeners = a.listeners
  BY <1>3, NothingFails DEF Ask
<1>6. asked(NoFailure, a) \in CollectLoadBalancers(A, NoFailure, regions)
  BY <1>1, ListedAnyway DEF CollectLoadBalancers
<1> QED BY <1>4, <1>5, <1>6

(* Whatever calls fail in whatever account, none of the quiet rules reports  *)
(* a resource that it does not report when every call is answered.           *)
THEOREM QuietRulesInventNothing ==
    ASSUME NEW A, WellFormed(A), NEW F, NEW regions
    PROVE  NothingInvented(A, F, regions)
<1> DEFINE P == CollectAccountResources(A, F, regions)
           Q == CollectAccountResources(A, NoFailure, regions)
           here == {regions[i] : i \in DOMAIN regions}
<1>p. /\ P.buckets = CollectS3Buckets(A, F) /\ P.groups = CollectSecurityGroups(A, F, here)
      /\ P.users = CollectUsers(A, F) /\ P.policies = CollectPolicies(A, F)
      /\ P.databases = CollectRdsInstances(A, F, here) /\ P.volumes = CollectEbsVolumes(A, F, here)
      /\ P.functions = CollectLambdaFunctions(A, F, here)
      /\ P.logs = CollectCloudwatchLogGroups(A, F, here)
      /\ P.clusters = CollectEksClusters(A, F, here)
      /\ P.registries = CollectEcrRepositories(A, F, here)
      /\ P.balancers = CollectLoadBalancers(A, F, here) /\ P.secrets = CollectSecrets(A, F, here)
  BY DEF CollectAccountResources
<1>q. /\ Q.buckets = CollectS3Buckets(A, NoFailure)
      /\ Q.groups = CollectSecurityGroups(A, NoFailure, here)
      /\ Q.users = CollectUsers(A, NoFailure) /\ Q.policies = CollectPolicies(A, NoFailure)
      /\ Q.databases = CollectRdsInstances(A, NoFailure, here)
      /\ Q.volumes = CollectEbsVolumes(A, NoFailure, here)
      /\ Q.functions = CollectLambdaFunctions(A, NoFailure, here)
      /\ Q.logs = CollectCloudwatchLogGroups(A, NoFailure, here)
      /\ Q.clusters = CollectEksClusters(A, NoFailure, here)
      /\ Q.registries = CollectEcrRepositories(A, NoFailure, here)
      /\ Q.balancers = CollectLoadBalancers(A, NoFailure, here)
      /\ Q.secrets = CollectSecrets(A, NoFailure, here)
  BY DEF CollectAccountResources
<1> HIDE DEF P, Q, here
<1>1. PublicPolicy(P) \subseteq PublicPolicy(Q)
  <2> SUFFICES ASSUME NEW b \in P.buckets, NEW s \in b.statements,
                      s.effect = "Allow", "*" \in s.principals, ~s.has_condition
               PROVE  b.id \in PublicPolicy(Q)
    BY DEF PublicPolicy, Ids
  <2>1. PICK c \in Q.buckets : c.id = b.id /\ b.statements \subseteq c.statements
    BY BucketsQuiet, <1>p, <1>q
  <2> QED BY <2>1 DEF PublicPolicy, Ids
<1>2. UnrestrictedEgress(P) \subseteq UnrestrictedEgress(Q)
  BY <1>p, <1>q, ListedAnyway DEF UnrestrictedEgress, Ids, CollectSecurityGroups
<1>3. AccessKeyTooOld(P) \subseteq AccessKeyTooOld(Q)
  BY <1>p, <1>q, UsersQuiet DEF AccessKeyTooOld, Ids
<1>4. WildcardAction(P) \subseteq WildcardAction(Q)
  <2> SUFFICES ASSUME NEW p \in P.policies, NEW s \in p.statements,
                      s.effect = "Allow", "*" \in s.actions
               PROVE  p.id \in WildcardAction(Q)
    BY DEF WildcardAction, Ids
  <2>1. PICK q \in Q.policies : q.id = p.id /\ p.statements \subseteq q.statements
    BY PoliciesQuiet, <1>p, <1>q
  <2> QED BY <2>1 DEF WildcardAction, Ids
<1>5. RdsNotEncrypted(P) \subseteq RdsNotEncrypted(Q)
  BY <1>p, <1>q, ListedAnyway DEF RdsNotEncrypted, Ids, CollectRdsInstances
<1>6. VolumeUnencrypted(P) \subseteq VolumeUnencrypted(Q)
  BY <1>p, <1>q, ListedAnyway DEF VolumeUnencrypted, Ids, CollectEbsVolumes
<1>7. PublicFunctionUrl(P) \subseteq PublicFunctionUrl(Q)
  BY <1>p, <1>q, FunctionsQuiet DEF PublicFunctionUrl, Ids
<1>8. NoRetention(P) \subseteq NoRetention(Q)
  BY <1>p, <1>q, ListedAnyway DEF NoRetention, CollectCloudwatchLogGroups
<1>9. PublicEndpoint(P) \subseteq PublicEndpoint(Q)
  BY <1>p, <1>q, ListedAnyway, NothingFails DEF PublicEndpoint, Ids, CollectEksClusters
<1>10. MutableImageTags(P) \subseteq MutableImageTags(Q)
  BY <1>p, <1>q, ListedAnyway DEF MutableImageTags, Ids, CollectEcrRepositories
<1>11. PlaintextListener(P) \subseteq PlaintextListener(Q)
  <2> SUFFICES ASSUME NEW lb \in P.balancers, lb.scheme = "internet-facing",
                      lb.listeners \cap {"HTTP", "TCP"} # {}
               PROVE  lb.id \in PlaintextListener(Q)
    BY DEF PlaintextListener, Ids
  <2>1. PICK c \in Q.balancers :
           c.id = lb.id /\ c.scheme = lb.scheme /\ lb.listeners \subseteq c.listeners
    BY BalancersQuiet, <1>p, <1>q
  <2> QED BY <2>1 DEF PlaintextListener, Ids
<1>12. SecretRotationDisabled(P) \subseteq SecretRotationDisabled(Q)
  BY <1>p, <1>q, ListedAnyway DEF SecretRotationDisabled, Ids, CollectSecrets
<1>13. \A rule \in DOMAIN QuietReport(Q) : QuietReport(P)[rule] \subseteq QuietReport(Q)[rule]
  BY <1>1, <1>2, <1>3, <1>4, <1>5, <1>6, <1>7, <1>8, <1>9, <1>10, <1>11, <1>12 DEF QuietReport
<1> QED BY <1>13 DEF NothingInvented, P, Q
=============================================================================
