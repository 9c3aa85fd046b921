--------------------------- MODULE TelemetryRuns ---------------------------
(***************************************************************************)
(* Runtime telemetry of a repository: what CI reports is stored at once,   *)
(* its analysis is a task, and a user may ask for every run again.  An     *)
(* image build is a run without a status; everything else is the same.     *)
(***************************************************************************)
EXTENDS UsageLedger, FiniteSets

CONSTANTS
    Runs,       \* telemetry rows, each of which violates one rule
    Workers,    \* tasks waiting or running at once
    Ops,        \* the kinds of event this instance allows
    MaxOps      \* how many of them may happen

OpKinds == {"run", "build", "again", "lost", "fail", "crash"}

S == INSTANCE StateMachines

VARIABLES
    status,    \* dynamic_status; "none" without a row, "null" for a build
    stored,    \* stored[r]: the tasks whose enrichment of r is in the table
    met,       \* runs two tasks have replaced the enrichment of at once
    task,      \* task[w]: the task in slot w
    request,   \* runs whose tasks were sent and whose status is to be set
    ops        \* counted events so far

telemetryVars == <<status, stored, met, task, request, ops>>
vars == <<used, telemetryVars>>

NoRun == "none"

Task == [stage : {"none", "queued", "checked", "paid", "running", "deleted", "stored"},
         run : Runs \cup {NoRun}, saw : SUBSET Workers]

NoTask == [stage |-> "none", run |-> NoRun, saw |-> {}]

Counted(kind) == kind \in Ops /\ ops < MaxOps /\ ops' = ops + 1

At(w, stage) == task[w].stage = stage

Goes(w, next) == task' = [task EXCEPT ![w] = next]

Stored == {r \in Runs : status[r] # "none"}

(* One task for each run in rs. *)
Send(rs) ==
    \E slot \in [rs -> {w \in Workers : At(w, "none")}] :
      /\ \A r, s \in rs : r # s => slot[r] # slot[s]
      /\ task' = [w \in Workers |->
                    IF \E r \in rs : slot[r] = w
                      THEN [NoTask EXCEPT !.stage = "queued", !.run = CHOOSE r \in rs : slot[r] = w]
                      ELSE task[w]]

Fire(event, r) ==
    status' = [status EXCEPT ![r] = IF @ = "null" THEN @ ELSE S!TryAdvance(S!TelemetryMachine, event, @)]

-----------------------------------------------------------------------------
(* The routes *)

(* The row is committed, then the task is sent: the broker may fail. *)
Ingest(kind, first) ==
    /\ Counted(kind)
    /\ \E r \in Runs \ Stored :
         /\ status' = [status EXCEPT ![r] = first]
         /\ \/ Send({r})
            \/ "lost" \in Ops /\ UNCHANGED task
    /\ UNCHANGED <<used, stored, met, request>>

IngestRun == Ingest("run", "queued")

IngestDockerBuild == Ingest("build", "null")

(* Every run of the repository again: the tasks are sent ... *)
TriggerScan ==
    /\ Counted("again") /\ request = {}
    /\ LET rs == {r \in Stored : status[r] # "null"} IN
         /\ rs # {} /\ Allows(Cardinality(rs))
         /\ Send(rs)
         /\ request' = {r \in rs : status[r] # "queued"}
    /\ UNCHANGED <<used, status, stored, met>>

(* ... and then the rows that were not are queued, whatever they are by now. *)
CommitTrigger ==
    /\ request # {}
    /\ status' = [r \in Runs |-> IF r \in request THEN "queued" ELSE status[r]]
    /\ request' = {}
    /\ UNCHANGED <<used, stored, met, task, ops>>

-----------------------------------------------------------------------------
(* run_dynamic_analysis and run_docker_telemetry_analysis *)

CheckQuota(w) ==
    /\ At(w, "queued")
    /\ Goes(w, IF Allows(1) THEN [task[w] EXCEPT !.stage = "checked"] ELSE NoTask)
    /\ UNCHANGED <<used, status, stored, met, request, ops>>

(* The record is committed on its own, before any work. *)
Pay(w) ==
    /\ At(w, "checked")
    /\ RecordUsage("telemetry", 1)
    /\ Goes(w, [task[w] EXCEPT !.stage = "paid"])
    /\ UNCHANGED <<status, stored, met, request, ops>>

Start(w) ==
    /\ At(w, "paid")
    /\ Fire("started", task[w].run)
    /\ Goes(w, [task[w] EXCEPT !.stage = "running"])
    /\ UNCHANGED <<used, stored, met, request, ops>>

Replacing(r) == {w \in Workers : At(w, "deleted") /\ task[w].run = r}

DeletesNothing(r) == {}

Deleted(r) == stored[r]

(* A delete sees what was committed by then, the insert comes after it. *)
DeleteEnrichments(w) ==
    /\ At(w, "running")
    /\ LET r == task[w].run IN
         /\ Goes(w, [task[w] EXCEPT !.stage = "deleted", !.saw = Deleted(r)])
         /\ met' = IF Replacing(r) = {} THEN met ELSE met \cup {r}
    /\ UNCHANGED <<used, status, stored, request, ops>>

InsertedIfMissing(w, rows) == IF rows = {} THEN {w} ELSE rows \ task[w].saw

Inserted(w, rows) == (rows \ task[w].saw) \cup {w}

InsertEnrichments(w) ==
    /\ At(w, "deleted")
    /\ stored' = [stored EXCEPT ![task[w].run] = Inserted(w, @)]
    /\ Goes(w, [task[w] EXCEPT !.stage = "stored", !.saw = {}])
    /\ UNCHANGED <<used, status, met, request, ops>>

Enrich(w) ==
    /\ At(w, "stored")
    /\ Fire("enrich", task[w].run)
    /\ Goes(w, NoTask)
    /\ UNCHANGED <<used, stored, met, request, ops>>

EnrichFails(w) ==
    /\ At(w, "running") /\ Counted("fail")
    /\ Fire("fail", task[w].run)
    /\ Goes(w, NoTask)
    /\ UNCHANGED <<used, stored, met, request>>

(* The message is delivered again, and charged again. *)
Crash(w) ==
    /\ task[w].stage \notin {"none", "queued"} /\ Counted("crash")
    /\ Goes(w, [NoTask EXCEPT !.stage = "queued", !.run = task[w].run])
    /\ UNCHANGED <<used, status, stored, met, request>>

Stuck == {r \in Runs : status[r] \in {"queued", "running"}}

(* Thirty minutes after it was collected, whatever is working on it. *)
Sweep ==
    /\ Stuck # {}
    /\ \E rs \in SUBSET Stuck \ {{}} :
         status' = [r \in Runs |-> IF r \in rs THEN S!Advance(S!TelemetryMachine, "swept", status[r])
                                              ELSE status[r]]
    /\ UNCHANGED <<used, stored, met, task, request, ops>>

-----------------------------------------------------------------------------

Init ==
    /\ used = Unused
    /\ status = [r \in Runs |-> "none"] /\ stored = [r \in Runs |-> {}] /\ met = {}
    /\ task = [w \in Workers |-> NoTask] /\ request = {}
    /\ ops = 0

Step(w) ==
    \/ CheckQuota(w) \/ Pay(w) \/ Start(w) \/ DeleteEnrichments(w) \/ InsertEnrichments(w)
    \/ Enrich(w) \/ EnrichFails(w) \/ Crash(w)

Next ==
    \/ IngestRun \/ IngestDockerBuild \/ TriggerScan \/ CommitTrigger
    \/ \E w \in Workers : Step(w)
    \/ Sweep

Spec == Init /\ [][Next]_vars

-----------------------------------------------------------------------------
(* Properties *)

(* Every variable has its type. *)
TypeOK ==
    /\ used \in [Engines -> Nat] /\ ops \in Nat
    /\ status \in [Runs -> S!DynamicAnalysisStatus \cup {"none", "null"}]
    /\ stored \in [Runs -> SUBSET Workers] /\ met \subseteq Runs /\ request \subseteq Runs
    /\ task \in [Workers -> Task]

(* A run that says it is enriched has its findings in the table, whatever   *)
(* crashed, was swept or was asked for again on the way; and asking again,   *)
(* or being delivered again, replaces them: there is one copy, unless two    *)
(* tasks replace them at the same time.                                     *)
EnrichedIsStored ==
    \A r \in Runs : /\ status[r] = "enriched" => stored[r] # {}
                    /\ r \notin met => Cardinality(stored[r]) <= 1
=============================================================================
