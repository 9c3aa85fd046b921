------------------------ MODULE EngineTargetsProofs ------------------------
(***************************************************************************)
(* Proofs about EngineTargets, for any number of files, rules, commits,    *)
(* requests and faults.  Last, for every input, what the gates of fix      *)
(* generation let through and which pushes scan a target again.            *)
(***************************************************************************)
EXTENDS EngineTargets, FixGuards, TargetFiles, FiniteSetTheorems, TLAPS

(* What a job of each kind may hold. *)
Shape(a) ==
    /\ a.kind = "none" => a.stage = "queued"
    /\ a.kind = "scan" => a.stage \in {"queued", "locked", "fetched", "reported"}
    /\ a.kind = "generate" => a.stage \in {"asked", "claimed"}
    /\ a.kind = "deliver" => a.stage \in {"queued", "selected", "claimed"}
    /\ a.kind = "generate" /\ a.stage = "claimed" => \E p \in Paths : a.paths = {p}

(* It is about a commit there is, or the head. *)
Shaped(a, commits) == a \in Job /\ Shape(a) /\ a.at <= commits

-----------------------------------------------------------------------------
(* Jobs *)

LEMMA EmptyTree == Empty \in Trees
BY DEF Empty, Trees

LEMMA NoJobIsShaped == ASSUME NEW n \in Nat PROVE Shaped(NoJob, n)
BY EmptyTree DEF NoJob, Shaped, Shape, Job

LEMMA NoJobFields ==
    /\ NoJob \in Job /\ NoJob.kind = "none" /\ NoJob.stage = "queued" /\ NoJob.at = 0
    /\ NoJob.paths = {}
BY EmptyTree DEF NoJob, Job

LEMMA ScanIsShaped ==
    ASSUME NEW n \in Nat, NEW k \in Nat, k <= n PROVE Shaped(ScanOf(k), n)
BY NoJobFields DEF ScanOf, Shaped, Shape, Job

LEMMA StagedIsShaped ==
    ASSUME NEW n \in Nat, NEW a, Shaped(a, n), NEW s,
           \/ a.kind = "scan" /\ s \in {"queued", "locked", "fetched", "reported"}
           \/ a.kind = "deliver" /\ s \in {"queued", "selected", "claimed"}
    PROVE  Shaped([a EXCEPT !.stage = s], n)
<1> DEFINE b == [a EXCEPT !.stage = s]
<1>1. b \in Job BY DEF Shaped, Job
<1>2. b.kind = a.kind /\ b.stage = s /\ b.at = a.at BY DEF Shaped, Job
<1> QED BY <1>1, <1>2 DEF Shaped, Shape

LEMMA SeenIsShaped ==
    ASSUME NEW n \in Nat, NEW a, Shaped(a, n), a.kind = "scan", NEW tree \in Trees
    PROVE  Shaped([a EXCEPT !.stage = "fetched", !.seen = tree], n)
BY DEF Shaped, Shape, Job

LEMMA TriedIsShaped ==
    ASSUME NEW n \in Nat, NEW a, Shaped(a, n), a.stage = "queued"
    PROVE  Shaped([a EXCEPT !.tries = @ + 1], n)
<1> DEFINE b == [a EXCEPT !.tries = @ + 1]
<1>1. b \in Job BY DEF Shaped, Job
<1>2. b.kind = a.kind /\ b.stage = a.stage /\ b.at = a.at /\ b.paths = a.paths BY DEF Shaped, Job
<1> QED BY <1>1, <1>2 DEF Shaped, Shape

LEMMA AgainIsShaped ==
    ASSUME NEW n \in Nat, NEW a, Shaped(a, n), a.kind \in {"scan", "deliver"}
    PROVE  /\ Shaped([a EXCEPT !.stage = "queued", !.tries = @ + 1], n)
           /\ [a EXCEPT !.stage = "queued", !.tries = @ + 1].kind = a.kind
           /\ [a EXCEPT !.stage = "queued", !.tries = @ + 1].stage = "queued"
<1> DEFINE t == a.tries + 1
<1>1. t \in Nat BY DEF Shaped, Job
<1> HIDE DEF t
<1>2. Shaped([a EXCEPT !.stage = "queued", !.tries = t], n) BY <1>1 DEF Shaped, Shape, Job
<1>3. /\ [a EXCEPT !.stage = "queued", !.tries = t].kind = a.kind
      /\ [a EXCEPT !.stage = "queued", !.tries = t].stage = "queued"
  BY DEF Shaped, Job
<1> QED BY <1>2, <1>3 DEF t

LEMMA ForgetfulIsShaped ==
    ASSUME NEW n \in Nat, NEW a, Shaped(a, n), a.kind \in {"scan", "deliver"}
    PROVE  Shaped([a EXCEPT !.stage = "queued", !.seen = Empty, !.paths = {}], n)
BY EmptyTree DEF Shaped, Shape, Job

LEMMA ReselectedIsShaped ==
    ASSUME NEW n \in Nat, NEW a, Shaped(a, n), a.kind = "deliver", a.stage = "queued",
           NEW paths \in SUBSET Paths
    PROVE  Shaped([a EXCEPT !.stage = "selected", !.paths = paths], n)
BY DEF Shaped, Shape, Job

LEMMA UnselectedIsShaped ==
    ASSUME NEW n \in Nat, NEW a, Shaped(a, n), a.kind = "none" \/ (a.kind = "deliver" /\ a.stage # "claimed")
    PROVE  Shaped([a EXCEPT !.paths = {}], n)
BY DEF Shaped, Shape, Job

LEMMA RequestIsShaped ==
    ASSUME NEW n \in Nat, NEW paths \in SUBSET Paths, NEW fresh \in SUBSET Paths,
           NEW bare \in SUBSET Paths
    PROVE  Shaped([NoJob EXCEPT !.kind = "generate", !.stage = "asked", !.paths = paths,
                                !.fresh = fresh, !.bare = bare], n)
<1> DEFINE b == [NoJob EXCEPT !.kind = "generate", !.stage = "asked", !.paths = paths,
                              !.fresh = fresh, !.bare = bare]
<1>1. b \in Job BY NoJobFields DEF Job
<1>2. b.kind = "generate" /\ b.stage = "asked" /\ b.at = 0 BY NoJobFields DEF Job
<1> QED BY <1>1, <1>2 DEF Shaped, Shape

LEMMA WorkerIsShaped ==
    ASSUME NEW n \in Nat, NEW p \in Paths, NEW bare \in SUBSET Paths
    PROVE  Shaped([NoJob EXCEPT !.kind = "generate", !.stage = "claimed", !.paths = {p},
                                !.bare = bare], n)
<1> DEFINE one == {p}
           b == [NoJob EXCEPT !.kind = "generate", !.stage = "claimed", !.paths = one,
                              !.bare = bare]
<1>1. one \in SUBSET Paths OBVIOUS
<1> HIDE DEF one
<1>2. b \in Job BY <1>1, NoJobFields DEF Job
<1>3. b.kind = "generate" /\ b.stage = "claimed" /\ b.at = 0 /\ b.paths = one
  BY NoJobFields DEF Job
<1> HIDE DEF b
<1>4. Shaped(b, n) BY <1>2, <1>3 DEF Shaped, Shape, one
<1> QED BY <1>4 DEF b, one

LEMMA DeliveryIsShaped ==
    ASSUME NEW n \in Nat, NEW force \in BOOLEAN
    PROVE  Shaped([NoJob EXCEPT !.kind = "deliver", !.force = force], n)
<1> DEFINE b == [NoJob EXCEPT !.kind = "deliver", !.force = force]
<1>1. b \in Job BY NoJobFields DEF Job
<1>2. b.kind = "deliver" /\ b.stage = "queued" /\ b.at = 0 BY NoJobFields DEF Job
<1> QED BY <1>1, <1>2 DEF Shaped, Shape

LEMMA OlderIsShaped ==
    ASSUME NEW m \in Nat, NEW n \in Nat, m <= n, NEW a, Shaped(a, m)
    PROVE  Shaped(a, n)
<1>1. a.at \in Nat BY DEF Shaped, Job
<1> QED BY <1>1 DEF Shaped

-----------------------------------------------------------------------------
(* Types *)

JobsShaped == job \in [Jobs -> Job] /\ \A j \in Jobs : Shaped(job[j], Len(log))

Typed == TypeOK /\ JobsShaped

LEMMA InitTyped == ASSUME Init PROVE Typed
<1>1. PICK tree \in Trees : log = <<tree>> BY DEF Init
<1>2. log \in Seq(Trees) /\ Len(log) = 1 BY <1>1
<1>3. \A j \in Jobs : Shaped(job[j], Len(log)) BY <1>2, NoJobIsShaped DEF Init
<1>4. job \in [Jobs -> Job] BY NoJobFields DEF Init
<1>5. /\ finding \in [Paths -> [Rules -> Finding]] /\ fix \in [Paths -> Fix]
      /\ queue \in [Paths -> [Evidence -> Nat]] /\ scan \in Scan
  BY EmptyTree DEF Init, NoFinding, Finding, NoFix, Fix, FixStatus, Scan
<1>6. target = "on" /\ pr = "none" /\ used = 0 /\ paid = 0 /\ calls = 0 /\ lock = FALSE /\ ops = 0 /\ faults = 0
  BY DEF Init
<1>7. {used, paid, calls} \subseteq Nat /\ {ops, faults} \subseteq Nat BY <1>6
<1>8. lock \in BOOLEAN BY <1>6
<1> QED BY <1>2, <1>3, <1>4, <1>5, <1>6, <1>7, <1>8 DEF Typed, TypeOK, JobsShaped

LEMMA OneJob ==
    ASSUME Typed, NEW j \in Jobs, NEW b, Shaped(b, Len(log)), log' = log,
           job' = [job EXCEPT ![j] = b]
    PROVE  JobsShaped'
BY DEF Typed, JobsShaped, Shaped

LEMMA Lengths == ASSUME Typed PROVE Len(log) \in Nat
BY DEF Typed, TypeOK

LEMMA Ended == ASSUME Typed, NEW j \in Jobs, End(j), log' = log PROVE JobsShaped'
BY Lengths, OneJob, NoJobIsShaped DEF End

LEMMA Enqueued ==
    ASSUME Typed, NEW b, Shaped(b, Len(log)), Enqueue(b), log' = log
    PROVE  JobsShaped'
BY OneJob DEF Enqueue

LEMMA TreeIsRead ==
    ASSUME Typed, NEW j \in Jobs PROVE TreeOf(j) \in Trees
<1>1. log \in Seq(Trees) /\ Len(log) > 0 /\ job[j].at \in Nat /\ job[j].at <= Len(log)
  BY DEF Typed, TypeOK, JobsShaped, Shaped, Job
<1>2. \A i \in 1..Len(log) : log[i] \in Trees BY <1>1
<1> QED BY <1>1, <1>2 DEF TreeOf, Tree

LEMMA ScanJobs == ASSUME Typed, NEW j \in Jobs, ScanStep(j) PROVE JobsShaped'
<1> DEFINE n == Len(log)
<1>1. n \in Nat /\ Shaped(job[j], n) BY Lengths DEF Typed, JobsShaped
<1>2. log' = log
  BY DEF ScanStep, Acquire, Busy, Refused, Fetch, FetchFails, NoTargets, AnalysisSucceeds,
         AnalysisFails, ResolveStale
<1>3. CASE Acquire(j)
  <2>1. Shaped([job[j] EXCEPT !.stage = "locked"], n)
    BY <1>1, <1>3, StagedIsShaped DEF Acquire, At
  <2> QED BY <1>2, <1>3, <2>1, OneJob DEF Acquire
<1>4. CASE Busy(j)
  <2>1. Shaped([job[j] EXCEPT !.tries = @ + 1], n) BY <1>1, <1>4, TriedIsShaped DEF Busy, At
  <2>2. Shaped(Later(j), n) BY <1>1, <2>1, NoJobIsShaped DEF Later
  <2> QED BY <1>2, <1>4, <2>2, OneJob DEF Busy
<1>5. CASE Fetch(j)
  <2>1. Shaped([job[j] EXCEPT !.stage = "fetched", !.seen = TreeOf(j)], n)
    BY <1>1, <1>5, TreeIsRead, SeenIsShaped DEF Fetch, At
  <2> QED BY <1>2, <1>5, <2>1, OneJob DEF Fetch
<1>6. CASE FetchFails(j)
  <2>1. Shaped(Again(j), n)
    BY <1>1, <1>6, AgainIsShaped, NoJobIsShaped DEF Again, FetchFails, At
  <2> QED BY <1>2, <1>6, <2>1, OneJob DEF FetchFails, Leave
<1>7. CASE AnalysisSucceeds(j)
  <2>1. Shaped([job[j] EXCEPT !.stage = "reported"], n)
    BY <1>1, <1>7, StagedIsShaped DEF AnalysisSucceeds, At
  <2> QED BY <1>2, <1>7, <2>1, OneJob DEF AnalysisSucceeds
<1>8. CASE Refused(j) \/ NoTargets(j) \/ AnalysisFails(j) \/ ResolveStale(j)
  <2>1. job' = [job EXCEPT ![j] = NoJob]
    BY <1>8 DEF Refused, NoTargets, AnalysisFails, ResolveStale, Leave
  <2> QED BY <1>1, <1>2, <2>1, OneJob, NoJobIsShaped
<1> QED BY <1>3, <1>4, <1>5, <1>6, <1>7, <1>8 DEF ScanStep

LEMMA GenerateJobs == ASSUME Typed, NEW j \in Jobs, GenerateStep(j) PROVE JobsShaped'
<1> DEFINE n == Len(log)
<1>1. n \in Nat BY Lengths
<1>2. log' = log
  BY DEF GenerateStep, QueueFileFixes, QueueConflicts, Claim, NotGenerated, Generated
<1>3. ASSUME NEW p \in Paths, NEW named \in Evidence, Claim(j, p, named) PROVE JobsShaped'
  <2> DEFINE bare == IF named = "measured" THEN {p} ELSE {}
             b == [NoJob EXCEPT !.kind = "generate", !.stage = "claimed", !.paths = {p},
                                !.bare = bare]
  <2>1. bare \in SUBSET Paths OBVIOUS
  <2>2. job' = [job EXCEPT ![j] = b] BY <1>3 DEF Claim
  <2> HIDE DEF bare
  <2>3. Shaped(b, n) BY <1>1, <2>1, WorkerIsShaped
  <2> HIDE DEF b
  <2> QED BY <1>2, <2>2, <2>3, OneJob
<1>4. CASE QueueFileFixes(j) \/ QueueConflicts(j) \/ \E p \in Paths : NotGenerated(j, p) \/ Generated(j, p)
  <2>1. End(j) BY <1>4 DEF QueueFileFixes, QueueConflicts, NotGenerated, Generated
  <2> QED BY <1>2, <2>1, Ended
<1> QED BY <1>3, <1>4 DEF GenerateStep

LEMMA DeliverJobs == ASSUME Typed, NEW j \in Jobs, DeliverStep(j) PROVE JobsShaped'
<1> DEFINE n == Len(log)
<1>1. n \in Nat /\ Shaped(job[j], n) BY Lengths DEF Typed, JobsShaped
<1>2. log' = log
  BY DEF DeliverStep, Select, DeliveryFetchFails, ClaimDelivery, Delivered, NotDelivered, DeliveryEnds
<1>3. CASE Select(j)
  <2>1. Selected(j) \in SUBSET Paths BY DEF Selected
  <2>2. Shaped([job[j] EXCEPT !.stage = "selected", !.paths = Selected(j)], n)
    BY <1>1, <1>3, <2>1, ReselectedIsShaped DEF Select, At
  <2> QED BY <1>1, <1>2, <1>3, <2>2, OneJob, NoJobIsShaped DEF Select
<1>4. CASE DeliveryFetchFails(j)
  <2>1. Shaped(Again(j), n) /\ (Again(j).kind = "none" \/ (Again(j).kind = "deliver" /\ Again(j).stage # "claimed"))
    BY <1>1, <1>4, AgainIsShaped, NoJobIsShaped, NoJobFields DEF Again, DeliveryFetchFails, At
  <2>2. Shaped([Again(j) EXCEPT !.paths = {}], n) BY <1>1, <2>1, UnselectedIsShaped
  <2> QED BY <1>2, <1>4, <2>2, OneJob DEF DeliveryFetchFails
<1>5. CASE ClaimDelivery(j)
  <2>1. Shaped([job[j] EXCEPT !.stage = "claimed"], n)
    BY <1>1, <1>5, StagedIsShaped DEF ClaimDelivery, At
  <2> QED BY <1>2, <1>5, <2>1, OneJob DEF ClaimDelivery
<1>6. CASE Delivered(j) \/ NotDelivered(j)
  BY <1>2, <1>6, Ended DEF Delivered, NotDelivered, DeliveryEnds
<1> QED BY <1>3, <1>4, <1>5, <1>6 DEF DeliverStep

LEMMA FaultJobs == ASSUME Typed, NEW j \in Jobs, LosesTarget(j) \/ Crash(j) PROVE JobsShaped'
<1>1. Len(log) \in Nat /\ Shaped(job[j], Len(log)) BY Lengths DEF Typed, JobsShaped
<1>2. log' = log BY DEF LosesTarget, Crash
<1>3. CASE LosesTarget(j) BY <1>2, <1>3, Ended DEF LosesTarget
<1>4. CASE Crash(j) /\ ~End(j)
  <2>1. job[j].kind \in {"scan", "deliver"} BY <1>4 DEF Crash, Scanning
  <2>2. Shaped([job[j] EXCEPT !.stage = "queued", !.seen = Empty, !.paths = {}], Len(log))
    BY <1>1, <2>1, ForgetfulIsShaped
  <2> QED BY <1>2, <1>4, <2>2, OneJob DEF Crash
<1>5. CASE End(j) BY <1>2, <1>5, Ended
<1> QED BY <1>3, <1>4, <1>5

LEMMA AskedJob ==
    ASSUME NEW files \in SUBSET Paths, RequestFixes(files)
    PROVE  \E paths \in SUBSET Paths, fresh \in SUBSET Paths, bare \in SUBSET Paths :
             Enqueue([NoJob EXCEPT !.kind = "generate", !.stage = "asked", !.paths = paths,
                                   !.fresh = fresh, !.bare = bare])
<1>1. PICK force \in BOOLEAN :
        LET paths == {p \in files : Eligible(p, force)} IN
        Enqueue([NoJob EXCEPT !.kind = "generate", !.stage = "asked", !.paths = paths,
                              !.fresh = {p \in paths : fix[p].status = "none"},
                              !.bare = paths \ OpenFiles])
  BY DEF RequestFixes
<1> DEFINE paths == {p \in files : Eligible(p, force)}
           fresh == {p \in paths : fix[p].status = "none"}
           bare == paths \ OpenFiles
<1>2. paths \in SUBSET Paths /\ fresh \in SUBSET Paths /\ bare \in SUBSET Paths OBVIOUS
<1>3. Enqueue([NoJob EXCEPT !.kind = "generate", !.stage = "asked", !.paths = paths,
                            !.fresh = fresh, !.bare = bare])
  BY <1>1
<1> HIDE DEF paths, fresh, bare
<1> QED BY <1>2, <1>3

LEMMA RequestJobs == ASSUME Typed, Request PROVE JobsShaped'
<1> DEFINE n == Len(log)
<1>1. n \in Nat BY Lengths
<1>2. CASE Push
  <2>1. PICK tree \in Trees : log' = Append(log, tree) BY <1>2 DEF Push
  <2>2. Len(log') = n + 1 BY <2>1 DEF Typed, TypeOK
  <2> HIDE DEF n
  <2>3. \A j \in Jobs : Shaped(job[j], n + 1)
    <3> SUFFICES ASSUME NEW j \in Jobs PROVE Shaped(job[j], n + 1) OBVIOUS
    <3>1. Shaped(job[j], n) BY DEF Typed, JobsShaped, n
    <3>2. n + 1 \in Nat /\ n <= n + 1 BY <1>1
    <3> QED BY <1>1, <3>1, <3>2, OlderIsShaped
  <2>4. Shaped(ScanOf(n + 1), n + 1)
    <3>1. n + 1 \in Nat /\ n + 1 <= n + 1 BY <1>1
    <3> QED BY <3>1, ScanIsShaped
  <2>5. UNCHANGED job \/ \E j \in Jobs : job' = [job EXCEPT ![j] = ScanOf(n + 1)]
    BY <1>2 DEF Push, Enqueue, n
  <2>6. \A j \in Jobs : Shaped(job'[j], n + 1)
    BY <2>3, <2>4, <2>5 DEF Typed, TypeOK
  <2>7. job' \in [Jobs -> Job] BY <2>4, <2>5 DEF Typed, TypeOK, Shaped
  <2> QED BY <2>2, <2>6, <2>7 DEF JobsShaped
<1>3. CASE TriggerTargetScan \/ TriggerCodeScanningScans
  <2>1. Enqueue(ScanOf(0)) /\ log' = log BY <1>3 DEF TriggerTargetScan, TriggerCodeScanningScans
  <2>2. Shaped(ScanOf(0), Len(log)) BY <1>1, ScanIsShaped
  <2> QED BY <2>1, <2>2, Enqueued
<1>4. CASE UpdateTarget \/ DeleteTarget \/ SetFindingIgnored \/ PullRequestMoves
  BY <1>4 DEF UpdateTarget, DeleteTarget, SetFindingIgnored, PullRequestMoves, Typed, JobsShaped
<1>5. ASSUME NEW files \in SUBSET Paths, RequestFixes(files) PROVE JobsShaped'
  <2>1. PICK paths \in SUBSET Paths, fresh \in SUBSET Paths, bare \in SUBSET Paths :
          Enqueue([NoJob EXCEPT !.kind = "generate", !.stage = "asked", !.paths = paths,
                                !.fresh = fresh, !.bare = bare])
    BY <1>5, AskedJob
  <2> DEFINE b == [NoJob EXCEPT !.kind = "generate", !.stage = "asked", !.paths = paths,
                                !.fresh = fresh, !.bare = bare]
  <2>2. Shaped(b, Len(log)) BY <1>1, RequestIsShaped
  <2>3. Enqueue(b) /\ log' = log BY <1>5, <2>1 DEF RequestFixes
  <2> HIDE DEF b
  <2> QED BY <2>2, <2>3, Enqueued
<1>6. CASE GenerateTargetFixes \/ GenerateRuntimeFixes
  <2>1. OpenFiles \in SUBSET Paths BY DEF OpenFiles
  <2> QED BY <1>5, <1>6, <2>1 DEF GenerateTargetFixes, GenerateRuntimeFixes
<1>7. CASE DeliverTargetFixes
  <2>1. PICK force \in BOOLEAN : Enqueue([NoJob EXCEPT !.kind = "deliver", !.force = force])
    BY <1>7 DEF DeliverTargetFixes
  <2> DEFINE b == [NoJob EXCEPT !.kind = "deliver", !.force = force]
  <2>2. Shaped(b, Len(log)) BY <1>1, DeliveryIsShaped
  <2>3. Enqueue(b) /\ log' = log BY <1>7, <2>1 DEF DeliverTargetFixes
  <2> HIDE DEF b
  <2> QED BY <2>2, <2>3, Enqueued
<1> QED BY <1>2, <1>3, <1>4, <1>6, <1>7 DEF Request
RowTypes ==
    /\ scan \in Scan /\ finding \in [Paths -> [Rules -> Finding]] /\ fix \in [Paths -> Fix]
    /\ queue \in [Paths -> [Evidence -> Nat]]

LEMMA Statuses ==
    ASSUME NEW f \in Fix, NEW s \in FixStatus PROVE [f EXCEPT !.status = s] \in Fix
BY DEF Fix

LEMMA FlaggedFinding ==
    ASSUME NEW f \in Finding, NEW b \in BOOLEAN, NEW s \in {"none", "open", "resolved", "ignored"}
    PROVE  /\ [f EXCEPT !.open = b, !.status = s] \in Finding
           /\ [f EXCEPT !.linked = b] \in Finding /\ [f EXCEPT !.manual = b] \in Finding
           /\ [f EXCEPT !.status = s] \in Finding
BY DEF Finding

LEMMA ReopenedFinding == ASSUME NEW f \in Finding PROVE Reopened(f) \in Finding
<1> DEFINE s == IF f.status = "none" THEN "open" ELSE f.status
<1>1. s \in {"none", "open", "resolved", "ignored"} BY DEF Finding
<1>2. Reopened(f) = [f EXCEPT !.open = TRUE, !.status = s] BY DEF Reopened
<1> HIDE DEF s
<1>3. [f EXCEPT !.open = TRUE, !.status = s] \in Finding BY <1>1 DEF Finding
<1> QED BY <1>2, <1>3

LEMMA FindingEvents ==
    ASSUME NEW f \in Finding, NEW event \in {"resolve", "ignore", "unignore"}
    PROVE  /\ S!TryAdvance(FindingMachine, event, f.status) \in {"none", "open", "resolved", "ignored"}
           /\ S!Can(FindingMachine, event, f.status) =>
                S!Advance(FindingMachine, event, f.status) \in {"none", "open", "resolved", "ignored"}
<1>1. f.status \in {"none", "open", "resolved", "ignored"} BY DEF Finding
<1>2. /\ FindingMachine["resolve"] = [s \in {"open"} |-> "resolved"]
      /\ FindingMachine["ignore"] = [s \in {"open"} |-> "ignored"]
      /\ FindingMachine["unignore"] = [s \in {"ignored"} |-> "open"]
      /\ DOMAIN FindingMachine = {"resolve", "ignore", "unignore"}
  BY DEF FindingMachine
<1>3. CASE event = "resolve" BY <1>1, <1>2, <1>3 DEF S!TryAdvance, S!Can, S!Advance
<1>4. CASE event = "ignore" BY <1>1, <1>2, <1>4 DEF S!TryAdvance, S!Can, S!Advance
<1>5. CASE event = "unignore" BY <1>1, <1>2, <1>5 DEF S!TryAdvance, S!Can, S!Advance
<1> QED BY <1>3, <1>4, <1>5

LEMMA ResolvedFinding == ASSUME NEW f \in Finding PROVE Resolved(f) \in Finding
<1> DEFINE s == S!TryAdvance(FindingMachine, "resolve", f.status)
<1>1. s \in {"none", "open", "resolved", "ignored"} BY FindingEvents
<1>2. Resolved(f) = IF f.open THEN [f EXCEPT !.open = FALSE, !.status = s] ELSE f
  BY DEF Resolved
<1> HIDE DEF s
<1> QED BY <1>1, <1>2, FlaggedFinding

LEMMA SentIsTyped ==
    ASSUME Typed, NEW j \in Jobs, NEW paths \in SUBSET Paths, Sent(j, paths)
    PROVE  queue' \in [Paths -> [Evidence -> Nat]]
<1>1. queue \in [Paths -> [Evidence -> Nat]] BY DEF Typed, TypeOK
<1>2. \A p \in Paths : NamedBy(j, p) \in Evidence BY DEF NamedBy, Evidence
<1>3. \A p \in Paths : [queue[p] EXCEPT ![NamedBy(j, p)] = @ + 1] \in [Evidence -> Nat]
  BY <1>1, <1>2
<1> QED BY <1>1, <1>3 DEF Sent

LEMMA ConsumedIsTyped ==
    ASSUME Typed, NEW p \in Paths, NEW named \in Evidence, queue[p][named] > 0, Consumed(p, named)
    PROVE  queue' \in [Paths -> [Evidence -> Nat]]
<1>1. queue[p] \in [Evidence -> Nat] /\ queue \in [Paths -> [Evidence -> Nat]] BY DEF Typed, TypeOK
<1>2. queue[p][named] - 1 \in Nat BY <1>1
<1>3. queue' = [queue EXCEPT ![p] = [queue[p] EXCEPT ![named] = queue[p][named] - 1]]
  BY DEF Consumed
<1> QED BY <1>1, <1>2, <1>3

LEMMA FixStatusSet ==
    ASSUME Typed, NEW p \in Paths, NEW s \in FixStatus, fix' = [fix EXCEPT ![p].status = s]
    PROVE  fix' \in [Paths -> Fix]
<1>1. fix \in [Paths -> Fix] BY DEF Typed, TypeOK
<1>2. [fix[p] EXCEPT !.status = s] \in Fix BY <1>1, Statuses
<1> QED BY <1>1, <1>2

LEMMA FixStatusesSet ==
    ASSUME Typed, NEW paths, NEW s \in FixStatus,
           fix' = [p \in Paths |-> IF p \in paths THEN [fix[p] EXCEPT !.status = s] ELSE fix[p]]
    PROVE  fix' \in [Paths -> Fix]
<1>1. fix \in [Paths -> Fix] BY DEF Typed, TypeOK
<1>2. \A p \in Paths : [fix[p] EXCEPT !.status = s] \in Fix BY <1>1, Statuses
<1> QED BY <1>1, <1>2

LEMMA ScanRows == ASSUME Typed, NEW j \in Jobs, ScanStep(j) PROVE RowTypes'
<1>1. RowTypes /\ job[j].seen \in Trees BY DEF Typed, TypeOK, RowTypes, Job
<1>2. CASE Acquire(j) \/ Busy(j) \/ Refused(j) \/ Fetch(j) \/ FetchFails(j)
  BY <1>1, <1>2 DEF Acquire, Busy, Refused, Fetch, FetchFails, RowTypes
<1>3. CASE NoTargets(j) \/ AnalysisFails(j)
  BY <1>1, <1>3, EmptyTree DEF NoTargets, AnalysisFails, RowTypes, Scan
<1>4. CASE AnalysisSucceeds(j)
  BY <1>1, <1>4, ReopenedFinding DEF AnalysisSucceeds, PersistFindings, RowTypes, Scan
<1>5. CASE ResolveStale(j)
  BY <1>1, <1>5, ResolvedFinding DEF ResolveStale, RowTypes
<1> QED BY <1>2, <1>3, <1>4, <1>5 DEF ScanStep

LEMMA GenerateRows == ASSUME Typed, NEW j \in Jobs, GenerateStep(j) PROVE RowTypes'
<1>1. RowTypes /\ job[j].paths \in SUBSET Paths BY DEF Typed, TypeOK, RowTypes, Job
<1>2. CASE QueueFileFixes(j)
  <2>1. [status |-> "pending", content |-> FALSE] \in Fix BY DEF Fix, FixStatus
  <2>2. fix' \in [Paths -> Fix] BY <1>1, <1>2, <2>1 DEF QueueFileFixes, RowTypes
  <2>3. \A p \in Paths : \A r \in Rules : [finding[p][r] EXCEPT !.linked = TRUE] \in Finding
    <3>1. \A f \in Finding : [f EXCEPT !.linked = TRUE] \in Finding BY DEF Finding
    <3> QED BY <1>1, <3>1 DEF RowTypes
  <2>4. finding' \in [Paths -> [Rules -> Finding]] BY <1>1, <1>2, <2>3 DEF QueueFileFixes, RowTypes
  <2>5. queue' \in [Paths -> [Evidence -> Nat]]
    BY <1>1, <1>2, SentIsTyped DEF QueueFileFixes, Dispatch, RowTypes
  <2> QED BY <1>1, <1>2, <2>2, <2>4, <2>5 DEF QueueFileFixes, RowTypes
<1>3. CASE QueueConflicts(j) BY <1>1, <1>3 DEF QueueConflicts, RowTypes
<1>4. ASSUME NEW p \in Paths, NEW named \in Evidence, Claim(j, p, named) PROVE RowTypes'
  <2>1. fix' \in [Paths -> Fix] BY <1>4, FixStatusSet DEF Claim, FixStatus
  <2>2. queue' \in [Paths -> [Evidence -> Nat]] BY <1>4, ConsumedIsTyped DEF Claim
  <2> QED BY <1>1, <1>4, <2>1, <2>2 DEF Claim, RowTypes
<1>5. ASSUME NEW p \in Paths, NotGenerated(j, p) PROVE RowTypes'
  <2>1. fix' \in [Paths -> Fix] BY <1>5, FixStatusSet DEF NotGenerated, FixStatus
  <2> QED BY <1>1, <1>5, <2>1 DEF NotGenerated, RowTypes
<1>6. ASSUME NEW p \in Paths, Generated(j, p) PROVE RowTypes'
  <2>1. CASE fix' = [fix EXCEPT ![p].status = "failed"] /\ UNCHANGED finding
    <3>1. fix' \in [Paths -> Fix] BY <2>1, FixStatusSet DEF FixStatus
    <3> QED BY <1>1, <1>6, <2>1, <3>1 DEF Generated, RowTypes
  <2>2. CASE fix' = [fix EXCEPT ![p] = [status |-> "ready", content |-> TRUE]]
    <3>1. fix' \in [Paths -> Fix] BY <1>1, <2>2 DEF RowTypes, Fix, FixStatus
    <3>2. \A r \in Rules : finding[p][r] \in Finding BY <1>1 DEF RowTypes
    <3>3. ASSUME NEW unfixed, finding' = [finding EXCEPT ![p] =
                    [r \in Rules |-> IF r \in Group(j, p)
                                       THEN [finding[p][r] EXCEPT !.manual = r \in unfixed]
                                       ELSE finding[p][r]]]
          PROVE  finding' \in [Paths -> [Rules -> Finding]]
      <4> DEFINE new(r) == IF r \in Group(j, p)
                             THEN [finding[p][r] EXCEPT !.manual = r \in unfixed]
                             ELSE finding[p][r]
      <4>1. ASSUME NEW r \in Rules PROVE new(r) \in Finding
        <5>1. (r \in unfixed) \in BOOLEAN OBVIOUS
        <5>2. [finding[p][r] EXCEPT !.manual = r \in unfixed] \in Finding
          BY <3>2, <5>1, FlaggedFinding, Zenon
        <5> QED BY <3>2, <5>2, Zenon
      <4>2. finding' = [finding EXCEPT ![p] = [r \in Rules |-> new(r)]] BY <3>3
      <4> HIDE DEF new
      <4> QED BY <1>1, <4>1, <4>2 DEF RowTypes
    <3>5. finding' \in [Paths -> [Rules -> Finding]]
      BY <1>1, <1>6, <3>3 DEF Generated, RowTypes
    <3> QED BY <1>1, <1>6, <3>1, <3>5 DEF Generated, RowTypes
  <2> QED BY <1>6, <2>1, <2>2 DEF Generated
<1> QED BY <1>2, <1>3, <1>4, <1>5, <1>6 DEF GenerateStep

LEMMA DeliverRows == ASSUME Typed, NEW j \in Jobs, DeliverStep(j) PROVE RowTypes'
<1>1. RowTypes BY DEF Typed, TypeOK, RowTypes
<1>2. CASE Select(j) \/ DeliveryFetchFails(j)
  BY <1>1, <1>2 DEF Select, DeliveryFetchFails, RowTypes
<1>3. ASSUME NEW s \in FixStatus, DeliveryEnds(j, s) PROVE RowTypes'
  <2>1. fix' \in [Paths -> Fix] BY <1>3, FixStatusesSet DEF DeliveryEnds
  <2> QED BY <1>1, <1>3, <2>1 DEF DeliveryEnds, RowTypes
<1>4. CASE ClaimDelivery(j)
  <2>1. fix' \in [Paths -> Fix] BY <1>4, FixStatusesSet DEF ClaimDelivery, FixStatus
  <2> QED BY <1>1, <1>4, <2>1 DEF ClaimDelivery, RowTypes
<1> QED BY <1>2, <1>3, <1>4 DEF DeliverStep, Delivered, NotDelivered, FixStatus

LEMMA RequestRows == ASSUME Typed, Request PROVE RowTypes'
<1>1. RowTypes BY DEF Typed, TypeOK, RowTypes
<1>2. CASE Push \/ TriggerTargetScan \/ TriggerCodeScanningScans \/ UpdateTarget \/ DeliverTargetFixes
           \/ PullRequestMoves \/ GenerateTargetFixes \/ GenerateRuntimeFixes
  BY <1>1, <1>2 DEF Push, TriggerTargetScan, TriggerCodeScanningScans, UpdateTarget, DeliverTargetFixes,
                    PullRequestMoves, GenerateTargetFixes, GenerateRuntimeFixes, RequestFixes, RowTypes
<1>3. CASE DeleteTarget
  BY <1>1, <1>3, EmptyTree DEF DeleteTarget, RowTypes, Scan, NoFinding, Finding, NoFix, Fix, FixStatus
<1>4. CASE SetFindingIgnored
  <2>1. PICK p \in Paths, r \in Rules, event \in {"ignore", "unignore"} :
          /\ S!Can(FindingMachine, event, finding[p][r].status)
          /\ finding' = [finding EXCEPT ![p][r].status = S!Advance(FindingMachine, event, @)]
    BY <1>4 DEF SetFindingIgnored
  <2> DEFINE f == finding[p][r]
             s == S!Advance(FindingMachine, event, f.status)
  <2>2. f \in Finding BY <1>1 DEF RowTypes
  <2>3. s \in {"none", "open", "resolved", "ignored"} BY <2>1, <2>2, FindingEvents
  <2>4. finding' = [finding EXCEPT ![p] = [finding[p] EXCEPT ![r] = [f EXCEPT !.status = s]]]
    BY <2>1
  <2> HIDE DEF f, s
  <2>5. [f EXCEPT !.status = s] \in Finding BY <2>2, <2>3, FlaggedFinding
  <2>6. finding' \in [Paths -> [Rules -> Finding]] BY <1>1, <2>4, <2>5 DEF RowTypes
  <2> QED BY <1>1, <1>4, <2>6 DEF SetFindingIgnored, RowTypes
<1> QED BY <1>2, <1>3, <1>4 DEF Request

LEMMA OtherRows ==
    ASSUME Typed,
           \/ \E j \in Jobs : LosesTarget(j) \/ Crash(j)
           \/ \E p \in Paths : EvidenceSwept(p) \/ \E named \in Evidence : Skip(p, named)
           \/ Expire \/ UNCHANGED vars
    PROVE  RowTypes'
<1>1. RowTypes BY DEF Typed, TypeOK, RowTypes
<1>2. ASSUME NEW j \in Jobs, LosesTarget(j) PROVE RowTypes' BY <1>1, <1>2 DEF LosesTarget, RowTypes
<1>3. ASSUME NEW j \in Jobs, Crash(j) PROVE RowTypes'
  <2>1. job[j].paths \in SUBSET Paths BY DEF Typed, TypeOK, Job
  <2>2. queue' = queue \/ Sent(j, job[j].paths) BY <1>3 DEF Crash, Dispatch
  <2>3. queue' \in [Paths -> [Evidence -> Nat]] BY <1>1, <2>1, <2>2, SentIsTyped DEF RowTypes
  <2> QED BY <1>1, <1>3, <2>3 DEF Crash, RowTypes
<1>4. ASSUME NEW p \in Paths, EvidenceSwept(p) \/ \E named \in Evidence : Skip(p, named) PROVE RowTypes'
  <2>1. queue' \in [Paths -> [Evidence -> Nat]]
    BY <1>4, ConsumedIsTyped DEF EvidenceSwept, Skip, Evidence
  <2> QED BY <1>1, <1>4, <2>1 DEF EvidenceSwept, Skip, RowTypes
<1>5. CASE Expire \/ UNCHANGED vars BY <1>1, <1>5 DEF Expire, vars, RowTypes
<1> QED BY <1>2, <1>3, <1>4, <1>5
Scalars ==
    /\ log \in Seq(Trees) /\ Len(log) > 0
    /\ target \in {"on", "off", "removed"} /\ pr \in {"none", "open", "closed", "merged"}
    /\ used \in Nat /\ paid \in Nat /\ calls \in Nat
    /\ lock \in BOOLEAN /\ ops \in Nat /\ faults \in Nat

LEMMA StepScalars ==
    ASSUME Typed, NEW j \in Jobs, Step(j) \/ Crash(j) PROVE Scalars'
<1>1. Scalars BY DEF Typed, TypeOK, Scalars
<1>2. used + 1 \in Nat /\ calls + 1 \in Nat /\ ops + 1 \in Nat /\ faults + 1 \in Nat BY <1>1 DEF Scalars
<1>3. paid + Cardinality(job[j].paths) \in Nat
  <2>1. job[j].paths \in SUBSET Paths BY DEF Typed, TypeOK, Job
  <2>2. Cardinality(job[j].paths) \in Nat
    BY <2>1, NamesAssumption, FS_Subset, FS_CardinalityType
  <2> QED BY <1>1, <2>2 DEF Scalars
<1>4. CASE ScanStep(j)
  BY <1>1, <1>2, <1>4
  DEF ScanStep, Acquire, Busy, Refused, Fetch, FetchFails, NoTargets, AnalysisSucceeds,
      AnalysisFails, ResolveStale, Leave, Charge, Scalars
<1>5. CASE GenerateStep(j)
  <2>1. CASE QueueFileFixes(j)
    BY <1>1, <1>2, <1>3, <2>1 DEF QueueFileFixes, ChargeFixes, Fault, Scalars
  <2>2. ASSUME NEW p \in Paths, Generated(j, p) PROVE Scalars'
    BY <1>1, <1>2, <2>2 DEF Generated, Scalars
  <2>3. ASSUME NEW p \in Paths, NotGenerated(j, p) \/ \E named \in Evidence : Claim(j, p, named)
        PROVE  Scalars'
    BY <1>1, <2>3 DEF NotGenerated, Claim, Scalars
  <2>4. CASE QueueConflicts(j) BY <1>1, <2>4 DEF QueueConflicts, Scalars
  <2> QED BY <1>5, <2>1, <2>2, <2>3, <2>4 DEF GenerateStep
<1>6. CASE DeliverStep(j)
  BY <1>1, <1>2, <1>6
  DEF DeliverStep, Select, DeliveryFetchFails, ClaimDelivery, Delivered, NotDelivered,
      DeliveryEnds, Recorded, Scalars
<1>7. CASE LosesTarget(j)
  <2>1. lock' \in BOOLEAN BY <1>7 DEF LosesTarget
  <2> QED BY <1>1, <1>7, <2>1 DEF LosesTarget, Scalars
<1>8. CASE Crash(j)
  BY <1>1, <1>2, <1>8 DEF Crash, Fault, Scalars
<1> QED BY <1>4, <1>5, <1>6, <1>7, <1>8 DEF Step

LEMMA OtherScalars ==
    ASSUME Typed,
           \/ Request
           \/ \E p \in Paths : EvidenceSwept(p) \/ \E named \in Evidence : Skip(p, named)
           \/ Expire \/ UNCHANGED vars
    PROVE  Scalars'
<1>1. Scalars BY DEF Typed, TypeOK, Scalars
<1>2. ops + 1 \in Nat /\ faults + 1 \in Nat BY <1>1 DEF Scalars
<1>3. CASE Push
  <2>1. PICK tree \in Trees : log' = Append(log, tree) BY <1>3 DEF Push
  <2>2. log' \in Seq(Trees) /\ Len(log') > 0 BY <1>1, <2>1 DEF Scalars
  <2> QED BY <1>1, <1>2, <1>3, <2>2 DEF Push, Counted, Scalars
<1>4. CASE \/ TriggerTargetScan \/ TriggerCodeScanningScans \/ UpdateTarget \/ DeleteTarget
           \/ SetFindingIgnored
  BY <1>1, <1>2, <1>4
  DEF TriggerTargetScan, TriggerCodeScanningScans, UpdateTarget, DeleteTarget, SetFindingIgnored,
      Counted, Scalars
<1>7. CASE GenerateTargetFixes \/ GenerateRuntimeFixes \/ DeliverTargetFixes \/ PullRequestMoves
  <2>1. ops' = ops + 1 /\ UNCHANGED <<log, target, used, paid, calls, lock, faults>>
    BY <1>7 DEF GenerateTargetFixes, GenerateRuntimeFixes, RequestFixes, DeliverTargetFixes,
                PullRequestMoves, Counted
  <2>2. pr' = pr \/ pr' \in {"open", "closed", "merged"}
    BY <1>7 DEF GenerateTargetFixes, GenerateRuntimeFixes, RequestFixes, DeliverTargetFixes,
                PullRequestMoves
  <2> QED BY <1>1, <1>2, <2>1, <2>2 DEF Scalars
<1>5. CASE \E p \in Paths : EvidenceSwept(p) \/ \E named \in Evidence : Skip(p, named)
  BY <1>1, <1>2, <1>5 DEF EvidenceSwept, Skip, Fault, Scalars
<1>6. CASE Expire \/ UNCHANGED vars BY <1>1, <1>6 DEF Expire, vars, Scalars
<1> QED BY <1>3, <1>4, <1>5, <1>6, <1>7 DEF Request

LEMMA TypedStep == ASSUME Typed, [Next]_vars PROVE Typed'
<1>1. Scalars' BY StepScalars, OtherScalars DEF Next
<1>2. RowTypes'
  BY ScanRows, GenerateRows, DeliverRows, RequestRows, OtherRows DEF Next, Step
<1>3. JobsShaped'
  <2>1. CASE job' = job /\ log' = log BY <2>1 DEF Typed, JobsShaped
  <2>2. ASSUME NEW p \in Paths, EvidenceSwept(p) \/ \E named \in Evidence : Skip(p, named)
        PROVE  job' = job /\ log' = log
    BY <2>2 DEF EvidenceSwept, Skip
  <2>3. ASSUME Expire \/ UNCHANGED vars PROVE job' = job /\ log' = log BY <2>3 DEF Expire, vars
  <2> QED
    BY <2>1, <2>2, <2>3, ScanJobs, GenerateJobs, DeliverJobs, FaultJobs, RequestJobs DEF Next, Step
<1> QED BY <1>1, <1>2, <1>3 DEF Typed, TypeOK, Scalars, RowTypes, JobsShaped

LEMMA AlwaysTyped == Spec => []Typed
BY InitTyped, TypedStep, PTL DEF Spec

(* Every variable has its type in every reachable state. *)
THEOREM TargetTypes == Spec => []TypeOK
<1>1. Typed => TypeOK BY DEF Typed
<1> QED BY <1>1, AlwaysTyped, PTL
-----------------------------------------------------------------------------
(* Scans, one at a time *)

Running(a) == a.kind = "scan" /\ a.stage # "queued"

(* Runs hold the lock, one at a time, and a run that has reported is the    *)
(* newest completed scan until it ends.                                     *)
ScanInv ==
    /\ \A i, j \in Jobs : Running(job[i]) /\ Running(job[j]) => i = j
    /\ \A j \in Jobs : Running(job[j]) => lock
    /\ \A j \in Jobs : Exists /\ At(j, "scan", "reported") =>
         scan.status = "completed" /\ scan.tree = job[j].seen
    /\ Exists \/ scan.status = "none"
    /\ ReportedIsOpen

Noticed == \A p \in Paths : \A r \in Rules : finding[p][r].open => finding'[p][r].open

LEMMA ViolationsAreRules ==
    ASSUME NEW tree \in Trees, NEW p \in Paths PROVE Violations(tree, p) \in SUBSET Rules
BY ReportsAssumption DEF Violations, Trees

(* A step that leaves the scan row and the running scans alone, and resolves *)
(* nothing.                                                                  *)
LEMMA Undisturbed ==
    ASSUME Typed, ScanInv, scan' = scan, lock' = lock, Exists <=> Exists', Noticed,
           \A i \in Jobs : Running(job'[i]) => job'[i] = job[i]
    PROVE  ScanInv'
<1>1. \A i, j \in Jobs : Running(job'[i]) /\ Running(job'[j]) => i = j BY DEF ScanInv
<1>2. \A j \in Jobs : Running(job'[j]) => lock' BY DEF ScanInv
<1>3. \A j \in Jobs : Exists' /\ At(j, "scan", "reported")' =>
        scan'.status = "completed" /\ scan'.tree = job'[j].seen
  BY DEF ScanInv, At, Running
<1>4. Exists' \/ scan'.status = "none" BY DEF ScanInv
<1>5. ReportedIsOpen'
  <2>1. scan.tree \in Trees BY DEF Typed, TypeOK, Scan
  <2> QED BY <2>1, ViolationsAreRules DEF ScanInv, ReportedIsOpen, Violations, Noticed
<1> QED BY <1>1, <1>2, <1>3, <1>4, <1>5 DEF ScanInv

(* A job that is over, or waits. *)
Idle(a) == ~Running(a)

LEMMA NoJobIsIdle == Idle(NoJob)
BY NoJobFields DEF Idle, Running

LEMMA IdleAt ==
    ASSUME Typed, ScanInv, NEW j \in Jobs, NEW b, Idle(b), job' = [job EXCEPT ![j] = b],
           scan' = scan, lock' = lock, target' = target, Noticed
    PROVE  ScanInv'
<1>1. \A i \in Jobs : Running(job'[i]) => job'[i] = job[i] BY DEF Typed, TypeOK, Idle
<1> QED BY <1>1, Undisturbed DEF Exists

LEMMA RunEnds ==
    ASSUME Typed, ScanInv, NEW j \in Jobs, Running(job[j]), NEW b, Idle(b),
           job' = [job EXCEPT ![j] = b]
    PROVE  \A i \in Jobs : ~Running(job'[i])
BY DEF Typed, TypeOK, ScanInv, Idle

LEMMA NoneRuns ==
    ASSUME \A i \in Jobs : ~Running(job'[i]), Exists' \/ scan'.status = "none", ReportedIsOpen'
    PROVE  ScanInv'
BY DEF ScanInv, At, Running

LEMMA ReportedAsBefore ==
    ASSUME Typed, ScanInv, scan' = scan, Noticed PROVE ReportedIsOpen'
<1>1. scan.tree \in Trees BY DEF Typed, TypeOK, Scan
<1> QED BY <1>1, ViolationsAreRules DEF ScanInv, ReportedIsOpen, Violations, Noticed

LEMMA QuietRequest ==
    ASSUME Typed, ScanInv, Request PROVE ScanInv'
<1>1. CASE DeleteTarget
  <2>1. scan'.status = "none" /\ job' = job /\ target' = "removed" /\ lock' = lock BY <1>1 DEF DeleteTarget
  <2>2. ReportedIsOpen' BY <2>1 DEF ReportedIsOpen
  <2> QED BY <2>1, <2>2 DEF ScanInv, Exists, At
<1>2. CASE SetFindingIgnored
  <2>1. PICK p \in Paths, r \in Rules, event \in {"ignore", "unignore"} :
          finding' = [finding EXCEPT ![p][r].status = S!Advance(FindingMachine, event, @)]
    BY <1>2 DEF SetFindingIgnored
  <2> DEFINE s == S!Advance(FindingMachine, event, finding[p][r].status)
  <2>6. finding' = [finding EXCEPT ![p] = [finding[p] EXCEPT ![r] = [finding[p][r] EXCEPT !.status = s]]]
    BY <2>1
  <2> HIDE DEF s
  <2>2. finding \in [Paths -> [Rules -> Finding]] BY DEF Typed, TypeOK
  <2>3. \A q \in Paths, x \in Rules : finding'[q][x] = IF q = p /\ x = r THEN [finding[p][r] EXCEPT !.status = s] ELSE finding[q][x]
    BY <2>2, <2>6
  <2>4. [finding[p][r] EXCEPT !.status = s].open = finding[p][r].open
    <3>1. finding[p][r] \in Finding BY <2>2
    <3> QED BY <3>1 DEF Finding
  <2>5. Noticed BY <2>3, <2>4 DEF Noticed
  <2> QED BY <1>2, <2>5, Undisturbed DEF SetFindingIgnored, Exists
<1>3. CASE \/ UpdateTarget \/ PullRequestMoves
  <2>1. Noticed /\ (Exists <=> Exists') BY <1>3 DEF UpdateTarget, PullRequestMoves, Noticed, Exists
  <2> QED BY <1>3, <2>1, Undisturbed DEF UpdateTarget, PullRequestMoves
<1>4. ASSUME NEW b, Idle(b), UNCHANGED job \/ Enqueue(b), UNCHANGED <<target, scan, finding, lock>>
      PROVE  ScanInv'
  <2>1. Noticed /\ (Exists <=> Exists') BY <1>4 DEF Noticed, Exists
  <2> QED BY <1>4, <2>1, IdleAt, Undisturbed DEF Enqueue
<1>5. CASE Push \/ TriggerTargetScan \/ TriggerCodeScanningScans
  <2>1. \A k : Idle(ScanOf(k)) BY NoJobFields DEF ScanOf, NoJob, Idle, Running
  <2>2. \E k : (UNCHANGED job \/ Enqueue(ScanOf(k))) /\ UNCHANGED <<target, scan, finding, lock>>
    BY <1>5 DEF Push, TriggerTargetScan, TriggerCodeScanningScans
  <2> QED BY <1>4, <2>1, <2>2
<1>6. ASSUME NEW files \in SUBSET Paths, RequestFixes(files) PROVE ScanInv'
  <2>1. PICK paths \in SUBSET Paths, fresh \in SUBSET Paths, bare \in SUBSET Paths :
          Enqueue([NoJob EXCEPT !.kind = "generate", !.stage = "asked", !.paths = paths,
                                !.fresh = fresh, !.bare = bare])
    BY <1>6, AskedJob
  <2> DEFINE b == [NoJob EXCEPT !.kind = "generate", !.stage = "asked", !.paths = paths,
                                !.fresh = fresh, !.bare = bare]
  <2>2. Idle(b) BY NoJobFields DEF Job, Idle, Running
  <2>3. Enqueue(b) /\ UNCHANGED <<target, scan, finding, lock>> BY <1>6, <2>1 DEF RequestFixes
  <2> HIDE DEF b
  <2> QED BY <1>4, <2>2, <2>3
<1>7. CASE GenerateTargetFixes \/ GenerateRuntimeFixes
  <2>1. OpenFiles \in SUBSET Paths BY DEF OpenFiles
  <2> QED BY <1>6, <1>7, <2>1 DEF GenerateTargetFixes, GenerateRuntimeFixes
<1>8. CASE DeliverTargetFixes
  <2>1. PICK force : Enqueue([NoJob EXCEPT !.kind = "deliver", !.force = force])
    BY <1>8 DEF DeliverTargetFixes
  <2> DEFINE b == [NoJob EXCEPT !.kind = "deliver", !.force = force]
  <2>2. Idle(b) BY NoJobFields DEF Job, Idle, Running
  <2>3. Enqueue(b) /\ UNCHANGED <<target, scan, finding, lock>> BY <1>8, <2>1 DEF DeliverTargetFixes
  <2> HIDE DEF b
  <2> QED BY <1>4, <2>2, <2>3
<1> QED BY <1>1, <1>2, <1>3, <1>5, <1>7, <1>8 DEF Request

LEMMA ScanRunStep ==
    ASSUME Typed, ScanInv, NEW j \in Jobs, ScanStep(j) PROVE ScanInv'
<1>1. Shaped(job[j], Len(log)) /\ job \in [Jobs -> Job] BY DEF Typed, JobsShaped
<1>2. target' = target
  BY DEF ScanStep, Acquire, Busy, Refused, Fetch, FetchFails, NoTargets, AnalysisSucceeds,
         AnalysisFails, ResolveStale
<1>3. CASE Acquire(j)
  <2>1. \A i \in Jobs : ~Running(job[i]) BY <1>3 DEF Acquire, LockFree, ScanInv
  <2>2. \A i \in Jobs : i # j => job'[i] = job[i] BY <1>1, <1>3 DEF Acquire
  <2>3. job'[j].stage = "locked" BY <1>1, <1>3 DEF Acquire, Job
  <2>4. lock' = TRUE /\ Noticed /\ scan' = scan BY <1>3 DEF Acquire, Noticed
  <2>5. ReportedIsOpen' BY <2>4, ReportedAsBefore
  <2> QED BY <1>2, <2>1, <2>2, <2>3, <2>4, <2>5 DEF ScanInv, At, Running, Exists
<1>4. CASE Busy(j)
  <2>1. Idle(Later(j))
    BY <1>1, <1>4, NoJobIsIdle DEF Busy, Later, At, Idle, Running, Shaped, Job
  <2> QED BY <1>2, <1>4, <2>1, IdleAt DEF Busy, Noticed
<1>5. CASE Fetch(j)
  <2>1. Running(job[j]) BY <1>5 DEF Fetch, At, Running
  <2>2. \A i \in Jobs : i # j => ~Running(job[i]) /\ job'[i] = job[i]
    BY <1>1, <1>5, <2>1 DEF Fetch, ScanInv
  <2>3. job'[j].stage = "fetched" BY <1>1, <1>5 DEF Fetch, Job
  <2>4. lock' = lock /\ lock /\ Noticed /\ scan' = scan BY <1>5, <2>1 DEF Fetch, Noticed, ScanInv
  <2>5. ReportedIsOpen' BY <2>4, ReportedAsBefore
  <2> QED BY <1>2, <2>2, <2>3, <2>4, <2>5 DEF ScanInv, At, Running, Exists
<1>6. CASE Refused(j) \/ FetchFails(j)
  <2>1. Running(job[j]) BY <1>6 DEF Refused, FetchFails, At, Running
  <2>2. PICK b : Idle(b) /\ job' = [job EXCEPT ![j] = b]
    <3>1. Idle(Again(j)) BY <1>1, NoJobIsIdle DEF Again, Shaped, Job, Idle, Running
    <3> QED BY <1>6, <3>1, NoJobIsIdle DEF Refused, FetchFails, Leave
  <2>3. \A i \in Jobs : ~Running(job'[i]) BY <2>1, <2>2, RunEnds
  <2>4. scan' = scan /\ Noticed BY <1>6 DEF Refused, FetchFails, Noticed
  <2>5. Exists' \/ scan'.status = "none" BY <1>2, <2>4 DEF ScanInv, Exists
  <2>6. ReportedIsOpen' BY <2>4, ReportedAsBefore
  <2> QED BY <2>3, <2>5, <2>6, NoneRuns
<1>7. CASE NoTargets(j) \/ AnalysisFails(j)
  <2>1. Running(job[j]) /\ Exists BY <1>7 DEF NoTargets, AnalysisFails, At, Running
  <2>2. job' = [job EXCEPT ![j] = NoJob] BY <1>7 DEF NoTargets, AnalysisFails, Leave
  <2>3. \A i \in Jobs : ~Running(job'[i]) BY <2>1, <2>2, RunEnds, NoJobIsIdle
  <2>4. scan'.status # "completed" BY <1>7 DEF NoTargets, AnalysisFails
  <2>5. Exists' /\ ReportedIsOpen' BY <1>2, <2>1, <2>4 DEF Exists, ReportedIsOpen
  <2> QED BY <2>3, <2>5, NoneRuns
<1>8. CASE AnalysisSucceeds(j)
  <2>1. Running(job[j]) /\ Exists BY <1>8 DEF AnalysisSucceeds, At, Running
  <2>2. \A i \in Jobs : i # j => ~Running(job[i]) /\ job'[i] = job[i]
    BY <1>1, <1>8, <2>1 DEF AnalysisSucceeds, ScanInv
  <2>3. job'[j].stage = "reported" /\ job'[j].seen = job[j].seen
    BY <1>1, <1>8 DEF AnalysisSucceeds, Job
  <2>4. lock' = lock /\ lock /\ scan' = [status |-> "completed", tree |-> job[j].seen]
    BY <1>8, <2>1 DEF AnalysisSucceeds, ScanInv
  <2>5. job[j].seen \in Trees BY <1>1 DEF Job
  <2>6. finding \in [Paths -> [Rules -> Finding]] BY DEF Typed, TypeOK
  <2>7. \A p \in Paths : \A r \in Violations(job[j].seen, p) : finding'[p][r].open
    <3> SUFFICES ASSUME NEW p \in Paths, NEW r \in Violations(job[j].seen, p)
                 PROVE  finding'[p][r].open
      OBVIOUS
    <3>1. r \in Rules BY <2>5, ViolationsAreRules
    <3>2. finding'[p][r] = Reopened(finding[p][r]) BY <1>8, <3>1 DEF AnalysisSucceeds, PersistFindings
    <3>3. finding[p][r] \in Finding BY <2>6, <3>1
    <3> QED BY <3>2, <3>3 DEF Reopened, Finding
  <2>8. ReportedIsOpen' BY <2>4, <2>7 DEF ReportedIsOpen, Violations
  <2> QED BY <1>2, <2>1, <2>2, <2>3, <2>4, <2>8 DEF ScanInv, At, Running, Exists
<1>9. CASE ResolveStale(j)
  <2>1. Running(job[j]) /\ Exists BY <1>9 DEF ResolveStale, At, Running
  <2>2. job' = [job EXCEPT ![j] = NoJob] BY <1>9 DEF ResolveStale, Leave
  <2>3. \A i \in Jobs : ~Running(job'[i]) BY <2>1, <2>2, RunEnds, NoJobIsIdle
  <2>4. scan' = scan /\ scan.status = "completed" /\ scan.tree = job[j].seen
    BY <1>9, <2>1 DEF ResolveStale, ScanInv
  <2>5. \A p \in Paths : \A r \in Violations(job[j].seen, p) : finding'[p][r] = finding[p][r]
    <3>1. job[j].seen \in Trees BY <1>1 DEF Job
    <3> QED BY <1>9, <3>1, ViolationsAreRules DEF ResolveStale
  <2>6. ReportedIsOpen' BY <2>4, <2>5 DEF ScanInv, ReportedIsOpen, Violations
  <2>7. Exists' BY <1>2, <2>1 DEF Exists
  <2> QED BY <2>3, <2>6, <2>7, NoneRuns
<1> QED BY <1>3, <1>4, <1>5, <1>6, <1>7, <1>8, <1>9 DEF ScanStep

LEMMA FixesNotice ==
    ASSUME Typed, NEW j \in Jobs, GenerateStep(j) \/ DeliverStep(j) PROVE Noticed
<1>1. finding \in [Paths -> [Rules -> Finding]] BY DEF Typed, TypeOK
<1>2. CASE QueueFileFixes(j)
  <2>1. \A f \in Finding : [f EXCEPT !.linked = TRUE].open = f.open BY DEF Finding
  <2>2. \A p \in Paths, r \in Rules : \/ finding'[p][r] = finding[p][r]
                                   \/ finding'[p][r] = [finding[p][r] EXCEPT !.linked = TRUE]
    BY <1>2 DEF QueueFileFixes
  <2>3. \A p \in Paths, r \in Rules : finding[p][r] \in Finding BY <1>1
  <2>4. \A p \in Paths, r \in Rules : finding'[p][r].open = finding[p][r].open
    BY <2>1, <2>2, <2>3, Zenon
  <2> QED BY <2>4 DEF Noticed
<1>3. ASSUME NEW p \in Paths, Generated(j, p) PROVE Noticed
  <2>1. CASE UNCHANGED finding BY <2>1 DEF Noticed
  <2>2. ASSUME NEW unfixed, finding' = [finding EXCEPT ![p] =
                    [r \in Rules |-> IF r \in Group(j, p)
                                       THEN [finding[p][r] EXCEPT !.manual = r \in unfixed]
                                       ELSE finding[p][r]]]
        PROVE  Noticed
    <3>1. \A r \in Rules : finding'[p][r] = IF r \in Group(j, p)
                                       THEN [finding[p][r] EXCEPT !.manual = r \in unfixed]
                                       ELSE finding[p][r]
      BY <1>1, <2>2, Zenon
    <3>2. \A f \in Finding : \A b : [f EXCEPT !.manual = b].open = f.open BY DEF Finding
    <3>5. \A r \in Rules : finding[p][r] \in Finding BY <1>1
    <3>6. ASSUME NEW r \in Rules PROVE finding'[p][r].open = finding[p][r].open
      <4>1. CASE r \in Group(j, p)
        <5>1. finding'[p][r] = [finding[p][r] EXCEPT !.manual = r \in unfixed] BY <3>1, <4>1, Zenon
        <5> QED BY <3>2, <3>5, <5>1, Zenon
      <4>2. CASE r \notin Group(j, p)
        <5>1. finding'[p][r] = finding[p][r] BY <3>1, <4>2, Zenon
        <5> QED BY <5>1
      <4> QED BY <4>1, <4>2
    <3>3. \A r \in Rules : finding[p][r].open => finding'[p][r].open BY <3>6
    <3>4. \A q \in Paths : q # p => finding'[q] = finding[q] BY <1>1, <2>2
    <3> QED BY <3>3, <3>4 DEF Noticed
  <2> QED BY <1>3, <2>1, <2>2 DEF Generated
<1>4. CASE /\ GenerateStep(j) \/ DeliverStep(j)
           /\ ~QueueFileFixes(j)
           /\ \A p \in Paths : ~Generated(j, p)
  <2>1. UNCHANGED finding
    BY <1>2, <1>4
    DEF GenerateStep, QueueConflicts, Claim, NotGenerated, DeliverStep, Select, DeliveryFetchFails,
        ClaimDelivery, Delivered, NotDelivered, DeliveryEnds
  <2> QED BY <2>1 DEF Noticed
<1> QED BY <1>2, <1>3, <1>4

LEMMA FixesAreIdle ==
    ASSUME Typed, NEW j \in Jobs, GenerateStep(j) \/ DeliverStep(j)
    PROVE  \/ job' = job
           \/ \E b : Idle(b) /\ job' = [job EXCEPT ![j] = b]
<1>1. Shaped(job[j], Len(log)) BY DEF Typed, JobsShaped
<1>2. \/ End(j) \/ \E p \in Paths, named \in Evidence : Claim(j, p, named)
      \/ Select(j) \/ DeliveryFetchFails(j) \/ ClaimDelivery(j)
  BY DEF GenerateStep, QueueFileFixes, QueueConflicts, NotGenerated, Generated,
         DeliverStep, Delivered, NotDelivered, DeliveryEnds
<1>3. CASE End(j) BY <1>3, NoJobIsIdle DEF End
<1>4. ASSUME NEW p \in Paths, NEW named \in Evidence, Claim(j, p, named)
      PROVE  \E b : Idle(b) /\ job' = [job EXCEPT ![j] = b]
  <2> DEFINE bare == IF named = "measured" THEN {p} ELSE {}
             one == {p}
             b == [NoJob EXCEPT !.kind = "generate", !.stage = "claimed", !.paths = one,
                                !.bare = bare]
  <2>1. job' = [job EXCEPT ![j] = b] BY <1>4 DEF Claim
  <2> HIDE DEF bare, one
  <2>2. Idle(b) BY NoJobFields DEF Job, Idle, Running
  <2> HIDE DEF b
  <2> QED BY <2>1, <2>2
<1>5. CASE Select(j)
  <2>1. Idle([job[j] EXCEPT !.stage = "selected", !.paths = Selected(j)])
    BY <1>1, <1>5 DEF Select, At, Shaped, Job, Idle, Running
  <2> QED BY <1>5, <2>1, NoJobIsIdle DEF Select
<1>6. CASE DeliveryFetchFails(j)
  <2>1. Again(j) \in Job /\ Idle(Again(j))
    <3>1. Len(log) \in Nat BY Lengths
    <3> QED BY <1>1, <1>6, <3>1, AgainIsShaped, NoJobFields, NoJobIsIdle
            DEF DeliveryFetchFails, At, Again, Shaped, Idle, Running
  <2>2. Idle([Again(j) EXCEPT !.paths = {}]) BY <2>1 DEF Idle, Running, Job
  <2> QED BY <1>6, <2>2 DEF DeliveryFetchFails
<1>7. CASE ClaimDelivery(j)
  <2>1. Idle([job[j] EXCEPT !.stage = "claimed"])
    BY <1>1, <1>7 DEF ClaimDelivery, At, Shaped, Job, Idle, Running
  <2> QED BY <1>7, <2>1 DEF ClaimDelivery
<1> QED BY <1>2, <1>3, <1>4, <1>5, <1>6, <1>7

LEMMA ScanInvStep == ASSUME Typed, ScanInv, [Next]_vars PROVE ScanInv'
<1>1. CASE Request BY <1>1, QuietRequest
<1>2. ASSUME NEW j \in Jobs, ScanStep(j) PROVE ScanInv' BY <1>2, ScanRunStep
<1>3. ASSUME NEW j \in Jobs, GenerateStep(j) \/ DeliverStep(j) PROVE ScanInv'
  <2>1. scan' = scan /\ lock' = lock /\ target' = target
    BY <1>3 DEF GenerateStep, QueueFileFixes, QueueConflicts, Claim, NotGenerated, Generated,
                DeliverStep, Select, DeliveryFetchFails, ClaimDelivery, Delivered, NotDelivered,
                DeliveryEnds
  <2>2. Noticed BY <1>3, FixesNotice
  <2>3. CASE job' = job BY <2>1, <2>2, <2>3, Undisturbed DEF Exists
  <2>4. CASE \E b : Idle(b) /\ job' = [job EXCEPT ![j] = b] BY <2>1, <2>2, <2>4, IdleAt
  <2> QED BY <1>3, <2>3, <2>4, FixesAreIdle
<1>4. ASSUME NEW j \in Jobs, LosesTarget(j) PROVE ScanInv'
  <2>1. job' = [job EXCEPT ![j] = NoJob] BY <1>4 DEF LosesTarget, End
  <2>2. scan' = scan /\ target' = target /\ Noticed BY <1>4 DEF LosesTarget, Noticed
  <2>3. CASE Running(job[j])
    <3>1. \A i \in Jobs : ~Running(job'[i]) BY <2>1, <2>3, RunEnds, NoJobIsIdle
    <3>2. Exists' \/ scan'.status = "none" BY <2>2 DEF ScanInv, Exists
    <3>3. ReportedIsOpen' BY <2>2, ReportedAsBefore
    <3> QED BY <3>1, <3>2, <3>3, NoneRuns
  <2>4. CASE ~Running(job[j])
    <3>1. lock' = lock BY <1>4, <2>4 DEF LosesTarget, Running, Scanning, Typed, TypeOK
    <3> QED BY <2>1, <2>2, <3>1, NoJobIsIdle, IdleAt
  <2> QED BY <2>3, <2>4
<1>5. ASSUME NEW j \in Jobs, Crash(j) PROVE ScanInv'
  <2>1. scan' = scan /\ lock' = lock /\ target' = target /\ Noticed BY <1>5 DEF Crash, Noticed
  <2>2. job[j] \in Job BY DEF Typed, TypeOK
  <2>3. Idle([job[j] EXCEPT !.stage = "queued", !.seen = Empty, !.paths = {}])
    BY <2>2 DEF Job, Idle, Running
  <2>4. PICK b : Idle(b) /\ job' = [job EXCEPT ![j] = b] BY <1>5, <2>3, NoJobIsIdle DEF Crash, End
  <2> QED BY <2>1, <2>4, IdleAt
<1>6. ASSUME NEW p \in Paths, EvidenceSwept(p) \/ \E named \in Evidence : Skip(p, named)
      PROVE  ScanInv'
  BY <1>6, Undisturbed DEF EvidenceSwept, Skip, Noticed, Exists
<1>7. CASE UNCHANGED vars BY <1>7, Undisturbed DEF vars, Noticed, Exists
<1>8. CASE Expire
  <2>1. scan' = scan /\ job' = job /\ target' = target /\ Noticed BY <1>8 DEF Expire, Noticed
  <2>2. \A i \in Jobs : ~Running(job'[i]) BY <1>8, <2>1 DEF Expire, Scanning, Running
  <2>3. Exists' \/ scan'.status = "none" BY <2>1 DEF ScanInv, Exists
  <2>4. ReportedIsOpen' BY <2>1, ReportedAsBefore
  <2> QED BY <2>2, <2>3, <2>4, NoneRuns
<1> QED BY <1>1, <1>2, <1>3, <1>4, <1>5, <1>6, <1>7, <1>8 DEF Next, Step

(* Whatever the newest completed scan reported is shown, for any interleaving *)
(* of scans, requests, deletions and crashes: the lock admits one run at a    *)
(* time, so none resolves what a later one has reported.                      *)
THEOREM ReportsStayOpen == Spec => []ReportedIsOpen
<1>1. ASSUME Init PROVE ScanInv
  <2>1. \A j \in Jobs : ~Running(job[j]) BY <1>1, NoJobIsIdle DEF Init, Idle
  <2>2. scan.status = "none" BY <1>1 DEF Init
  <2> QED BY <2>1, <2>2, <1>1 DEF ScanInv, At, Running, Exists, ReportedIsOpen, Init
<1>2. ScanInv => ReportedIsOpen BY DEF ScanInv
<1> QED BY <1>1, <1>2, AlwaysTyped, ScanInvStep, PTL DEF Spec

-----------------------------------------------------------------------------
(* Calls and the rows that will make one *)

Pending == {p \in Paths : fix[p].status = "pending"}

Working == {j \in Jobs : At(j, "generate", "claimed")}

(* A pending row, or a task that has claimed one, may make one call; other   *)
(* messages of the file find the row claimed.                                *)
CallInv ==
    /\ IsFiniteSet(Working)
    /\ calls + Cardinality(Pending) + Cardinality(Working) <= paid

LEMMA Counts ==
    ASSUME Typed, IsFiniteSet(Working)
    PROVE  /\ IsFiniteSet(Pending) /\ Cardinality(Pending) \in Nat
           /\ Cardinality(Working) \in Nat /\ calls \in Nat /\ paid \in Nat
<1>1. Pending \in SUBSET Paths BY DEF Pending
<1> QED BY <1>1, NamesAssumption, FS_Subset, FS_CardinalityType DEF Typed, TypeOK

(* Fewer rows are pending, and fewer tasks at work.                          *)
LEMMA FewerCalls ==
    ASSUME Typed, CallInv, Pending' \in SUBSET Pending, Working' \in SUBSET Working,
           calls' = calls, paid' = paid
    PROVE  CallInv'
<1>1. IsFiniteSet(Working') /\ Cardinality(Working') \in Nat /\ Cardinality(Working') <= Cardinality(Working)
  BY FS_Subset, FS_CardinalityType DEF CallInv
<1>2. Cardinality(Pending') \in Nat /\ Cardinality(Pending') <= Cardinality(Pending)
  BY Counts, FS_Subset, FS_CardinalityType DEF CallInv
<1> QED BY <1>1, <1>2, Counts DEF CallInv

(* A task ends, after one call or none. *)
LEMMA CallMade ==
    ASSUME Typed, CallInv, NEW j \in Working, Working' = Working \ {j},
           Pending' \in SUBSET Pending, calls' \in {calls, calls + 1}, paid' = paid
    PROVE  CallInv'
<1>1. IsFiniteSet(Working') /\ Cardinality(Working') = Cardinality(Working) - 1
  BY FS_RemoveElement DEF CallInv
<1>2. Cardinality(Pending') \in Nat /\ Cardinality(Pending') <= Cardinality(Pending)
  BY Counts, FS_Subset, FS_CardinalityType DEF CallInv
<1> QED BY <1>1, <1>2, Counts DEF CallInv

(* A task claims a pending row. *)
LEMMA CallClaimed ==
    ASSUME Typed, CallInv, NEW p \in Pending, NEW j \in Jobs \ Working,
           Pending' = Pending \ {p}, Working' = Working \cup {j},
           calls' = calls, paid' = paid
    PROVE  CallInv'
<1>1. IsFiniteSet(Working') /\ Cardinality(Working') = Cardinality(Working) + 1
  BY FS_AddElement DEF CallInv
<1>2. Cardinality(Pending') = Cardinality(Pending) - 1
  BY Counts, FS_RemoveElement DEF CallInv
<1> QED BY <1>1, <1>2, Counts DEF CallInv

(* A request charges the rows it makes pending. *)
LEMMA CallsCharged ==
    ASSUME Typed, CallInv, NEW paths \in SUBSET Paths, Pending' \in SUBSET (Pending \cup paths),
           Working' \in SUBSET Working, calls' = calls, paid' = paid + Cardinality(paths)
    PROVE  CallInv'
<1>1. IsFiniteSet(Working') /\ Cardinality(Working') \in Nat /\ Cardinality(Working') <= Cardinality(Working)
  BY FS_Subset, FS_CardinalityType DEF CallInv
<1>2. IsFiniteSet(paths) /\ Cardinality(paths) \in Nat
  BY NamesAssumption, FS_Subset, FS_CardinalityType
<1>3. IsFiniteSet(Pending \cup paths)
      /\ Cardinality(Pending \cup paths) = Cardinality(Pending) + Cardinality(paths) - Cardinality(Pending \cap paths)
  BY <1>2, Counts, FS_Union DEF CallInv
<1>4. Cardinality(Pending \cap paths) \in Nat
  BY <1>2, FS_Subset, FS_CardinalityType
<1>5. Cardinality(Pending') \in Nat /\ Cardinality(Pending') <= Cardinality(Pending \cup paths)
  BY <1>3, FS_Subset, FS_CardinalityType
<1> QED BY <1>1, <1>2, <1>3, <1>4, <1>5, Counts DEF CallInv

Works(a) == a.kind = "generate" /\ a.stage = "claimed"

LEMMA JobAt ==
    ASSUME Typed, NEW j \in Jobs, NEW b, ~Works(b), job' = [job EXCEPT ![j] = b]
    PROVE  Working' = Working \ {j}
<1>1. \A i \in Jobs : job'[i] = IF i = j THEN b ELSE job[i] BY DEF Typed, TypeOK
<1> QED BY <1>1 DEF Working, At, Works

LEMMA NoJobDoesNotWork == ~Works(NoJob)
BY NoJobFields DEF Works

(* Every step of a request or a scan adds no work, and leaves the rows.      *)
LEMMA RequestsDoNotWork ==
    ASSUME Typed, Request PROVE Working' \in SUBSET Working
<1>1. ASSUME NEW b, ~Works(b), UNCHANGED job \/ Enqueue(b) PROVE Working' \in SUBSET Working
  BY <1>1, JobAt DEF Enqueue, Working, At
<1>2. CASE Push \/ TriggerTargetScan \/ TriggerCodeScanningScans
  <2>1. \A k : ~Works(ScanOf(k)) BY NoJobFields DEF ScanOf, Job, Works
  <2> QED BY <1>1, <1>2, <2>1 DEF Push, TriggerTargetScan, TriggerCodeScanningScans
<1>3. CASE UpdateTarget \/ DeleteTarget \/ SetFindingIgnored \/ PullRequestMoves
  BY <1>3 DEF UpdateTarget, DeleteTarget, SetFindingIgnored, PullRequestMoves, Working, At
<1>4. ASSUME NEW files \in SUBSET Paths, RequestFixes(files) PROVE Working' \in SUBSET Working
  <2>1. PICK paths \in SUBSET Paths, fresh \in SUBSET Paths, bare \in SUBSET Paths :
          Enqueue([NoJob EXCEPT !.kind = "generate", !.stage = "asked", !.paths = paths,
                                !.fresh = fresh, !.bare = bare])
    BY <1>4, AskedJob
  <2>2. ~Works([NoJob EXCEPT !.kind = "generate", !.stage = "asked", !.paths = paths,
                             !.fresh = fresh, !.bare = bare])
    BY NoJobFields DEF Job, Works
  <2> QED BY <1>1, <2>1, <2>2
<1>5. CASE GenerateTargetFixes \/ GenerateRuntimeFixes
  <2>1. OpenFiles \in SUBSET Paths BY DEF OpenFiles
  <2> QED BY <1>4, <1>5, <2>1 DEF GenerateTargetFixes, GenerateRuntimeFixes
<1>6. CASE DeliverTargetFixes
  <2>1. PICK force : Enqueue([NoJob EXCEPT !.kind = "deliver", !.force = force])
    BY <1>6 DEF DeliverTargetFixes
  <2>2. ~Works([NoJob EXCEPT !.kind = "deliver", !.force = force])
    BY NoJobFields DEF Job, Works
  <2> QED BY <1>1, <2>1, <2>2
<1> QED BY <1>2, <1>3, <1>5, <1>6 DEF Request

LEMMA ScansDoNotWork ==
    ASSUME Typed, NEW j \in Jobs, ScanStep(j) PROVE Working' \in SUBSET Working
<1>1. job[j] \in Job /\ job[j].kind = "scan"
  BY DEF Typed, TypeOK, ScanStep, Acquire, Busy, Refused, Fetch, FetchFails, NoTargets,
         AnalysisSucceeds, AnalysisFails, ResolveStale, At
<1>2. ~Works(Again(j)) /\ ~Works(Later(j))
  <2>1. \A t : [job[j] EXCEPT !.stage = "queued", !.tries = t].kind = "scan"
                /\ [job[j] EXCEPT !.tries = t].kind = "scan"
    BY <1>1 DEF Job
  <2> QED BY <2>1, NoJobDoesNotWork DEF Again, Later, Works
<1>3. /\ \A s : ~Works([job[j] EXCEPT !.stage = s])
      /\ \A s, tree : ~Works([job[j] EXCEPT !.stage = s, !.seen = tree])
  BY <1>1 DEF Job, Works
<1>4. PICK b : ~Works(b) /\ job' = [job EXCEPT ![j] = b]
  BY <1>2, <1>3, NoJobDoesNotWork
  DEF ScanStep, Acquire, Busy, Refused, Fetch, FetchFails, NoTargets, AnalysisSucceeds,
      AnalysisFails, ResolveStale, Leave
<1> QED BY <1>4, JobAt

LEMMA DeliveriesDoNotWork ==
    ASSUME Typed, NEW j \in Jobs, DeliverStep(j) PROVE Working' \in SUBSET Working
<1>1. job[j] \in Job /\ job[j].kind = "deliver"
  BY DEF Typed, TypeOK, DeliverStep, Select, DeliveryFetchFails, ClaimDelivery, Delivered,
         NotDelivered, DeliveryEnds, At
<1>2. ~Works([Again(j) EXCEPT !.paths = {}])
  <2>1. Len(log) \in Nat /\ Shaped(job[j], Len(log)) BY Lengths DEF Typed, JobsShaped
  <2>2. Again(j) \in Job /\ Again(j).kind # "generate"
    BY <1>1, <2>1, AgainIsShaped, NoJobFields DEF Again, Shaped
  <2> QED BY <2>2 DEF Job, Works
<1>3. /\ \A s : ~Works([job[j] EXCEPT !.stage = s])
      /\ \A s, paths : ~Works([job[j] EXCEPT !.stage = s, !.paths = paths])
  BY <1>1 DEF Job, Works
<1>4. PICK b : ~Works(b) /\ job' = [job EXCEPT ![j] = b]
  BY <1>2, <1>3, NoJobDoesNotWork
  DEF DeliverStep, Select, DeliveryFetchFails, ClaimDelivery, Delivered, NotDelivered,
      DeliveryEnds, End
<1> QED BY <1>4, JobAt

LEMMA PendingAfter ==
    ASSUME Typed, NEW paths, NEW s, s # "pending",
           fix' = [p \in Paths |-> IF p \in paths THEN [fix[p] EXCEPT !.status = s] ELSE fix[p]]
    PROVE  Pending' \in SUBSET Pending
<1>1. \A f \in Fix : [f EXCEPT !.status = s].status = s BY DEF Fix
<1>2. \A p \in Paths : fix[p] \in Fix BY DEF Typed, TypeOK
<1> QED BY <1>1, <1>2 DEF Pending

LEMMA PendingAt ==
    ASSUME Typed, NEW p \in Paths, NEW s, s # "pending", fix' = [fix EXCEPT ![p].status = s]
    PROVE  Pending' = Pending \ {p}
<1>1. fix[p] \in Fix /\ fix \in [Paths -> Fix] BY DEF Typed, TypeOK
<1>2. fix'[p].status = s BY <1>1 DEF Fix
<1>3. \A q \in Paths : q # p => fix'[q] = fix[q] BY <1>1
<1> QED BY <1>2, <1>3 DEF Pending

LEMMA GenerateCalls ==
    ASSUME Typed, CallInv, NEW j \in Jobs, GenerateStep(j) PROVE CallInv'
<1>1. ASSUME End(j) PROVE Working' = Working \ {j}
  BY <1>1, JobAt, NoJobDoesNotWork DEF End
<1>2. CASE QueueFileFixes(j)
  <2>1. job[j].paths \in SUBSET Paths BY DEF Typed, TypeOK, Job
  <2>2. Pending' \in SUBSET (Pending \cup job[j].paths) BY <1>2 DEF QueueFileFixes, Pending
  <2> QED BY <1>1, <1>2, <2>1, <2>2, CallsCharged DEF QueueFileFixes, ChargeFixes
<1>3. CASE QueueConflicts(j)
  BY <1>1, <1>3, FewerCalls DEF QueueConflicts, Pending
<1>4. ASSUME NEW p \in Paths, NEW named \in Evidence, Claim(j, p, named) PROVE CallInv'
  <2> DEFINE bare == IF named = "measured" THEN {p} ELSE {}
             one == {p}
             b == [NoJob EXCEPT !.kind = "generate", !.stage = "claimed", !.paths = one,
                                !.bare = bare]
  <2>1. job' = [job EXCEPT ![j] = b] BY <1>4 DEF Claim
  <2> HIDE DEF bare, one
  <2>2. Works(b) BY NoJobFields DEF Job, Works
  <2> HIDE DEF b
  <2>3. \A i \in Jobs : job'[i] = IF i = j THEN b ELSE job[i] BY <2>1 DEF Typed, TypeOK
  <2>4. Working' = Working \cup {j} BY <2>2, <2>3 DEF Working, At, Works
  <2>5. j \notin Working /\ p \in Pending BY <1>4 DEF Claim, Free, Claimable, Working, At, Pending
  <2>6. Pending' = Pending \ {p} BY <1>4, PendingAt DEF Claim
  <2> QED BY <1>4, <2>4, <2>5, <2>6, CallClaimed DEF Claim
<1>5. ASSUME NEW p \in Paths, NotGenerated(j, p) PROVE CallInv'
  <2>1. Pending' \in SUBSET Pending BY <1>5, PendingAt DEF NotGenerated
  <2> QED BY <1>1, <1>5, <2>1, FewerCalls DEF NotGenerated
<1>6. ASSUME NEW p \in Paths, Generated(j, p) PROVE CallInv'
  <2>1. j \in Working BY <1>6 DEF Generated, Working
  <2>2. Pending' \in SUBSET Pending
    <3>1. CASE fix' = [fix EXCEPT ![p].status = "failed"] BY <3>1, PendingAt
    <3>2. CASE fix' = [fix EXCEPT ![p] = [status |-> "ready", content |-> TRUE]]
      BY <3>2 DEF Pending, Typed, TypeOK
    <3> QED BY <1>6, <3>1, <3>2 DEF Generated
  <2> QED BY <1>1, <1>6, <2>1, <2>2, CallMade DEF Generated
<1> QED BY <1>2, <1>3, <1>4, <1>5, <1>6 DEF GenerateStep

LEMMA CallStep == ASSUME Typed, CallInv, [Next]_vars PROVE CallInv'
<1>1. CASE Request
  <2>1. Pending' \in SUBSET Pending /\ calls' = calls /\ paid' = paid
    <3>1. CASE DeleteTarget BY <3>1 DEF DeleteTarget, Pending, NoFix
    <3>2. CASE Request /\ ~DeleteTarget
      <4>1. fix' = fix /\ calls' = calls /\ paid' = paid
        BY <3>2 DEF Request, Push, TriggerTargetScan, TriggerCodeScanningScans, UpdateTarget,
                    SetFindingIgnored, GenerateTargetFixes, GenerateRuntimeFixes, RequestFixes,
                    DeliverTargetFixes, PullRequestMoves
      <4> QED BY <4>1 DEF Pending
    <3> QED BY <1>1, <3>1, <3>2
  <2> QED BY <1>1, <2>1, RequestsDoNotWork, FewerCalls
<1>2. ASSUME NEW j \in Jobs, ScanStep(j) PROVE CallInv'
  <2>1. Pending' \in SUBSET Pending /\ calls' = calls /\ paid' = paid
    BY <1>2 DEF ScanStep, Acquire, Busy, Refused, Fetch, FetchFails, NoTargets, AnalysisSucceeds,
                AnalysisFails, ResolveStale, Pending
  <2> QED BY <1>2, <2>1, ScansDoNotWork, FewerCalls
<1>3. ASSUME NEW j \in Jobs, GenerateStep(j) PROVE CallInv' BY <1>3, GenerateCalls
<1>4. ASSUME NEW j \in Jobs, DeliverStep(j) PROVE CallInv'
  <2>1. calls' = calls /\ paid' = paid
    BY <1>4 DEF DeliverStep, Select, DeliveryFetchFails, ClaimDelivery, Delivered, NotDelivered, DeliveryEnds
  <2>2. CASE fix' = fix BY <1>4, <2>1, <2>2, DeliveriesDoNotWork, FewerCalls DEF Pending
  <2>3. CASE ClaimDelivery(j)
    <3>1. Pending' \in SUBSET Pending BY <2>3, PendingAfter DEF ClaimDelivery
    <3> QED BY <1>4, <2>1, <3>1, DeliveriesDoNotWork, FewerCalls
  <2>4. ASSUME NEW s \in {"delivered", "failed"}, DeliveryEnds(j, s) PROVE CallInv'
    <3>1. Pending' \in SUBSET Pending BY <2>4, PendingAfter DEF DeliveryEnds
    <3> QED BY <1>4, <2>1, <3>1, DeliveriesDoNotWork, FewerCalls
  <2> QED BY <1>4, <2>2, <2>3, <2>4 DEF DeliverStep, Select, DeliveryFetchFails, Delivered, NotDelivered
<1>5. ASSUME NEW j \in Jobs, LosesTarget(j) PROVE CallInv'
  <2>1. Working' \in SUBSET Working BY <1>5, JobAt, NoJobDoesNotWork DEF LosesTarget, End
  <2> QED BY <1>5, <2>1, FewerCalls DEF LosesTarget, Pending
<1>6. ASSUME NEW j \in Jobs, Crash(j) PROVE CallInv'
  <2>1. fix' = fix /\ paid' = paid BY <1>6 DEF Crash
  <2>2. CASE At(j, "generate", "claimed")
    <3>1. j \in Working /\ End(j) /\ calls' \in {calls, calls + 1}
      BY <1>6, <2>2 DEF Crash, Working, At, Scanning
    <3>2. Working' = Working \ {j} BY <3>1, JobAt, NoJobDoesNotWork DEF End
    <3> QED BY <2>1, <3>1, <3>2, CallMade DEF Pending
  <2>3. CASE ~At(j, "generate", "claimed")
    <3>1. job[j] \in Job BY DEF Typed, TypeOK
    <3>2. ~Works([job[j] EXCEPT !.stage = "queued", !.seen = Empty, !.paths = {}])
      BY <3>1 DEF Job, Works
    <3>3. Working' \in SUBSET Working /\ calls' = calls BY <1>6, <2>3, <3>2, JobAt DEF Crash
    <3> QED BY <2>1, <3>3, FewerCalls DEF Pending
  <2> QED BY <2>2, <2>3
<1>7. ASSUME NEW p \in Paths, EvidenceSwept(p) \/ \E named \in Evidence : Skip(p, named) PROVE CallInv'
  BY <1>7, FewerCalls DEF EvidenceSwept, Skip, Pending, Working, At
<1>8. CASE Expire \/ UNCHANGED vars
  BY <1>8, FewerCalls DEF Expire, vars, Pending, Working, At
<1> QED BY <1>1, <1>2, <1>3, <1>4, <1>5, <1>6, <1>7, <1>8 DEF Next, Step

(* Every call to the LLM is charged before it is made, and none is made twice *)
(* for a charge, whatever is delivered again, refused or swept.               *)
THEOREM EveryCallIsPaid == Spec => []CallsArePaid
<1>1. ASSUME Init PROVE CallInv
  <2>1. Working = {} BY <1>1, NoJobDoesNotWork DEF Init, Working, At, Works
  <2>2. Pending = {} BY <1>1 DEF Init, Pending, NoFix
  <2>3. Cardinality({}) = 0 BY FS_EmptySet
  <2>4. calls = 0 /\ paid = 0 BY <1>1 DEF Init
  <2> QED BY <2>1, <2>2, <2>3, <2>4, FS_EmptySet DEF CallInv
<1>2. Typed /\ CallInv => CallsArePaid BY Counts DEF CallInv, CallsArePaid
<1> QED BY <1>1, <1>2, AlwaysTyped, CallStep, PTL DEF Spec

-----------------------------------------------------------------------------
(* Fixes in flight *)

Messages(p) == fix[p].status = "pending" /\ \E named \in Evidence : queue[p][named] > 0

Tended(p) == InFlight(p) => Messages(p) \/ \E j \in Jobs : WorksOn(j, p)

(* Nothing is in flight on a target that was removed. *)
FlightInv ==
    /\ Exists \/ \A p \in Paths : fix[p].status = "none"
    /\ faults = 0 => \A p \in Paths : Tended(p)

LEMMA ClaimedJobs ==
    ASSUME Typed, NEW j \in Jobs, job[j].stage = "claimed"
    PROVE  /\ job[j].kind \in {"generate", "deliver"}
           /\ job[j].kind = "generate" => \E p \in Paths : job[j].paths = {p}
BY DEF Typed, JobsShaped, Shaped, Shape, Job

(* The row and its messages stay, and so do the jobs but for one that does   *)
(* not work on it.                                                           *)
LEMMA StaysTended ==
    ASSUME Typed, NEW p \in Paths, Tended(p), fix'[p] = fix[p], queue'[p] = queue[p],
           \A i \in Jobs : WorksOn(i, p) => job'[i] = job[i]
    PROVE  Tended(p)'
BY DEF Tended, Messages, InFlight, WorksOn

LEMMA OtherJobs ==
    ASSUME Typed, NEW j \in Jobs, NEW b, job' = [job EXCEPT ![j] = b]
    PROVE  \A i \in Jobs : i # j => job'[i] = job[i]
BY DEF Typed, TypeOK

LEMMA AllStay ==
    ASSUME Typed, FlightInv, fix' = fix, queue' = queue, faults' = faults, Exists <=> Exists',
           \A i \in Jobs : job[i].stage = "claimed" => job'[i] = job[i]
    PROVE  FlightInv'
<1>1. ASSUME faults' = 0, NEW p \in Paths PROVE Tended(p)'
  BY <1>1, StaysTended DEF FlightInv, WorksOn
<1> QED BY <1>1 DEF FlightInv

LEMMA FreeIsUnclaimed ==
    ASSUME Typed, NEW b, UNCHANGED job \/ Enqueue(b)
    PROVE  \A i \in Jobs : job[i].stage = "claimed" => job'[i] = job[i]
<1>1. CASE UNCHANGED job BY <1>1
<1>2. ASSUME NEW j \in Jobs, Free(j), job' = [job EXCEPT ![j] = b]
      PROVE  \A i \in Jobs : job[i].stage = "claimed" => job'[i] = job[i]
  <2>1. job[j].stage # "claimed" BY <1>2, ClaimedJobs DEF Free
  <2> QED BY <1>2, <2>1, OtherJobs
<1> QED BY <1>1, <1>2 DEF Enqueue

LEMMA FlightRequest == ASSUME Typed, FlightInv, Request PROVE FlightInv'
<1>1. CASE DeleteTarget
  BY <1>1 DEF DeleteTarget, FlightInv, Tended, InFlight, NoFix
<1>2. CASE Request /\ ~DeleteTarget
  <2>1. fix' = fix /\ queue' = queue /\ faults' = faults
    BY <1>2 DEF Request, Push, TriggerTargetScan, TriggerCodeScanningScans, UpdateTarget,
                SetFindingIgnored, GenerateTargetFixes, GenerateRuntimeFixes, RequestFixes,
                DeliverTargetFixes, PullRequestMoves, Counted
  <2>2. Exists <=> Exists'
    <3>1. CASE UpdateTarget BY <3>1 DEF UpdateTarget, Exists
    <3>2. CASE Request /\ ~DeleteTarget /\ ~UpdateTarget
      BY <3>2 DEF Request, Push, TriggerTargetScan, TriggerCodeScanningScans,
                  SetFindingIgnored, GenerateTargetFixes, GenerateRuntimeFixes, RequestFixes,
                  DeliverTargetFixes, PullRequestMoves, Exists
    <3> QED BY <1>2, <3>1, <3>2
  <2>3. \E b : UNCHANGED job \/ Enqueue(b)
    BY <1>2 DEF Request, Push, TriggerTargetScan, TriggerCodeScanningScans, UpdateTarget,
                SetFindingIgnored, GenerateTargetFixes, GenerateRuntimeFixes, RequestFixes,
                DeliverTargetFixes, PullRequestMoves
  <2> QED BY <2>1, <2>2, <2>3, FreeIsUnclaimed, AllStay
<1> QED BY <1>1, <1>2

LEMMA FlightScan == ASSUME Typed, FlightInv, NEW j \in Jobs, ScanStep(j) PROVE FlightInv'
<1>1. UNCHANGED <<fix, queue, target, faults>> /\ job[j].kind = "scan" /\ \E b : job' = [job EXCEPT ![j] = b]
  BY DEF ScanStep, Acquire, Busy, Refused, Fetch, FetchFails, NoTargets,
         AnalysisSucceeds, AnalysisFails, ResolveStale, At, Leave
<1>2. job[j].stage # "claimed" BY <1>1, ClaimedJobs
<1>3. \A i \in Jobs : job[i].stage = "claimed" => job'[i] = job[i] BY <1>1, <1>2, OtherJobs
<1> QED BY <1>1, <1>3, AllStay DEF Exists

LEMMA FlightGenerate == ASSUME Typed, FlightInv, NEW j \in Jobs, GenerateStep(j) PROVE FlightInv'
<1>1. target' = target
  BY DEF GenerateStep, QueueFileFixes, QueueConflicts, Claim, NotGenerated, Generated
<1>2. CASE QueueFileFixes(j)
  <2>1. job[j].stage # "claimed" BY <1>2 DEF QueueFileFixes, At
  <2>2. \A i \in Jobs : job[i].stage = "claimed" => job'[i] = job[i]
    BY <1>2, <2>1, OtherJobs DEF QueueFileFixes, End
  <2>3. ASSUME faults' = 0, NEW p \in Paths PROVE Tended(p)'
    <3>1. faults \in Nat BY DEF Typed, TypeOK
    <3>2. ~Fault("lost") BY <2>3, <3>1 DEF Fault
    <3>3. faults = 0 /\ Dispatch(j) BY <1>2, <2>3, <3>2 DEF QueueFileFixes
    <3>4. CASE p \in job[j].paths
      <4>1. NamedBy(j, p) \in Evidence /\ queue[p] \in [Evidence -> Nat]
        BY DEF NamedBy, Evidence, Typed, TypeOK
      <4>2. queue'[p] = [queue[p] EXCEPT ![NamedBy(j, p)] = @ + 1]
        BY <3>3, <3>4 DEF Dispatch, Sent
      <4>3. queue'[p][NamedBy(j, p)] > 0 BY <4>1, <4>2
      <4>4. fix'[p].status = "pending" BY <1>2, <3>4 DEF QueueFileFixes
      <4> QED BY <4>1, <4>3, <4>4 DEF Tended, Messages
    <3>5. CASE p \notin job[j].paths
      <4>1. fix'[p] = fix[p] BY <1>2, <3>5 DEF QueueFileFixes
      <4>2. queue'[p] = queue[p] BY <3>3, <3>5 DEF Dispatch, Sent
      <4>3. Tended(p) BY <3>3 DEF FlightInv
      <4> QED BY <2>2, <4>1, <4>2, <4>3, StaysTended DEF WorksOn
    <3> QED BY <3>4, <3>5
  <2> QED BY <1>1, <1>2, <2>3 DEF FlightInv, QueueFileFixes, Exists
<1>3. CASE QueueConflicts(j)
  <2>1. \A i \in Jobs : job[i].stage = "claimed" => job'[i] = job[i]
    BY <1>3, OtherJobs DEF QueueConflicts, End, At
  <2> QED BY <1>1, <1>3, <2>1, AllStay DEF QueueConflicts, Exists
<1>4. ASSUME NEW p \in Paths, NEW named \in Evidence, Claim(j, p, named) PROVE FlightInv'
  <2> DEFINE bare == IF named = "measured" THEN {p} ELSE {}
             one == {p}
             b == [NoJob EXCEPT !.kind = "generate", !.stage = "claimed", !.paths = one,
                                !.bare = bare]
  <2>1. job' = [job EXCEPT ![j] = b] BY <1>4 DEF Claim
  <2>2. p \in one OBVIOUS
  <2> HIDE DEF bare, one
  <2>3. b.stage = "claimed" /\ b.paths = one BY NoJobFields DEF Job
  <2> HIDE DEF b
  <2>4. job'[j] = b BY <2>1 DEF Typed, TypeOK
  <2>5. WorksOn(j, p)' BY <2>2, <2>3, <2>4 DEF WorksOn
  <2>6. job[j].stage # "claimed" BY <1>4, ClaimedJobs DEF Claim, Free
  <2>7. \A i \in Jobs : job[i].stage = "claimed" => job'[i] = job[i] BY <2>1, <2>6, OtherJobs
  <2>8. \A q \in Paths : q # p => fix'[q] = fix[q] /\ queue'[q] = queue[q]
    BY <1>4 DEF Claim, Consumed, Typed, TypeOK
  <2>9. ASSUME faults' = 0, NEW q \in Paths PROVE Tended(q)'
    <3>1. CASE q = p BY <2>5, <3>1 DEF Tended
    <3>2. CASE q # p
      <4>1. Tended(q) BY <1>4, <2>9 DEF Claim, FlightInv
      <4> QED BY <2>7, <2>8, <3>2, <4>1, StaysTended DEF WorksOn
    <3> QED BY <3>1, <3>2
  <2>10. Exists BY <1>4 DEF FlightInv, Claim, Claimable
  <2> QED BY <1>1, <2>9, <2>10 DEF FlightInv, Exists
<1>5. ASSUME NEW p \in Paths, NotGenerated(j, p) \/ Generated(j, p) PROVE FlightInv'
  <2>1. job[j].paths = {p}
    BY <1>5, ClaimedJobs DEF NotGenerated, Generated, At
  <2>2. \A i \in Jobs : i # j => job'[i] = job[i]
    BY <1>5, OtherJobs DEF NotGenerated, Generated, End
  <2>3. fix'[p].status \in {"failed", "ready"} /\ \A q \in Paths : q # p => fix'[q] = fix[q]
    BY <1>5 DEF NotGenerated, Generated, Typed, TypeOK, Fix
  <2>4. ASSUME faults' = 0, NEW q \in Paths PROVE Tended(q)'
    <3>1. CASE q = p BY <2>3, <3>1 DEF Tended, InFlight
    <3>2. CASE q # p
      <4>1. Tended(q) BY <1>5, <2>4 DEF NotGenerated, Generated, FlightInv
      <4>2. fix'[q] = fix[q] /\ queue'[q] = queue[q] BY <1>5, <2>3, <3>2 DEF NotGenerated, Generated
      <4>3. ~WorksOn(j, q) BY <2>1, <3>2 DEF WorksOn
      <4>4. \A i \in Jobs : WorksOn(i, q) => job'[i] = job[i] BY <2>2, <4>3
      <4> QED BY <4>1, <4>2, <4>4, StaysTended
    <3> QED BY <3>1, <3>2
  <2> QED BY <1>1, <1>5, <2>4 DEF NotGenerated, Generated, FlightInv, Exists
<1> QED BY <1>2, <1>3, <1>4, <1>5 DEF GenerateStep

LEMMA FlightDeliver == ASSUME Typed, FlightInv, NEW j \in Jobs, DeliverStep(j) PROVE FlightInv'
<1>1. target' = target /\ queue' = queue /\ faults' = faults
  BY DEF DeliverStep, Select, DeliveryFetchFails, ClaimDelivery, Delivered, NotDelivered, DeliveryEnds
<1>2. \A i \in Jobs : i # j => job'[i] = job[i]
  BY OtherJobs
  DEF DeliverStep, Select, DeliveryFetchFails, ClaimDelivery, Delivered, NotDelivered, DeliveryEnds, End
<1>3. CASE Select(j) \/ DeliveryFetchFails(j)
  <2>1. job[j].stage # "claimed" /\ fix' = fix BY <1>3 DEF Select, DeliveryFetchFails, At
  <2> QED BY <1>1, <1>2, <2>1, AllStay DEF Exists
<1>4. CASE ClaimDelivery(j)
  <2>1. job[j].stage # "claimed" BY <1>4 DEF ClaimDelivery, At
  <2>2. job'[j].stage = "claimed" /\ job'[j].paths = job[j].paths
    BY <1>4 DEF ClaimDelivery, Typed, TypeOK, Job
  <2>3. ASSUME faults' = 0, NEW p \in Paths PROVE Tended(p)'
    <3>1. CASE p \in job[j].paths BY <2>2, <3>1 DEF Tended, WorksOn
    <3>2. CASE p \notin job[j].paths
      <4>1. fix'[p] = fix[p] BY <1>4, <3>2 DEF ClaimDelivery
      <4>2. Tended(p) BY <1>1, <2>3 DEF FlightInv
      <4>3. \A i \in Jobs : WorksOn(i, p) => job'[i] = job[i] BY <1>2, <2>1 DEF WorksOn
      <4> QED BY <1>1, <4>1, <4>2, <4>3, StaysTended
    <3> QED BY <3>1, <3>2
  <2> QED BY <1>1, <1>4, <2>3 DEF ClaimDelivery, FlightInv, Exists
<1>5. ASSUME NEW s \in {"delivered", "failed"}, DeliveryEnds(j, s) PROVE FlightInv'
  <2>1. ASSUME faults' = 0, NEW p \in Paths PROVE Tended(p)'
    <3>1. CASE p \in job[j].paths
      <4>1. fix[p] \in Fix BY DEF Typed, TypeOK
      <4>2. fix'[p].status = s BY <1>5, <3>1, <4>1 DEF DeliveryEnds, Fix
      <4> QED BY <4>2 DEF Tended, InFlight
    <3>2. CASE p \notin job[j].paths
      <4>1. fix'[p] = fix[p] BY <1>5, <3>2 DEF DeliveryEnds
      <4>2. Tended(p) BY <1>1, <2>1 DEF FlightInv
      <4>3. \A i \in Jobs : WorksOn(i, p) => job'[i] = job[i] BY <1>2, <3>2 DEF WorksOn
      <4> QED BY <1>1, <4>1, <4>2, <4>3, StaysTended
    <3> QED BY <3>1, <3>2
  <2> QED BY <1>1, <1>5, <2>1 DEF DeliveryEnds, FlightInv, Exists
<1> QED BY <1>3, <1>4, <1>5 DEF DeliverStep, Delivered, NotDelivered

LEMMA FlightStep == ASSUME Typed, FlightInv, [Next]_vars PROVE FlightInv'
<1>1. ASSUME NEW j \in Jobs, LosesTarget(j) PROVE FlightInv'
  BY <1>1 DEF LosesTarget, FlightInv, Exists, Tended, InFlight
<1>2. ASSUME NEW p \in Paths, NEW named \in Evidence, Skip(p, named) PROVE FlightInv'
  <2>1. job' = job /\ fix' = fix /\ target' = target /\ faults' = faults BY <1>2 DEF Skip
  <2>2. \A q \in Paths : q # p => queue'[q] = queue[q] BY <1>2 DEF Skip, Consumed, Typed, TypeOK
  <2>3. ASSUME faults' = 0, NEW q \in Paths PROVE Tended(q)'
    <3>1. Tended(q) BY <2>1, <2>3 DEF FlightInv
    <3>2. CASE q = p
      BY <1>2, <2>1, <3>1, <3>2 DEF Skip, Claimable, Tended, Messages, InFlight, WorksOn
    <3>3. CASE q # p BY <2>1, <2>2, <3>1, <3>3, StaysTended
    <3> QED BY <3>2, <3>3
  <2> QED BY <2>1, <2>3 DEF FlightInv, Exists
<1>3. ASSUME (\E j \in Jobs : Crash(j)) \/ \E p \in Paths : EvidenceSwept(p) PROVE FlightInv'
  <2>1. fix' = fix /\ target' = target /\ faults' = faults + 1
    BY <1>3 DEF Crash, EvidenceSwept, Fault
  <2>2. faults \in Nat BY DEF Typed, TypeOK
  <2> QED BY <2>1, <2>2 DEF FlightInv, Exists
<1>4. CASE Expire \/ UNCHANGED vars BY <1>4, AllStay DEF Expire, vars, Exists
<1> QED BY <1>1, <1>2, <1>3, <1>4, FlightRequest, FlightScan, FlightGenerate, FlightDeliver DEF Next, Step

(* Without a crash, a lost message or swept measurements, a fix in flight    *)
(* has what will take it out of flight, however many requests raced through  *)
(* the gate.                                                                 *)
THEOREM FlightsEnd == Spec => []InFlightHasTask
<1>1. ASSUME Init PROVE FlightInv
  BY <1>1 DEF Init, FlightInv, Exists, Tended, InFlight, NoFix
<1>2. FlightInv => InFlightHasTask BY DEF FlightInv, InFlightHasTask, Tended, Messages
<1> QED BY <1>1, <1>2, AlwaysTyped, FlightStep, PTL DEF Spec

-----------------------------------------------------------------------------
(* FixGuards: what the gates promise of every rewrite they accept.          *)

Line == [comment : STRING, action : STRING, version : STRING, code : STRING, trail : Nat]

(* A line put back has the code of the line the model wrote.              *)
LEMMA SameCodeFacts ==
    ASSUME NEW l \in Line, NEW m \in Line, SameCode(l, m)
    PROVE  /\ SameCode(m, l)
           /\ l.comment = m.comment
BY DEF SameCode, Line

LEMMA SameCodeSelf == ASSUME NEW l \in Line PROVE SameCode(l, l)
BY DEF SameCode, Line

(* Putting whitespace back changes neither the lines' number nor code.    *)
LEMMA RestoreFacts ==
    ASSUME NEW base \in Seq(Line), NEW patched \in Seq(Line)
    PROVE  LET full == RestoreTrailingWhitespace(base, patched)
           IN  /\ DOMAIN full = DOMAIN patched
               /\ \A i \in DOMAIN full : SameCode(full[i], patched[i])
               /\ \A i \in DOMAIN full : full[i].comment = patched[i].comment
               /\ DocComments(full) = DocComments(patched)
<1> DEFINE full == RestoreTrailingWhitespace(base, patched)
<1>1. DOMAIN full = DOMAIN patched BY DEF RestoreTrailingWhitespace
<1>2. ASSUME NEW i \in DOMAIN full
      PROVE  SameCode(full[i], patched[i]) /\ full[i].comment = patched[i].comment
  <2>1. patched[i] \in Line BY <1>1
  <2>2. CASE i \in DOMAIN base /\ SameCode(patched[i], base[i])
    <3>1. base[i] \in Line BY <2>2
    <3>2. full[i] = base[i] BY <1>1, <2>2 DEF RestoreTrailingWhitespace
    <3> QED BY <2>1, <2>2, <3>1, <3>2, SameCodeFacts
  <2>3. CASE ~(i \in DOMAIN base /\ SameCode(patched[i], base[i]))
    <3>1. full[i] = patched[i] BY <1>1, <2>3 DEF RestoreTrailingWhitespace
    <3> QED BY <2>1, <3>1, SameCodeSelf
  <2> QED BY <2>2, <2>3
<1>3. DocComments(full) = DocComments(patched)
  <2> HIDE DEF full
  <2> QED BY <1>1, <1>2 DEF DocComments
<1> QED BY <1>1, <1>2, <1>3

(* An accepted fix of a workflow keeps the file's comments and pins, and  *)
(* violates no rule its base does not.                                    *)
THEOREM AcceptedWorkflowFix ==
    ASSUME NEW E, NEW path, NEW issues, NEW reply, NEW stored \in Seq(Line), NEW remote,
           reply.content \in Seq(Line),
           remote.file # <<>> => remote.file[1] \in Seq(Line)
    PROVE  LET kept == RunFixGeneration(E, path, stored, remote, reply, issues)
           IN  /\ KeepsText(kept, reply)
               /\ KeepsPins(E, kept, issues)
               /\ TradesNothing(E, kept, Alone(path, kept.base), Alone(path, kept.content))
<1> DEFINE kept == RunFixGeneration(E, path, stored, remote, reply, issues)
           base == BaseContent(stored, remote)
           full == RestoreTrailingWhitespace(base, reply.content)
<1>1. SUFFICES ASSUME kept.status = "ready"
               PROVE  /\ KeepsText(kept, reply)
                      /\ KeepsPins(E, kept, issues)
                      /\ TradesNothing(E, kept, Alone(path, kept.base), Alone(path, kept.content))
  BY DEF KeepsText, KeepsPins, TradesNothing
<1>2. kept = WorkflowRewrite(E, path, base, reply, issues)
  BY <1>1 DEF RunFixGeneration, FailedFix
<1>3. base \in Seq(Line) BY DEF BaseContent
<1>4. /\ WorkflowError(E, path, base, full, issues) = "none"
      /\ kept = ReadyFix(full, base, NeedsManualWork(reply, issues))
  BY <1>1, <1>2 DEF WorkflowRewrite, FailedFix
<1>5. kept.content = full /\ kept.base = base BY <1>4 DEF ReadyFix
<1> HIDE DEF kept, base
<1>6. /\ DOMAIN full = DOMAIN reply.content
      /\ \A i \in DOMAIN full : SameCode(full[i], reply.content[i])
      /\ DocComments(full) = DocComments(reply.content)
  BY <1>3, RestoreFacts
<1> HIDE DEF full
<1>7. /\ UnrequestedPinChanges(E, base, full, issues) = {}
      /\ DeletedComments(base, full) = {}
      /\ IntroducedRuleSlugs(E, Alone(path, base), Alone(path, full)) = {}
  BY <1>4 DEF WorkflowError
<1>8. KeepsText(kept, reply) BY <1>5, <1>6, <1>7 DEF KeepsText, DeletedComments
<1>9. KeepsPins(E, kept, issues)
  BY <1>5, <1>7 DEF KeepsPins, UnrequestedPinChanges, Tightened
<1>10. TradesNothing(E, kept, Alone(path, kept.base), Alone(path, kept.content))
  BY <1>5, <1>7 DEF TradesNothing, IntroducedRuleSlugs
<1> QED BY <1>8, <1>9, <1>10

(* An accepted fix of a file of a target keeps the file's comments, and   *)
(* the target with it violates no rule that the target without does not.  *)
THEOREM AcceptedFileFix ==
    ASSUME NEW E, NEW engine, NEW files, NEW path, NEW reply, NEW issues,
           reply.content \in Seq(Line),
           path \in DOMAIN files => files[path] \in Seq(Line)
    PROVE  LET kept == GenerateFileFix(E, engine, files, path, reply, issues)
           IN  /\ KeepsText(kept, reply)
               /\ TradesNothing(E, kept, files, [files EXCEPT ![path] = kept.content])
               /\ engine = "ansible" => KeepsAnsible(E, path, kept)
<1> DEFINE kept == GenerateFileFix(E, engine, files, path, reply, issues)
           full == RestoreTrailingWhitespace(files[path], reply.content)
<1>1. SUFFICES ASSUME kept.status = "ready"
               PROVE  /\ KeepsText(kept, reply)
                      /\ TradesNothing(E, kept, files, [files EXCEPT ![path] = kept.content])
                      /\ engine = "ansible" => KeepsAnsible(E, path, kept)
  BY DEF KeepsText, TradesNothing, KeepsAnsible
<1>2. kept = VetRewrite(E, engine, files, path, reply, issues) /\ path \in DOMAIN files
  BY <1>1 DEF GenerateFileFix, FailedFix
<1>3. /\ FileError(E, engine, files, path, full) = "none"
      /\ kept = ReadyFix(full, files[path], NeedsManualWork(reply, issues))
  BY <1>1, <1>2 DEF VetRewrite, FailedFix
<1>4. kept.content = full /\ kept.base = files[path] BY <1>3 DEF ReadyFix
<1> HIDE DEF kept
<1>5. /\ DOMAIN full = DOMAIN reply.content
      /\ \A i \in DOMAIN full : SameCode(full[i], reply.content[i])
      /\ DocComments(full) = DocComments(reply.content)
  BY <1>2, RestoreFacts
<1> HIDE DEF full
<1>6. /\ Validate(E, engine, path, files[path], full) = "none"
      /\ DeletedComments(files[path], full) = {}
      /\ IntroducedViolations(E, files, path, full) = {}
  BY <1>3 DEF FileError
<1>7. KeepsText(kept, reply) BY <1>4, <1>5, <1>6 DEF KeepsText, DeletedComments
<1>8. TradesNothing(E, kept, files, [files EXCEPT ![path] = kept.content])
  BY <1>4, <1>6 DEF TradesNothing, IntroducedViolations, IntroducedRuleSlugs
<1>9. ASSUME engine = "ansible" PROVE KeepsAnsible(E, path, kept)
  BY <1>4, <1>6, <1>9 DEF KeepsAnsible, Validate, ValidateAnsibleFix, NoKind
<1> QED BY <1>7, <1>8, <1>9

-----------------------------------------------------------------------------
(* TargetFiles: no change of a file that a target's scan reads goes without *)
(* a scan.                                                                  *)

(* A file that belongs to a target is below its root.                     *)
LEMMA BelongsBelow ==
    ASSUME NEW engine, NEW path, NEW content, NEW root, NEW maxdepth,
           path.dir \in Seq(STRING), root \in Seq(STRING),
           Belongs(engine, path, content, root, maxdepth)
    PROVE  Below(root, path.dir)
<1>1. Below(path.dir, path.dir) BY DEF Below
<1> QED BY <1>1 DEF Belongs, IsTerraformFile, IsDockerFile, IsAnsibleFile, Walked

(* Two trees without a difference below a root have the same files there. *)
LEMMA SameOwned ==
    ASSUME NEW engine, NEW root \in Seq(STRING), NEW maxdepth, NEW old, NEW new,
           \A p \in DOMAIN old \cup DOMAIN new : p.dir \in Seq(STRING),
           \A p \in Differs(old, new) : ~Below(root, p.dir)
    PROVE  Owned(engine, old, root, maxdepth) = Owned(engine, new, root, maxdepth)
<1>1. ASSUME NEW p \in DOMAIN old, Belongs(engine, p, old[p], root, maxdepth)
      PROVE  p \in DOMAIN new /\ old[p] = new[p]
  <2>1. Below(root, p.dir) BY <1>1, BelongsBelow
  <2> QED BY <1>1, <2>1 DEF Differs
<1>2. ASSUME NEW p \in DOMAIN new, Belongs(engine, p, new[p], root, maxdepth)
      PROVE  p \in DOMAIN old /\ old[p] = new[p]
  <2>1. Below(root, p.dir) BY <1>2, BelongsBelow
  <2> QED BY <1>2, <2>1 DEF Differs
<1> DEFINE Those(tree) == {p \in DOMAIN tree : Belongs(engine, p, tree[p], root, maxdepth)}
<1>3. Those(old) = Those(new) BY <1>1, <1>2
<1>4. \A p \in Those(old) : old[p] = new[p] BY <1>1
<1>5. /\ Owned(engine, old, root, maxdepth) = {<<p, old[p]>> : p \in Those(old)}
      /\ Owned(engine, new, root, maxdepth) = {<<p, new[p]>> : p \in Those(new)}
  BY DEF Owned
<1> HIDE DEF Those
<1> QED BY <1>3, <1>4, <1>5

(* A push that leads to no scan of a target leaves the target's files.    *)
THEOREM NoChangeIsLost ==
    ASSUME NEW engine, NEW aTarget, NEW old, NEW new, NEW push, NEW defaultbranch,
           NEW bounds, NEW rank, aTarget.root \in Seq(STRING),
           \A p \in DOMAIN old \cup DOMAIN new : p.dir \in Seq(STRING)
    PROVE  PushRescans(engine, aTarget, old, new, push, defaultbranch, bounds, rank)
<1> SUFFICES ASSUME aTarget.enabled, CanCreate(engine, aTarget.root, {}),
                    push.branch = defaultbranch, Differs(old, new) \subseteq push.paths,
                    ~Enqueues(engine, aTarget, push, defaultbranch)
             PROVE  FetchFiles(engine, new, aTarget.root, bounds, rank)
                      = FetchFiles(engine, old, aTarget.root, bounds, rank)
  BY DEF PushRescans
<1>1. ~Touches(aTarget.root, push.paths)
  <2>1. CASE engine = "terraform" BY <2>1 DEF Enqueues, CanCreate
  <2>2. CASE engine # "terraform" BY <2>2 DEF Enqueues, TouchesOrRoot
  <2> QED BY <2>1, <2>2
<1>2. \A p \in Differs(old, new) : ~Below(aTarget.root, p.dir) BY <1>1 DEF Touches
<1>3. Owned(engine, old, aTarget.root, bounds.maxdepth)
        = Owned(engine, new, aTarget.root, bounds.maxdepth)
  BY <1>2, SameOwned
<1> QED BY <1>3 DEF FetchFiles
=============================================================================
