---------------------------- MODULE CloudPosture ----------------------------
(***************************************************************************)
(* The posture scans of one AWS account.  A scan reads the account row     *)
(* once, walks the account for up to an hour, and writes what it found and *)
(* what has become of the connection in one transaction; meanwhile the     *)
(* user disables, enables or removes the account, the role's trust changes *)
(* and other scans are asked for.                                          *)
(***************************************************************************)
EXTENDS UsageLedger, FiniteSets

CONSTANTS
    Types,      \* the rules looked at, each violated by one resource or by none
    Reports,    \* what is violated and what a collection may report of it: AwsCollector
    Scans,      \* scan tasks waiting or running at once
    MaxBusy,    \* retries of a scan that finds the lock taken
    Ops,        \* the kinds of event this instance allows
    MaxOps      \* how many of them may happen

OpKinds == {"drift", "trust", "scan", "switch", "remove", "mute", "hiccup", "crash", "overrun"}

S == INSTANCE StateMachines

VARIABLES
    aws,        \* the rules that are violated in the account
    trusted,    \* the role may be assumed
    account,    \* the account's status; "removed" without a row
    finding,    \* finding[t]: the finding of rule t
    last,       \* the report of the scan that was committed last
    behind,     \* its stale findings may never be resolved
    lock,       \* the cloud_scan lock is set
    scan,       \* scan[j]: the task in slot j
    ops         \* counted events so far

cloudVars == <<aws, trusted, account, finding, last, behind, lock, scan, ops>>
vars == <<used, cloudVars>>

NoFinding == [open |-> FALSE, status |-> "none"]

(* acct: the status the session read.  seen: the violations reported. *)
Task == [stage : {"none", "queued", "loaded", "collected", "stored"}, tries : Nat,
         acct : S!CloudAccountStatus \cup {"removed"}, seen : SUBSET Types]

NoTask == [stage |-> "none", tries |-> 0, acct |-> "removed", seen |-> {}]

Counted(kind) == kind \in Ops /\ ops < MaxOps /\ ops' = ops + 1

At(j, stage) == scan[j].stage = stage

Goes(j, next) == scan' = [scan EXCEPT ![j] = next]

-----------------------------------------------------------------------------
(* The account at AWS *)

Drift ==
    /\ Counted("drift")
    /\ \E t \in Types : aws' = IF t \in aws THEN aws \ {t} ELSE aws \cup {t}
    /\ UNCHANGED <<used, trusted, account, finding, last, behind, lock, scan>>

TrustChanges ==
    /\ Counted("trust")
    /\ trusted' = ~trusted
    /\ UNCHANGED <<used, aws, account, finding, last, behind, lock, scan>>

-----------------------------------------------------------------------------
(* The routes.  A scan row is committed only when its scan is over, so the  *)
(* activity gate never refuses here.                                        *)

TriggerScan ==
    /\ Counted("scan") /\ account \notin {"removed", "disabled"} /\ Allows(1)
    /\ \E j \in Scans : At(j, "none") /\ Goes(j, [NoTask EXCEPT !.stage = "queued"])
    /\ UNCHANGED <<used, aws, trusted, account, finding, last, behind, lock>>

UpdateAccount ==
    /\ Counted("switch")
    /\ \E event \in {"enable", "disable"} :
         /\ S!Can(S!CloudAccountMachine, event, account)
         /\ account' = S!Advance(S!CloudAccountMachine, event, account)
    /\ UNCHANGED <<used, aws, trusted, finding, last, behind, lock, scan>>

(* Scans and findings go with the account. *)
DeleteAccount ==
    /\ Counted("remove") /\ account # "removed"
    /\ account' = "removed"
    /\ finding' = [t \in Types |-> NoFinding] /\ last' = {} /\ behind' = FALSE
    /\ UNCHANGED <<used, aws, trusted, lock, scan>>

UpdateFinding ==
    /\ Counted("mute")
    /\ \E t \in Types :
         \/ finding[t].status = "open" /\ finding' = [finding EXCEPT ![t].status = "ignored"]
         \/ finding[t].status = "ignored" /\ finding' = [finding EXCEPT ![t].status = "open"]
    /\ UNCHANGED <<used, aws, trusted, account, last, behind, lock, scan>>

-----------------------------------------------------------------------------
(* run_cloud_scan *)

LockFree == ~lock

(* The lock is taken, the account read and the allowance checked. *)
Load(j) ==
    /\ At(j, "queued") /\ LockFree
    /\ IF account # "removed" /\ Allows(1)
       THEN lock' = TRUE /\ Goes(j, [NoTask EXCEPT !.stage = "loaded", !.acct = account])
       ELSE lock' = FALSE /\ Goes(j, NoTask)
    /\ UNCHANGED <<used, aws, trusted, account, finding, last, behind, ops>>

Busy(j) ==
    /\ At(j, "queued") /\ ~LockFree
    /\ Goes(j, IF scan[j].tries < MaxBusy THEN [scan[j] EXCEPT !.tries = @ + 1] ELSE NoTask)
    /\ UNCHANGED <<used, aws, trusted, account, finding, last, behind, lock, ops>>

(* A run ends, and deletes the lock key, whoever has set it by now. *)
Leave(j) == lock' = FALSE /\ Goes(j, NoTask)

(* Failed calls leave gaps, which may hide violations or look like some. *)
Collect(j) ==
    /\ At(j, "loaded") /\ trusted
    /\ \E seen \in SUBSET Types :
         /\ <<aws, seen>> \in Reports
         /\ IF seen = aws THEN UNCHANGED ops ELSE Counted("hiccup")
         /\ Goes(j, [scan[j] EXCEPT !.stage = "collected", !.seen = seen])
    /\ UNCHANGED <<used, aws, trusted, account, finding, last, behind, lock>>

(* The row as the session has it is written back only if it changed there. *)
Written(j, event) ==
    IF S!Can(S!CloudAccountMachine, event, scan[j].acct)
      THEN S!Advance(S!CloudAccountMachine, event, scan[j].acct) ELSE account

(* The role cannot be assumed: a failed scan, charged. *)
CollectionFails(j) ==
    /\ At(j, "loaded") /\ ~trusted /\ account # "removed"
    /\ account' = Written(j, "verification_failed")
    /\ RecordUsage("cloud", 1)
    /\ Leave(j)
    /\ UNCHANGED <<aws, trusted, finding, last, behind, ops>>

(* The policy engine is unavailable: a failed scan too, the role is fine. *)
EvaluationFails(j) ==
    /\ At(j, "collected") /\ account # "removed"
    /\ RecordUsage("cloud", 1)
    /\ Leave(j)
    /\ UNCHANGED <<aws, trusted, account, finding, last, behind, ops>>

Reopened(f) == [open |-> TRUE, status |-> IF f.status = "none" THEN "open" ELSE f.status]

Verified(j) == Written(j, "verify")

(* Scan row, charge, findings and account are one transaction. *)
Store(j) ==
    /\ At(j, "collected") /\ account # "removed"
    /\ finding' = [t \in Types |-> IF t \in scan[j].seen THEN Reopened(finding[t]) ELSE finding[t]]
    /\ account' = Verified(j)
    /\ RecordUsage("cloud", 1)
    /\ last' = scan[j].seen /\ behind' = TRUE
    /\ Goes(j, [scan[j] EXCEPT !.stage = "stored"])
    /\ UNCHANGED <<aws, trusted, lock, ops>>

ResolvesNothing(j) == finding

Resolved(j) ==
    [t \in Types |->
       IF ~finding[t].open \/ t \in scan[j].seen THEN finding[t]
       ELSE [open |-> FALSE,
             status |-> IF finding[t].status = "open" THEN "resolved" ELSE finding[t].status]]

(* resolve_stale_findings, in a transaction of its own. *)
ResolveStale(j) ==
    /\ At(j, "stored") /\ account # "removed"
    /\ finding' = Resolved(j)
    /\ behind' = FALSE
    /\ Leave(j)
    /\ UNCHANGED <<used, aws, trusted, account, last, ops>>

(* The account was removed under the scan: its next write fails. *)
LosesAccount(j) ==
    /\ scan[j].stage \in {"loaded", "collected", "stored"} /\ account = "removed"
    /\ Leave(j)
    /\ UNCHANGED <<used, aws, trusted, account, finding, last, behind, ops>>

(* The message is delivered again, the lock stays. *)
Crash(j) ==
    /\ scan[j].stage \in {"loaded", "collected", "stored"} /\ Counted("crash")
    /\ Goes(j, [NoTask EXCEPT !.stage = "queued"])
    /\ UNCHANGED <<used, aws, trusted, account, finding, last, behind, lock>>

(* After an hour: nobody's lock, or that of a scan that takes longer. *)
Expire ==
    /\ lock /\ lock' = FALSE
    /\ IF \A j \in Scans : scan[j].stage \in {"none", "queued"} THEN UNCHANGED ops
       ELSE Counted("overrun")
    /\ UNCHANGED <<used, aws, trusted, account, finding, last, behind, scan>>

-----------------------------------------------------------------------------

Init ==
    /\ used = Unused
    /\ aws \in SUBSET Types /\ trusted = TRUE
    /\ account = "pending_verification"
    /\ finding = [t \in Types |-> NoFinding] /\ last = {} /\ behind = FALSE
    /\ lock = FALSE /\ scan = [j \in Scans |-> NoTask]
    /\ ops = 0

Step(j) ==
    \/ Load(j) \/ Busy(j) \/ Collect(j) \/ CollectionFails(j) \/ EvaluationFails(j)
    \/ Store(j) \/ ResolveStale(j) \/ LosesAccount(j) \/ Crash(j)

Next ==
    \/ Drift \/ TrustChanges
    \/ TriggerScan \/ UpdateAccount \/ DeleteAccount \/ UpdateFinding
    \/ \E j \in Scans : Step(j)
    \/ Expire

Spec == Init /\ [][Next]_vars

-----------------------------------------------------------------------------
(* Properties *)

(* Every variable has its type. *)
TypeOK ==
    /\ used \in [Engines -> Nat] /\ ops \in Nat
    /\ aws \subseteq Types /\ last \subseteq Types
    /\ {trusted, behind, lock} \subseteq BOOLEAN
    /\ account \in S!CloudAccountStatus \cup {"removed"}
    /\ finding \in [Types -> [open : BOOLEAN,
                               status : {"none", "open", "resolved", "ignored"}]]
    /\ scan \in [Scans -> Task]

(* Once a scan is through, the open findings are those it reported, however *)
(* many scans were asked for and whatever crashed: scans of one account do  *)
(* not resolve each other's findings.  The lock is taken to outlast a scan. *)
OpenIsReported == ~behind => {t \in Types : finding[t].open} = last
=============================================================================
