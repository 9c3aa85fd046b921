---------------------------- MODULE OrgAnalyses ----------------------------
(***************************************************************************)
(* An organisation's cloud posture scans and telemetry analyses, which run *)
(* side by side and draw on one allowance.                                 *)
(***************************************************************************)
EXTENDS UsageLedger, AwsCollector

CONSTANTS Types, Scans, MaxBusy, CloudOps, MaxCloudOps, Runs, Workers, RunOps, MaxRunOps

VARIABLES aws, trusted, account, finding, last, behind, lock, scan, cloudOps,
          status, stored, met, task, request, runOps

Reports == ReportsOf(Types)

C == INSTANCE CloudPosture WITH Ops <- CloudOps, MaxOps <- MaxCloudOps, ops <- cloudOps

T == INSTANCE TelemetryRuns WITH Ops <- RunOps, MaxOps <- MaxRunOps, ops <- runOps

ASSUME BoundsAssumption ==
    /\ MaxBusy \in Nat /\ MaxCloudOps \in Nat /\ MaxRunOps \in Nat
    /\ Types \subseteq Observable
    /\ CloudOps \subseteq C!OpKinds /\ RunOps \subseteq T!OpKinds

ASSUME TasksAssumption == IsFiniteSet(Scans) /\ IsFiniteSet(Workers)

cloudVars == <<aws, trusted, account, finding, last, behind, lock, scan, cloudOps>>

telemetryVars == <<status, stored, met, task, request, runOps>>

vars == <<used, cloudVars, telemetryVars>>

Init == C!Init /\ T!Init

Next ==
    \/ C!Next /\ UNCHANGED telemetryVars
    \/ T!Next /\ UNCHANGED cloudVars

Spec == Init /\ [][Next]_vars

-----------------------------------------------------------------------------
(* Properties *)

(* Every variable has its type. *)
TypeOK == C!TypeOK /\ T!TypeOK

(* Tasks of both engines that pass the check together overrun the plan by   *)
(* one record each but the first, and no further.                           *)
WithinAllowance == PeriodUsage <= Limit + Cardinality(Scans) + Cardinality(Workers) - 1

(* Open cloud findings are those of the last scan: CloudPosture. *)
OpenIsReported == C!OpenIsReported

(* Enriched telemetry has its findings, once: TelemetryRuns. *)
EnrichedIsStored == T!EnrichedIsStored
=============================================================================
