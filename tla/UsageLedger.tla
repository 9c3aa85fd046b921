---------------------------- MODULE UsageLedger ----------------------------
(* The analyses an organisation has used of its plan's allowance in one     *)
(* billing period.  Every engine adds to it, and reads the sum of them all. *)
EXTENDS Integers

CONSTANT Limit   \* analyses the plan includes

ASSUME LimitAssumption == Limit \in Nat

VARIABLE used    \* used[e]: records of engine e

Engines == {"cloud", "telemetry"}

PeriodUsage == used["cloud"] + used["telemetry"]

AlwaysAllows(n) == TRUE

(* enforce_quota and exhausted_message: may n more be used? *)
Allows(n) == n <= Limit - PeriodUsage

RecordUsage(e, n) == used' = [used EXCEPT ![e] = @ + n]

Unused == [e \in Engines |-> 0]
=============================================================================
