--------------------------- MODULE StateMachines ---------------------------
(***************************************************************************)
(* The lifecycle tables of app/services/state_machines and the two ways    *)
(* the application fires an event on one of them.                          *)
(*                                                                         *)
(* A machine is a record with one field per event.  The field is the       *)
(* event's partial function on states: its domain is the set of states the *)
(* event is legal from, its value the state the event leads to.            *)
(***************************************************************************)

\* advance raises IllegalTransition outside the event's domain.
Can(machine, event, s) == s \in DOMAIN machine[event]

\* The state after a successful advance.
Advance(machine, event, s) == machine[event][s]

\* try_advance is a no-op outside the event's domain.
TryAdvance(machine, event, s) ==
    IF Can(machine, event, s) THEN Advance(machine, event, s) ELSE s

-----------------------------------------------------------------------------
(* Fix lifecycle *)

FixStatus == {"pending", "generating", "ready", "delivering", "delivered",
              "failed", "rejected_by_user", "superseded_by_closed_pr",
              "superseded_by_deleted_file", "landed", "no_op"}

InFlight == {"pending", "generating", "delivering"}

DeliveredStatuses == {"delivered", "landed", "superseded_by_closed_pr"}

Superseded == {"superseded_by_closed_pr", "superseded_by_deleted_file"}

FixMachine ==
    [start_generation       |-> [s \in {"pending"}    |-> "generating"],
     generation_succeeded   |-> [s \in {"generating"} |-> "ready"],
     generation_failed      |-> [s \in {"generating"} |-> "failed"],
     mark_ready             |-> [s \in {"ready", "delivered"} |-> "ready"],
     start_delivery         |-> [s \in {"ready"}      |-> "delivering"],
     precheck_failed        |-> [s \in {"ready"}      |-> "failed"],
     precheck_no_op         |-> [s \in {"ready"}      |-> "no_op"],
     delivery_succeeded     |-> [s \in {"delivering"} |-> "delivered"],
     delivery_failed        |-> [s \in {"delivering"} |-> "failed"],
     supersede_closed_pr    |-> [s \in {"ready", "delivered"}
                                    |-> "superseded_by_closed_pr"],
     supersede_deleted_file |-> [s \in InFlight \cup {"ready", "delivered"}
                                    |-> "superseded_by_deleted_file"],
     reject                 |-> [s \in InFlight \cup {"ready", "delivered"} \cup Superseded
                                    |-> "rejected_by_user"],
     restore                |-> [s \in Superseded     |-> "ready"],
     regenerate             |-> [s \in {"failed"}     |-> "pending"],
     land                   |-> [s \in {"delivered"}  |-> "landed"],
     swept                  |-> [s \in InFlight       |-> "failed"]]

-----------------------------------------------------------------------------
(* Pull-request lifecycle.  The attributes the code stores beside the state *)
(* (ci_status, review_decision, mergeable_state) are not states.            *)

PrState == {"open", "draft", "merged", "closed"}

PullRequestMachine ==
    [redeliver             |-> [s \in {"open"}          |-> "open"],
     external_update       |-> [s \in {"open", "draft"} |-> s],
     convert_to_draft      |-> [s \in {"open"}          |-> "draft"],
     mark_ready_for_review |-> [s \in {"draft"}         |-> "open"],
     merge                 |-> [s \in {"open", "draft"} |-> "merged"],
     close                 |-> [s \in {"open", "draft"} |-> "closed"],
     reopen                |-> [s \in {"closed"}        |-> "open"]]

-----------------------------------------------------------------------------
(* Billing-subscription lifecycle: whether the plan is being paid for. *)

SubscriptionStatus == {"incomplete", "trialing", "active", "past_due", "unpaid",
                       "pending_cancellation", "canceled"}

EntitledStatuses == {"trialing", "active", "past_due", "pending_cancellation"}

BillingMachine ==
    [checkout_completed   |-> [s \in {"incomplete"}           |-> "active"],
     trial_started        |-> [s \in {"incomplete"}           |-> "trialing"],
     trial_converted      |-> [s \in {"trialing"}             |-> "active"],
     trial_ended          |-> [s \in {"trialing"}             |-> "past_due"],
     payment_failed       |-> [s \in {"active", "trialing"}   |-> "past_due"],
     payment_succeeded    |-> [s \in {"past_due", "unpaid"}   |-> "active"],
     grace_expired        |-> [s \in {"past_due"}             |-> "unpaid"],
     cancel_requested     |-> [s \in {"active", "trialing", "past_due"}
                                  |-> "pending_cancellation"],
     resumed              |-> [s \in {"pending_cancellation"} |-> "active"],
     period_ended         |-> [s \in {"pending_cancellation"} |-> "canceled"],
     subscription_deleted |-> [s \in SubscriptionStatus \ {"canceled"} |-> "canceled"],
     plan_changed         |-> [s \in {"active", "trialing"}   |-> s]]

-----------------------------------------------------------------------------
(* Repository accessibility, as webhooks report it. *)

RepositoryStatus == {"active", "suspended", "archived", "inaccessible"}

RepositoryMachine ==
    [suspend       |-> [s \in {"active"}       |-> "suspended"],
     unsuspend     |-> [s \in {"suspended"}    |-> "active"],
     archive       |-> [s \in {"active"}       |-> "archived"],
     unarchive     |-> [s \in {"archived"}     |-> "active"],
     lose_access   |-> [s \in RepositoryStatus \ {"inaccessible"} |-> "inaccessible"],
     regain_access |-> [s \in {"inaccessible"} |-> "active"]]

-----------------------------------------------------------------------------
(* Cloud-account connection: a disabled account is verified anew before it  *)
(* counts as connected.                                                     *)

CloudAccountStatus == {"pending_verification", "connected", "error", "disabled"}

CloudAccountMachine ==
    [verify              |-> [s \in {"pending_verification", "error"}     |-> "connected"],
     verification_failed |-> [s \in {"pending_verification", "connected"} |-> "error"],
     disable             |-> [s \in CloudAccountStatus \ {"disabled"}     |-> "disabled"],
     enable              |-> [s \in {"disabled"} |-> "pending_verification"]]

-----------------------------------------------------------------------------
(* Enrichment of a telemetry run.  retry is declared and never fired. *)

DynamicAnalysisStatus == {"queued", "running", "enriched", "failed"}

TelemetryMachine ==
    [started |-> [s \in {"queued"}  |-> "running"],
     enrich  |-> [s \in {"running"} |-> "enriched"],
     fail    |-> [s \in {"running"} |-> "failed"],
     retry   |-> [s \in {"failed"}  |-> "queued"],
     swept   |-> [s \in {"queued", "running"} |-> "failed"]]
=============================================================================
