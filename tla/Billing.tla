------------------------------- MODULE Billing -------------------------------
(***************************************************************************)
(* Subscriptions: what Stripe knows of each account, the events it sends,  *)
(* and the account's own row, moved by the webhook, by the daily dunning   *)
(* pass and by the routes.                                                 *)
(*                                                                         *)
(* Stripe promises neither order nor a single delivery; the webhook runs   *)
(* one transaction per event.  The dunning pass loads its list once and    *)
(* commits and sends mail between its rows, so all but the first row it    *)
(* acts on are read again and may have moved meanwhile.                    *)
(***************************************************************************)
EXTENDS Naturals, Sequences, FiniteSets, StateMachines

CONSTANTS
    Accounts,
    PaidTiers,   \* the tiers Stripe sells
    Grace,       \* BILLING_GRACE_PERIOD_DAYS
    Reminders,   \* BILLING_DUNNING_DAYS
    Month,       \* days in a billing period and in a calendar month
    Never,       \* no past_due_since
    Facts,       \* what may happen outside in this instance: at Stripe, or a grant
    MaxFacts,    \* how many of those may happen
    MaxDay       \* the last day

FactKinds == {"subscribe", "change", "fail", "pay", "renew", "unpaid", "drop",
              "cancel", "resume", "end", "forget", "grant"}

ASSUME BillingAssumption ==
    /\ Grace \in Nat /\ Month \in Nat \ {0} /\ MaxFacts \in Nat /\ MaxDay \in Nat
    /\ Reminders \subseteq Nat /\ IsFiniteSet(Reminders)
    /\ Facts \subseteq FactKinds
    /\ Never \notin Nat
    /\ PaidTiers \cap {"free", "open_source"} = {}

VARIABLES
    row,      \* row[a]: the BillingSubscription of account a
    bill,     \* bill[a]: a's subscription at Stripe
    sent,     \* sent[a]: the events Stripe has emitted about a, oldest first
    handled,  \* handled[a]: those recorded in billing_webhook_event
    ordered,  \* ordered[a]: history: a's events were handled in order so far
    visited,  \* visited[a]: history: a pass acted on a's row after it had moved on
    todo,     \* the rows the running dunning pass has still to visit
    day,
    facts     \* how many of Facts have happened

vars == <<row, bill, sent, handled, ordered, visited, todo, day, facts>>

Tiers == PaidTiers \cup {"free", "open_source"}

(* since: past_due_since; grace_expires_at is always Grace days later.       *)
(* customer: the stored Stripe ids, 0 for none.  end: period_end, 0 for none. *)
(* Two fields are history, not columns: failed, the day it last became       *)
(* past_due, and mails, the payment-failed mails sent in this window.        *)
Row == [status : SubscriptionStatus, tier : Tiers, since : Nat \cup {Never},
        stage : Nat, cancel : BOOLEAN, customer : Nat, end : Nat, failed : Nat, mails : Nat]

Bill == [status : {"none", "active", "past_due", "unpaid", "canceled"},
         tier : Tiers, cancel : BOOLEAN, end : Nat, customer : Nat, gone : BOOLEAN]

Event == [kind : {"checkout", "upsert", "deleted", "forgotten", "paid", "failed"},
          customer : Nat, status : {"none", "active", "past_due", "unpaid", "canceled"},
          tier : Tiers, cancel : BOOLEAN, end : Nat]

-----------------------------------------------------------------------------
(* lifecycle.py *)

(* The tier whose limits apply. *)
EffectiveTier(r) == IF r.status \in EntitledStatuses THEN r.tier ELSE "free"

StillCounting(r) == [r EXCEPT !.cancel = FALSE, !.mails = 0, !.stage = 0]

(* The columns that entering active resets. *)
Recovered(r) == [r EXCEPT !.since = Never, !.stage = 0, !.mails = 0, !.cancel = FALSE]

(* The columns that the status just entered implies. *)
Entered(r) ==
    CASE r.status = "past_due" /\ r.since = Never ->
           [r EXCEPT !.since = day, !.failed = day, !.stage = 0, !.mails = 0]
      [] r.status = "past_due" /\ r.since # Never -> [r EXCEPT !.failed = day]
      [] r.status = "active" -> Recovered(r)
      [] r.status = "pending_cancellation" -> [r EXCEPT !.cancel = TRUE]
      [] r.status = "canceled" -> [r EXCEPT !.cancel = FALSE]
      [] OTHER -> r

(* transition: a no-op when the event is not legal. *)
Transition(r, event) ==
    IF Can(BillingMachine, event, r.status)
      THEN Entered([r EXCEPT !.status = Advance(BillingMachine, event, r.status)])
      ELSE r

(* At most one of the events a Stripe status may stand for is legal. *)
FirstLegal(r, events) ==
    LET legal == {event \in events : Can(BillingMachine, event, r.status)} IN
    IF legal = {} THEN r ELSE Transition(r, CHOOSE event \in legal : TRUE)

-----------------------------------------------------------------------------
(* The Stripe webhook *)

StatusEvents ==
    [active    |-> {"checkout_completed", "trial_converted", "payment_succeeded", "resumed"},
     past_due  |-> {"payment_failed", "trial_ended"},
     unpaid    |-> {"grace_expired", "payment_failed"}]

Matches(r, e) == r.customer # 0 /\ r.customer = e.customer

(* customer.subscription.created and updated *)
Upserted(r, e) ==
    LET known == [r EXCEPT !.end = e.end]
        sold  == [known EXCEPT !.tier = e.tier]
        moved == CASE e.status = "unpaid"  -> known
                   [] e.tier # r.tier      -> Transition(sold, "plan_changed")
                   [] OTHER                -> sold
        paid  == FirstLegal(moved, StatusEvents[e.status])
    IN IF e.cancel THEN Transition(paid, "cancel_requested") ELSE paid

DeletedIfActive(r) ==
    IF r.status = "active" THEN [Transition(r, "subscription_deleted") EXCEPT !.tier = "free"]
                           ELSE r

(* customer.subscription.deleted *)
Deleted(r) == [Transition(r, "subscription_deleted") EXCEPT !.tier = "free"]

(* invoice.payment_failed mails at once, if it moved the row. *)
PaymentFailed(r) ==
    IF Can(BillingMachine, "payment_failed", r.status)
      THEN [Transition(r, "payment_failed") EXCEPT !.mails = @ + 1] ELSE r

(* What the event does to the row; one that matches no row is only recorded. *)
(* A completed checkout carries the row's own id.                            *)
Applied(r, e) ==
    CASE e.kind = "checkout" ->
           Transition([r EXCEPT !.customer = e.customer], "checkout_completed")
      [] e.kind = "upsert" /\ Matches(r, e) -> Upserted(r, e)
      [] e.kind = "deleted" /\ Matches(r, e) -> Deleted(r)
      [] e.kind = "forgotten" /\ Matches(r, e) -> [Deleted(r) EXCEPT !.customer = 0]
      [] e.kind = "paid" /\ Matches(r, e) ->
           FirstLegal(r, {"payment_succeeded", "checkout_completed", "trial_converted"})
      [] e.kind = "failed" /\ Matches(r, e) -> PaymentFailed(r)
      [] OTHER -> r

Redeliverable(a) == DOMAIN sent[a]

(* An event id already recorded is answered "duplicate" and changes nothing. *)
Unhandled(a) == DOMAIN sent[a] \ handled[a]

HandleEvent(a) ==
    /\ \E i \in Unhandled(a) :
         /\ row' = [row EXCEPT ![a] = Applied(@, sent[a][i])]
         /\ handled' = [handled EXCEPT ![a] = @ \cup {i}]
         /\ ordered' = [ordered EXCEPT ![a] = @ /\ \A k \in 1 .. i - 1 : k \in handled[a]]
    /\ UNCHANGED <<bill, sent, visited, todo, day, facts>>

-----------------------------------------------------------------------------
(* Stripe *)

Says(a, kind) ==
    [kind |-> kind, customer |-> bill'[a].customer, status |-> bill'[a].status,
     tier |-> bill'[a].tier, cancel |-> bill'[a].cancel, end |-> bill'[a].end]

Fact(fact) == fact \in Facts /\ facts < MaxFacts /\ facts' = facts + 1

(* Something happens to a's subscription, and Stripe emits events about it. *)
AtStripe(fact, a, b, kinds) ==
    /\ Fact(fact)
    /\ bill' = [bill EXCEPT ![a] = b]
    /\ sent' = [sent EXCEPT ![a] = @ \o [i \in DOMAIN kinds |-> Says(a, kinds[i])]]
    /\ UNCHANGED <<handled, ordered, visited, todo, day>>

Live(a) == bill[a].status \in {"active", "past_due", "unpaid"}

ChargeFails(a) ==
    /\ bill[a].status = "active"
    /\ AtStripe("fail", a, [bill[a] EXCEPT !.status = "past_due"], <<"failed", "upsert">>)
    /\ UNCHANGED row

InvoicePaid(a) ==
    /\ bill[a].status \in {"past_due", "unpaid"}
    /\ AtStripe("pay", a, [bill[a] EXCEPT !.status = "active"], <<"paid", "upsert">>)
    /\ UNCHANGED row

Renews(a) ==
    /\ bill[a].status = "active" /\ ~bill[a].cancel /\ day >= bill[a].end
    /\ AtStripe("renew", a, [bill[a] EXCEPT !.end = @ + Month], <<"paid", "upsert">>)
    /\ UNCHANGED row

(* Stripe gives up collecting: it keeps the subscription unpaid, or ends it. *)
MarkedUnpaid(a) ==
    /\ bill[a].status = "past_due"
    /\ AtStripe("unpaid", a, [bill[a] EXCEPT !.status = "unpaid"], <<"upsert">>)
    /\ UNCHANGED row

Dropped(a) ==
    /\ Live(a)
    /\ AtStripe("drop", a, [bill[a] EXCEPT !.status = "canceled"], <<"deleted">>)
    /\ UNCHANGED row

PeriodEnds(a) ==
    /\ Live(a) /\ bill[a].cancel /\ day >= bill[a].end
    /\ AtStripe("end", a, [bill[a] EXCEPT !.status = "canceled"], <<"deleted">>)
    /\ UNCHANGED row

(* The portal, open to an account whose customer is stored. *)
CancelInPortal(a) ==
    /\ row[a].customer # 0 /\ Live(a) /\ ~bill[a].cancel
    /\ AtStripe("cancel", a, [bill[a] EXCEPT !.cancel = TRUE], <<"upsert">>)
    /\ UNCHANGED row

ResumeInPortal(a) ==
    /\ row[a].customer # 0 /\ Live(a) /\ bill[a].cancel
    /\ AtStripe("resume", a, [bill[a] EXCEPT !.cancel = FALSE], <<"upsert">>)
    /\ UNCHANGED row

(* The customer is deleted, and its subscription with it. *)
CustomerDeleted(a) ==
    /\ bill[a].customer # 0 /\ ~bill[a].gone
    /\ AtStripe("forget", a, [bill[a] EXCEPT !.status = IF Live(a) THEN "canceled" ELSE @,
                                             !.gone = TRUE],
                IF Live(a) THEN <<"deleted", "forgotten">> ELSE <<"forgotten">>)
    /\ UNCHANGED row

-----------------------------------------------------------------------------
(* Routes *)

(* Stripe already bills the account on a subscription it can change. *)
HasLiveSubscription(r) == r.customer # 0 /\ r.status = "active"

Buys(r, tier) == ~(r.tier = tier /\ r.status = "active")

(* POST /billing/checkout-sessions, and the user pays.  A stored customer is *)
(* reused; one that Stripe no longer has is forgotten.  Not modelled: a      *)
(* checkout while an earlier subscription lives on at Stripe.                *)
Subscribe(a, tier) ==
    LET reused == row[a].customer # 0 /\ ~bill[a].gone
        b == [status |-> "active", tier |-> tier, cancel |-> FALSE, end |-> day + Month,
              customer |-> IF reused THEN row[a].customer ELSE bill[a].customer + 1,
              gone |-> FALSE]
    IN
    /\ Buys(row[a], tier) /\ ~HasLiveSubscription(row[a]) /\ ~Live(a)
    /\ AtStripe("subscribe", a, b, <<"checkout", "upsert", "paid">>)
    /\ row' = IF reused THEN row ELSE [row EXCEPT ![a].customer = 0]

(* The same route on a live subscription: Stripe's plan-change page. *)
ChangePlan(a, tier) ==
    /\ Buys(row[a], tier) /\ HasLiveSubscription(row[a])
    /\ bill[a].status = "active" /\ bill[a].customer = row[a].customer
    /\ AtStripe("change", a, [bill[a] EXCEPT !.tier = tier], <<"upsert">>)
    /\ UNCHANGED row

(* PATCH /billing/oss-applications: an approval grants the tier. *)
ApproveOss(a) ==
    /\ Fact("grant")
    /\ row' = [row EXCEPT ![a].tier = "open_source"]
    /\ UNCHANGED <<bill, sent, handled, ordered, visited, todo, day>>

(* ensure_current_period, as the workers commit it.  The first of a calendar *)
(* month is a multiple of Month.                                             *)
RollPeriod(a) ==
    /\ day >= row[a].end
    /\ row' = [row EXCEPT ![a].end = (day \div Month + 1) * Month]
    /\ UNCHANGED <<bill, sent, handled, ordered, visited, todo, day, facts>>

-----------------------------------------------------------------------------
(* The daily dunning pass *)

DueStage(days) == Cardinality({d \in Reminders : days >= d})

ReminderNotRecorded(r) ==
    IF DueStage(day - r.since) > r.stage THEN [r EXCEPT !.mails = @ + 1] ELSE r

(* At most one mail, however many reminders are owed. *)
Reminded(r) ==
    LET due == DueStage(day - r.since) IN
    IF due > r.stage THEN [r EXCEPT !.stage = due, !.mails = @ + 1] ELSE r

(* What the pass does to a row on its list, whatever its status is by now. *)
Dunned(r) ==
    LET stamped == IF r.since = Never THEN [r EXCEPT !.since = day] ELSE r IN
    IF day >= stamped.since + Grace
      THEN Transition(stamped, "grace_expired")
      ELSE Reminded(stamped)

(* The list is loaded; up to the first row that changes, and commits, the    *)
(* pass works on what it loaded.  That row may be of an account outside      *)
(* Accounts, which the instance does not follow.                             *)
StartDunning ==
    LET late == {a \in Accounts : row[a].status = "past_due"}
        due  == {a \in late : Dunned(row[a]) # row[a]}
    IN
    /\ todo = {}
    /\ \E acted \in {{a} : a \in due} \cup {{}}, skipped \in SUBSET (late \ due) :
         /\ row' = [a \in Accounts |-> IF a \in acted THEN Dunned(row[a]) ELSE row[a]]
         /\ todo' = late \ (skipped \cup acted)
    /\ UNCHANGED <<bill, sent, handled, ordered, visited, day, facts>>

DunNext ==
    /\ \E a \in todo :
         /\ row' = [row EXCEPT ![a] = Dunned(@)]
         /\ todo' = todo \ {a}
         /\ visited' = [visited EXCEPT ![a] = @ \/ row[a].status # "past_due"]
    /\ UNCHANGED <<bill, sent, handled, ordered, day, facts>>

(* The worker dies; the next pass loads the list anew. *)
DunningDies ==
    /\ todo # {} /\ todo' = {}
    /\ UNCHANGED <<row, bill, sent, handled, ordered, visited, day, facts>>

(* The pass also ends cancellations whose period is over. *)
FinishCancellation(a) ==
    /\ row[a].status = "pending_cancellation" /\ row[a].end # 0 /\ day >= row[a].end
    /\ row' = [row EXCEPT ![a] = [Transition(@, "period_ended") EXCEPT !.tier = "free"]]
    /\ UNCHANGED <<bill, sent, handled, ordered, visited, todo, day, facts>>

(* A pass ends on the day it starts. *)
NextDay ==
    /\ day < MaxDay /\ todo = {}
    /\ day' = day + 1
    /\ UNCHANGED <<row, bill, sent, handled, ordered, visited, todo, facts>>

-----------------------------------------------------------------------------
(* Every account is created active, on the free tier; some have since bought *)
(* a plan and are paid up.                                                   *)
Init ==
    /\ \E plan \in [Accounts -> PaidTiers \cup {"free"}] :
         LET paying(a) == plan[a] # "free"
             customer(a) == IF paying(a) THEN 1 ELSE 0
             end(a) == IF paying(a) THEN Month ELSE 0
         IN
         /\ row = [a \in Accounts |->
                     [status |-> "active", tier |-> plan[a], since |-> Never, stage |-> 0,
                      cancel |-> FALSE, customer |-> customer(a), end |-> end(a),
                      failed |-> 0, mails |-> 0]]
         /\ bill = [a \in Accounts |->
                      [status |-> IF paying(a) THEN "active" ELSE "none", tier |-> plan[a],
                       cancel |-> FALSE, end |-> end(a), customer |-> customer(a),
                       gone |-> FALSE]]
    /\ sent = [a \in Accounts |-> <<>>]
    /\ handled = [a \in Accounts |-> {}]
    /\ ordered = [a \in Accounts |-> TRUE]
    /\ visited = [a \in Accounts |-> FALSE]
    /\ todo = {}
    /\ day = 0
    /\ facts = 0

Stripe(a) ==
    \/ ChargeFails(a) \/ InvoicePaid(a) \/ Renews(a) \/ MarkedUnpaid(a) \/ Dropped(a)
    \/ PeriodEnds(a) \/ CancelInPortal(a) \/ ResumeInPortal(a) \/ CustomerDeleted(a)

Request(a) ==
    \/ \E tier \in PaidTiers : Subscribe(a, tier) \/ ChangePlan(a, tier)
    \/ ApproveOss(a)
    \/ RollPeriod(a)

Next ==
    \/ \E a \in Accounts : Stripe(a) \/ Request(a) \/ HandleEvent(a) \/ FinishCancellation(a)
    \/ StartDunning \/ DunNext \/ DunningDies
    \/ NextDay

Spec == Init /\ [][Next]_vars

-----------------------------------------------------------------------------
(* Invariants *)

(* Every variable has its type. *)
TypeOK ==
    /\ row \in [Accounts -> Row]
    /\ bill \in [Accounts -> Bill]
    /\ sent \in [Accounts -> Seq(Event)]
    /\ handled \in [Accounts -> SUBSET Nat]
    /\ \A a \in Accounts : handled[a] \subseteq DOMAIN sent[a]
    /\ ordered \in [Accounts -> BOOLEAN]
    /\ visited \in [Accounts -> BOOLEAN]
    /\ todo \subseteq Accounts
    /\ day \in Nat
    /\ facts \in Nat

(* Stripe has told us, in an event already handled, that it gave up. *)
ToldUnpaid(a) == \E i \in handled[a] : sent[a][i].kind = "upsert" /\ sent[a][i].status = "unpaid"

(* A past_due account always has a grace window, and it began with this      *)
(* failure, not an earlier one; it is limited only when that window is over  *)
(* or Stripe gave up.  Except for what a pass does to a row that moved on.   *)
GraceIsKept ==
    \A a \in Accounts :
      /\ row[a].status = "past_due" => row[a].since # Never
      /\ ~visited[a] =>
           /\ row[a].status = "past_due" => row[a].since = row[a].failed
           /\ row[a].status = "unpaid" => ToldUnpaid(a) \/ day >= row[a].failed + Grace

(* The recorded stage is what has gone out, but for the mail sent at once    *)
(* with the failure.                                                         *)
RemindersRecorded == \A a \in Accounts : row[a].mails <= row[a].stage + 1

InStep(a) == ordered[a] /\ handled[a] = DOMAIN sent[a]

(* When every event has arrived, and in order, an account that pays Stripe   *)
(* has what it pays for, unless its row has reached the final state.         *)
PaidIsServed ==
    \A a \in Accounts :
      InStep(a) /\ bill[a].status = "active" /\ row[a].status # "canceled" =>
        /\ row[a].status = IF bill[a].cancel THEN "pending_cancellation" ELSE "active"
        /\ EffectiveTier(row[a]) \in {bill[a].tier, "open_source"}

(* And one that Stripe no longer bills is on no paid plan. *)
GoneIsFree ==
    \A a \in Accounts :
      InStep(a) /\ ~Live(a) => EffectiveTier(row[a]) \notin PaidTiers
=============================================================================
