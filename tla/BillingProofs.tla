--------------------------- MODULE BillingProofs ----------------------------
(***************************************************************************)
(* TypeOK, GraceIsKept, RemindersRecorded, PaidIsServed and GoneIsFree of  *)
(* Billing, for every set of accounts, every window, schedule and month,   *)
(* and every kind and number of facts.                                     *)
(***************************************************************************)
EXTENDS Billing, FiniteSetTheorems, SequenceTheorems, TLAPS

(***************************************************************************)
(* Rows.  Graced is GraceIsKept of one row, and what makes it inductive:   *)
(* an active row carries no window that the next failure could inherit.    *)
(***************************************************************************)

Graced(r, told, moved) ==
    /\ r.status \notin {"incomplete", "trialing"}
    /\ r.status = "past_due" => r.since # Never
    /\ ~moved =>
         /\ r.status = "active" => r.since = Never
         /\ r.status = "past_due" => r.since = r.failed
         /\ r.status = "unpaid" => told \/ day >= r.failed + Grace

Firing == DOMAIN BillingMachine

LEMMA Edges ==
    ASSUME NEW s, NEW event \in Firing, Can(BillingMachine, event, s)
    PROVE  LET t == Advance(BillingMachine, event, s) IN
           /\ t \in SubscriptionStatus
           /\ t \in {"incomplete", "trialing"} => s \in {"incomplete", "trialing"}
           /\ t = "past_due" => s \in {"active", "trialing"}
           /\ t = "unpaid" => s = "past_due" /\ event = "grace_expired"
  BY DEF Firing, Can, Advance, BillingMachine, SubscriptionStatus

LEMMA MovedType ==
    ASSUME NEW r \in Row, NEW s \in SubscriptionStatus
    PROVE  LET q == [r EXCEPT !.status = s] IN
           /\ q \in Row /\ q.status = s
           /\ q.since = r.since /\ q.failed = r.failed /\ q.mails = r.mails /\ q.stage = r.stage
  BY DEF Row

LEMMA EnteredType ==
    ASSUME day \in Nat, NEW r \in Row
    PROVE  /\ Entered(r) \in Row
           /\ Entered(r).status = r.status
           /\ r.status = "active" => Entered(r).since = Never
           /\ r.status = "past_due" =>
                /\ Entered(r).since # Never /\ Entered(r).failed = day
                /\ r.since = Never => Entered(r).since = day
           /\ r.status = "unpaid" => Entered(r) = r
<1>1. CASE r.status = "active"
  BY <1>1 DEF Entered, Recovered, Row
<1>2. CASE r.status = "past_due" /\ r.since = Never
  BY <1>2, BillingAssumption DEF Entered, Row
<1>3. CASE r.status = "past_due" /\ r.since # Never
  BY <1>3 DEF Entered, Row
<1>4. CASE r.status \notin {"active", "past_due"}
  BY <1>4 DEF Entered, Row
<1>5. QED
  BY <1>1, <1>2, <1>3, <1>4

LEMMA TransitionType ==
    ASSUME day \in Nat, NEW r \in Row, NEW event \in Firing
    PROVE  Transition(r, event) \in Row
<1>1. CASE Can(BillingMachine, event, r.status)
  BY <1>1, Edges, MovedType, EnteredType DEF Transition
<1>2. CASE ~Can(BillingMachine, event, r.status)
  BY <1>2 DEF Transition
<1>3. QED
  BY <1>1, <1>2

(* The window may be closed when it is over, or on Stripe's word. *)
LEMMA TransitionGrace ==
    ASSUME day \in Nat, NEW r \in Row, NEW event \in Firing, NEW told, NEW moved,
           Graced(r, told, moved),
           event = "grace_expired" =>
             moved \/ told \/ (r.status = "past_due" => day >= r.since + Grace)
    PROVE  Graced(Transition(r, event), told, moved)
<1>1. CASE ~Can(BillingMachine, event, r.status)
  BY <1>1 DEF Transition
<1>2. CASE Can(BillingMachine, event, r.status)
  <2> DEFINE t == Advance(BillingMachine, event, r.status)
             q == [r EXCEPT !.status = t]
  <2>1. /\ t \in SubscriptionStatus /\ t \notin {"incomplete", "trialing"}
        /\ t = "past_due" => r.status = "active"
        /\ t = "unpaid" => r.status = "past_due" /\ event = "grace_expired"
    BY <1>2, Edges DEF Graced
  <2>2. q \in Row /\ q.status = t /\ q.since = r.since /\ q.failed = r.failed
    BY <2>1, MovedType
  <2>3. Transition(r, event) = Entered(q)
    BY <1>2 DEF Transition
  <2> HIDE DEF t, q
  <2>4. CASE t = "past_due"
    <3>1. ~moved => q.since = Never
      BY <2>1, <2>2, <2>4 DEF Graced
    <3>2. /\ Entered(q).status = "past_due" /\ Entered(q).since # Never
          /\ Entered(q).failed = day /\ (~moved => Entered(q).since = day)
      BY <2>2, <2>4, <3>1, EnteredType
    <3>3. QED
      BY <2>3, <3>2 DEF Graced
  <2>5. CASE t = "unpaid"
    <3>1. Entered(q) = q
      BY <2>2, <2>5, EnteredType
    <3>2. ~moved => told \/ day >= r.failed + Grace
      BY <2>1, <2>5 DEF Graced
    <3>3. QED
      BY <2>2, <2>3, <2>5, <3>1, <3>2 DEF Graced
  <2>6. CASE t = "active"
    BY <2>2, <2>3, <2>6, EnteredType DEF Graced
  <2>7. CASE t \notin {"past_due", "unpaid", "active"}
    BY <2>1, <2>2, <2>3, <2>7, EnteredType DEF Graced
  <2>8. QED
    BY <2>4, <2>5, <2>6, <2>7
<1>3. QED
  BY <1>1, <1>2

(* Graced looks at three columns. *)
LEMMA SameGrace ==
    ASSUME NEW r, NEW q, NEW told, NEW moved, Graced(r, told, moved),
           q.status = r.status, q.since = r.since, q.failed = r.failed
    PROVE  Graced(q, told, moved)
  BY DEF Graced

LEMMA FirstLegalOne ==
    ASSUME NEW r, NEW events
    PROVE  \/ FirstLegal(r, events) = r
           \/ \E event \in events : FirstLegal(r, events) = Transition(r, event)
  BY DEF FirstLegal

-----------------------------------------------------------------------------
(***************************************************************************)
(* The webhook's handlers.                                                 *)
(***************************************************************************)

(* What the webhook relies on of an event: an upsert names a Stripe status   *)
(* that StatusEvents lists.                                                  *)
Said == {e \in Event : e.kind = "upsert" => e.status \in DOMAIN StatusEvents}

(* A handler may only be told "unpaid" by a handled event. *)
Graver(e, told) == e.kind = "upsert" /\ e.status = "unpaid" => told

LEMMA StatusEventsFire ==
    /\ DOMAIN StatusEvents = {"active", "past_due", "unpaid"}
    /\ \A s \in DOMAIN StatusEvents : StatusEvents[s] \subseteq Firing
    /\ \A s \in DOMAIN StatusEvents : "grace_expired" \in StatusEvents[s] => s = "unpaid"
  BY DEF StatusEvents, Firing, BillingMachine

LEMMA FirstLegalKeeps ==
    ASSUME day \in Nat, NEW r \in Row, NEW events \in SUBSET Firing, NEW told, NEW moved,
           "grace_expired" \in events => told
    PROVE  /\ FirstLegal(r, events) \in Row
           /\ Graced(r, told, moved) => Graced(FirstLegal(r, events), told, moved)
<1>1. CASE FirstLegal(r, events) = r
  BY <1>1
<1>2. ASSUME NEW event \in events, FirstLegal(r, events) = Transition(r, event)
      PROVE  /\ FirstLegal(r, events) \in Row
             /\ Graced(r, told, moved) => Graced(FirstLegal(r, events), told, moved)
  BY <1>2, TransitionType, TransitionGrace
<1>3. QED
  BY <1>1, <1>2, FirstLegalOne

LEMMA TransitionKeeps ==
    ASSUME day \in Nat, NEW r \in Row, NEW event \in Firing \ {"grace_expired"},
           NEW told, NEW moved
    PROVE  /\ Transition(r, event) \in Row
           /\ Graced(r, told, moved) => Graced(Transition(r, event), told, moved)
  BY TransitionType, TransitionGrace

(* The handlers' columns that Graced does not look at. *)
LEMMA ColumnsKept ==
    ASSUME NEW r \in Row, NEW tier \in Tiers, NEW end \in Nat, NEW customer \in Nat,
           NEW mails \in Nat, NEW told, NEW moved
    PROVE  \A q \in {[r EXCEPT !.tier = tier], [r EXCEPT !.end = end],
                     [r EXCEPT !.customer = customer], [r EXCEPT !.mails = mails]} :
             /\ q \in Row
             /\ Graced(r, told, moved) => Graced(q, told, moved)
<1>1. SUFFICES ASSUME NEW q \in {[r EXCEPT !.tier = tier], [r EXCEPT !.end = end],
                                 [r EXCEPT !.customer = customer], [r EXCEPT !.mails = mails]}
               PROVE  /\ q \in Row /\ q.status = r.status
                      /\ q.since = r.since /\ q.failed = r.failed
  BY SameGrace
<1>2. QED
  BY DEF Row

LEMMA UpsertedKeeps ==
    ASSUME day \in Nat, NEW r \in Row, NEW e \in Said, e.kind = "upsert",
           NEW told, NEW moved, Graver(e, told)
    PROVE  /\ Upserted(r, e) \in Row
           /\ Graced(r, told, moved) => Graced(Upserted(r, e), told, moved)
<1> DEFINE known == [r EXCEPT !.end = e.end]
           sold  == [known EXCEPT !.tier = e.tier]
           moving == CASE e.status = "unpaid"  -> known
                      [] e.tier # r.tier       -> Transition(sold, "plan_changed")
                      [] OTHER                 -> sold
           paid  == FirstLegal(moving, StatusEvents[e.status])
           Keeps(q) == q \in Row /\ (Graced(r, told, moved) => Graced(q, told, moved))
<1>1. e.end \in Nat /\ e.tier \in Tiers /\ e.status \in DOMAIN StatusEvents
  BY DEF Said, Event
<1>2. /\ "plan_changed" \in Firing \ {"grace_expired"}
      /\ "cancel_requested" \in Firing \ {"grace_expired"}
  BY DEF Firing, BillingMachine
<1>3. Keeps(known) /\ 0 \in Nat
  BY <1>1, ColumnsKept
<1> HIDE DEF known
<1>4. Keeps(sold)
  BY <1>1, <1>3, ColumnsKept
<1> HIDE DEF sold
<1>5. Keeps(moving)
  BY <1>2, <1>3, <1>4, TransitionKeeps
<1>6. Upserted(r, e) = IF e.cancel THEN Transition(paid, "cancel_requested") ELSE paid
  BY DEF Upserted, known, sold
<1> HIDE DEF moving
<1>7. Keeps(paid)
  <2>1. /\ StatusEvents[e.status] \in SUBSET Firing
        /\ "grace_expired" \in StatusEvents[e.status] => told
    BY <1>1, StatusEventsFire DEF Graver
  <2>2. QED
    BY <1>5, <2>1, FirstLegalKeeps
<1> HIDE DEF paid
<1>8. QED
  BY <1>2, <1>6, <1>7, TransitionKeeps

LEMMA DeletedKeeps ==
    ASSUME day \in Nat, NEW r \in Row, NEW told, NEW moved
    PROVE  /\ Deleted(r) \in Row
           /\ Graced(r, told, moved) => Graced(Deleted(r), told, moved)
<1>1. "subscription_deleted" \in Firing \ {"grace_expired"}
  BY DEF Firing, BillingMachine
<1>2. "free" \in Tiers /\ 0 \in Nat
  BY DEF Tiers
<1>3. QED
  BY <1>1, <1>2, TransitionKeeps, ColumnsKept DEF Deleted

LEMMA PaymentFailedKeeps ==
    ASSUME day \in Nat, NEW r \in Row, NEW told, NEW moved
    PROVE  /\ PaymentFailed(r) \in Row
           /\ Graced(r, told, moved) => Graced(PaymentFailed(r), told, moved)
<1> DEFINE q == Transition(r, "payment_failed")
<1>1. "payment_failed" \in Firing \ {"grace_expired"}
  BY DEF Firing, BillingMachine
<1>2. q \in Row /\ (Graced(r, told, moved) => Graced(q, told, moved))
  BY <1>1, TransitionKeeps
<1> HIDE DEF q
<1>3. q.mails + 1 \in Nat /\ 0 \in Nat /\ "free" \in Tiers
  BY <1>2 DEF Row, Tiers
<1>4. [q EXCEPT !.mails = @ + 1] = [q EXCEPT !.mails = q.mails + 1]
  OBVIOUS
<1>5. /\ [q EXCEPT !.mails = @ + 1] \in Row
      /\ Graced(r, told, moved) => Graced([q EXCEPT !.mails = @ + 1], told, moved)
  BY <1>2, <1>3, <1>4, ColumnsKept
<1>6. QED
  BY <1>5 DEF PaymentFailed, q

LEMMA AppliedKeeps ==
    ASSUME day \in Nat, NEW r \in Row, NEW e \in Said, NEW told, NEW moved,
           Graver(e, told)
    PROVE  /\ Applied(r, e) \in Row
           /\ Graced(r, told, moved) => Graced(Applied(r, e), told, moved)
<1> DEFINE Keeps(q) == q \in Row /\ (Graced(r, told, moved) => Graced(q, told, moved))
<1>0. Keeps(r) /\ e.customer \in Nat /\ 0 \in Nat /\ "free" \in Tiers
  BY DEF Said, Event, Tiers
<1>1. CASE e.kind = "checkout"
  <2>1. "checkout_completed" \in Firing \ {"grace_expired"}
    BY DEF Firing, BillingMachine
  <2>2. Keeps([r EXCEPT !.customer = e.customer])
    BY <1>0, ColumnsKept
  <2>3. Applied(r, e) = Transition([r EXCEPT !.customer = e.customer], "checkout_completed")
    BY <1>1 DEF Applied
  <2>4. QED
    BY <2>1, <2>2, <2>3, TransitionKeeps
<1>2. CASE e.kind = "upsert"
  BY <1>0, <1>2, UpsertedKeeps DEF Applied
<1>3. CASE e.kind = "deleted"
  BY <1>0, <1>3, DeletedKeeps DEF Applied
<1>4. CASE e.kind = "forgotten"
  <2>1. Keeps([Deleted(r) EXCEPT !.customer = 0])
    BY <1>0, DeletedKeeps, ColumnsKept
  <2>2. Applied(r, e) \in {r, [Deleted(r) EXCEPT !.customer = 0]}
    BY <1>4 DEF Applied
  <2>3. QED
    BY <1>0, <2>1, <2>2
<1>5. CASE e.kind = "paid"
  <2> DEFINE events == {"payment_succeeded", "checkout_completed", "trial_converted"}
  <2>1. events \in SUBSET Firing /\ "grace_expired" \notin events
    BY DEF Firing, BillingMachine
  <2>2. Applied(r, e) \in {r, FirstLegal(r, events)}
    BY <1>5 DEF Applied
  <2> HIDE DEF events
  <2>3. Keeps(FirstLegal(r, events))
    BY <2>1, FirstLegalKeeps
  <2>4. QED
    BY <1>0, <2>2, <2>3
<1>6. CASE e.kind = "failed"
  BY <1>0, <1>6, PaymentFailedKeeps DEF Applied
<1>7. e.kind \in {"checkout", "upsert", "deleted", "forgotten", "paid", "failed"}
  BY DEF Said, Event
<1>8. QED
  BY <1>1, <1>2, <1>3, <1>4, <1>5, <1>6, <1>7

-----------------------------------------------------------------------------
(***************************************************************************)
(* The dunning pass.                                                       *)
(***************************************************************************)

LEMMA DueStageType ==
    ASSUME NEW days
    PROVE  DueStage(days) \in Nat
<1> DEFINE late == {d \in Reminders : days >= d}
<1>1. IsFiniteSet(Reminders) /\ late \in SUBSET Reminders
  BY BillingAssumption
<1>2. IsFiniteSet(late)
  BY <1>1, FS_Subset
<1>3. QED
  BY <1>2, FS_CardinalityType DEF DueStage

LEMMA RemindedType ==
    ASSUME NEW r \in Row
    PROVE  /\ Reminded(r) \in Row /\ Reminded(r).status = r.status
           /\ Reminded(r).since = r.since /\ Reminded(r).failed = r.failed
<1>1. ASSUME NEW due \in Nat, NEW mails \in Nat
      PROVE  LET q == [r EXCEPT !.stage = due, !.mails = mails] IN
             /\ q \in Row /\ q.status = r.status
             /\ q.since = r.since /\ q.failed = r.failed
  BY DEF Row
<1>2. DueStage(day - r.since) \in Nat /\ r.mails + 1 \in Nat
  BY DueStageType DEF Row
<1>3. QED
  BY <1>1, <1>2 DEF Reminded

(* On a row that is still past_due the pass keeps the window; on one that    *)
(* has moved on it may not, which is what visited records.                   *)
LEMMA DunnedKeeps ==
    ASSUME day \in Nat, NEW r \in Row, NEW told, NEW moved,
           Graced(r, told, moved), r.status # "past_due" => moved
    PROVE  /\ Dunned(r) \in Row
           /\ Graced(Dunned(r), told, moved)
<1> DEFINE stamped == IF r.since = Never THEN [r EXCEPT !.since = day] ELSE r
<1>1. /\ stamped \in Row /\ stamped.status = r.status
      /\ r.status = "past_due" => stamped = r
  BY DEF Row, Graced
<1>2. Graced(stamped, told, moved)
  BY <1>1 DEF Graced
<1>3. \/ day >= stamped.since + Grace /\ Dunned(r) = Transition(stamped, "grace_expired")
      \/ Dunned(r) = Reminded(stamped)
  BY DEF Dunned
<1> HIDE DEF stamped
<1>4. "grace_expired" \in Firing
  BY DEF Firing, BillingMachine
<1>5. CASE day >= stamped.since + Grace /\ Dunned(r) = Transition(stamped, "grace_expired")
  BY <1>1, <1>2, <1>4, <1>5, TransitionType, TransitionGrace
<1>6. CASE Dunned(r) = Reminded(stamped)
  BY <1>1, <1>2, <1>6, RemindedType, SameGrace
<1>7. QED
  BY <1>3, <1>5, <1>6

-----------------------------------------------------------------------------
(***************************************************************************)
(* The inductive invariant.                                                *)
(***************************************************************************)

GraceInv ==
    /\ TypeOK
    /\ sent \in [Accounts -> Seq(Said)]
    /\ \A a \in Accounts : Graced(row[a], ToldUnpaid(a), visited[a])

(* The log of events only grows, and so does what was handled of it. *)
LogKept ==
    /\ sent' \in [Accounts -> Seq(Said)]
    /\ \A a \in Accounts :
         /\ handled'[a] \subseteq DOMAIN sent'[a]
         /\ handled[a] \subseteq handled'[a]
         /\ \A i \in handled[a] : sent'[a][i] = sent[a][i]

LEMMA SaidAreEvents == Seq(Said) \subseteq Seq(Event)
  BY DEF Said

LEMMA ToldStays ==
    ASSUME LogKept, NEW a \in Accounts, ToldUnpaid(a)
    PROVE  ToldUnpaid(a)'
  BY DEF LogKept, ToldUnpaid

LEMMA LogUnchanged ==
    ASSUME GraceInv, UNCHANGED <<sent, handled>>
    PROVE  LogKept
  BY DEF GraceInv, TypeOK, LogKept

(* Steps that leave the three columns of Graced alone. *)
LEMMA QuietStep ==
    ASSUME GraceInv, LogKept, TypeOK', day' >= day, UNCHANGED visited,
           \A a \in Accounts : /\ row'[a].status = row[a].status
                               /\ row'[a].since = row[a].since
                               /\ row'[a].failed = row[a].failed
    PROVE  GraceInv'
<1>1. ASSUME NEW a \in Accounts
      PROVE  Graced(row[a], ToldUnpaid(a), visited[a])'
  <2>1. Graced(row[a], ToldUnpaid(a), visited[a])
    BY DEF GraceInv
  <2>2. ToldUnpaid(a) => ToldUnpaid(a)'
    BY ToldStays
  <2>3. day >= row[a].failed + Grace => day' >= row'[a].failed + Grace
    <3>1. day \in Nat /\ day' \in Nat /\ row[a].failed \in Nat /\ Grace \in Nat
      BY BillingAssumption DEF GraceInv, TypeOK, Row
    <3>2. QED
      BY <3>1
  <2>4. QED
    BY <2>1, <2>2, <2>3 DEF Graced
<1>2. QED
  BY <1>1 DEF GraceInv, LogKept

-----------------------------------------------------------------------------
(***************************************************************************)
(* The steps at Stripe.                                                    *)
(***************************************************************************)

Kinds == {"checkout", "upsert", "deleted", "forgotten", "paid", "failed"}

LEMMA EmittedType ==
    ASSUME NEW a, NEW kinds \in Seq(Kinds), bill'[a] \in Bill,
           \A i \in DOMAIN kinds : kinds[i] = "upsert" => bill'[a].status \in DOMAIN StatusEvents
    PROVE  [i \in DOMAIN kinds |-> Says(a, kinds[i])] \in Seq(Said)
<1> DEFINE emitted == [i \in DOMAIN kinds |-> Says(a, kinds[i])]
<1>1. \A i \in DOMAIN kinds : kinds[i] \in Kinds
  OBVIOUS
<1>2. ASSUME NEW kind \in Kinds, kind = "upsert" => bill'[a].status \in DOMAIN StatusEvents
      PROVE  Says(a, kind) \in Said
  BY <1>2 DEF Says, Said, Event, Bill, Kinds
<1>3. \A i \in DOMAIN kinds : Says(a, kinds[i]) \in Said
  BY <1>1, <1>2
<1>4. DOMAIN kinds = 1 .. Len(kinds) /\ Len(kinds) \in Nat
  OBVIOUS
<1>5. emitted \in [1 .. Len(kinds) -> Said]
  BY <1>3, <1>4
<1>6. QED
  BY <1>4, <1>5, SeqDef

LEMMA LogGrows ==
    ASSUME GraceInv, NEW a \in Accounts, NEW fact, NEW b \in Bill, NEW kinds \in Seq(Kinds),
           AtStripe(fact, a, b, kinds),
           \A i \in DOMAIN kinds : kinds[i] = "upsert" => b.status \in DOMAIN StatusEvents
    PROVE  /\ LogKept
           /\ bill' \in [Accounts -> Bill] /\ facts' \in Nat
           /\ UNCHANGED <<handled, ordered, visited, todo, day>>
<1> DEFINE emitted == [i \in DOMAIN kinds |-> Says(a, kinds[i])]
<1>1. /\ bill' = [bill EXCEPT ![a] = b]
      /\ sent' = [sent EXCEPT ![a] = sent[a] \o emitted]
      /\ facts' = facts + 1
      /\ UNCHANGED <<handled, ordered, visited, todo, day>>
  BY DEF AtStripe, Fact
<1>2. bill' \in [Accounts -> Bill] /\ bill'[a] = b /\ facts' \in Nat
  BY <1>1 DEF GraceInv, TypeOK
<1>3. emitted \in Seq(Said)
  BY <1>2, EmittedType
<1> HIDE DEF emitted
<1>4. ASSUME NEW c \in Accounts
      PROVE  /\ sent'[c] \in Seq(Said)
             /\ DOMAIN sent[c] \subseteq DOMAIN sent'[c]
             /\ \A i \in DOMAIN sent[c] : sent'[c][i] = sent[c][i]
  <2>1. sent[c] \in Seq(Said)
    BY DEF GraceInv
  <2>2. CASE c # a
    BY <1>1, <2>1, <2>2 DEF GraceInv
  <2>3. CASE c = a
    <3>1. sent'[c] = sent[c] \o emitted
      BY <1>1, <2>3 DEF GraceInv
    <3>2. QED
      BY <1>3, <2>1, <3>1, ConcatProperties
  <2>4. QED
    BY <2>2, <2>3
<1>5. sent' \in [Accounts -> Seq(Said)]
  BY <1>1, <1>4 DEF GraceInv
<1>6. LogKept
  BY <1>1, <1>4, <1>5 DEF LogKept, GraceInv, TypeOK
<1>7. QED
  BY <1>1, <1>2, <1>6

LEMMA BillColumns ==
    ASSUME NEW b \in Bill
    PROVE  /\ \A status \in {"none", "active", "past_due", "unpaid", "canceled"} :
                /\ [b EXCEPT !.status = status] \in Bill
                /\ [b EXCEPT !.status = status].status = status
                /\ [b EXCEPT !.status = status, !.gone = TRUE] \in Bill
           /\ \A cancel \in BOOLEAN :
                /\ [b EXCEPT !.cancel = cancel] \in Bill
                /\ [b EXCEPT !.cancel = cancel].status = b.status
           /\ \A end \in Nat :
                /\ [b EXCEPT !.end = end] \in Bill
                /\ [b EXCEPT !.end = end].status = b.status
           /\ \A tier \in Tiers :
                /\ [b EXCEPT !.tier = tier] \in Bill
                /\ [b EXCEPT !.tier = tier].status = b.status
  BY DEF Bill

(* A step at Stripe that leaves the row alone. *)
LEMMA StripeQuiet ==
    ASSUME GraceInv, NEW a \in Accounts, NEW fact, NEW b \in Bill, NEW kinds \in Seq(Kinds),
           AtStripe(fact, a, b, kinds), UNCHANGED row,
           b.status \in DOMAIN StatusEvents \/ kinds \in Seq(Kinds \ {"upsert"})
    PROVE  GraceInv'
<1>1. \A i \in DOMAIN kinds : kinds[i] = "upsert" => b.status \in DOMAIN StatusEvents
  OBVIOUS
<1>2. /\ LogKept /\ bill' \in [Accounts -> Bill] /\ facts' \in Nat
      /\ UNCHANGED <<row, handled, ordered, visited, todo, day>>
  BY <1>1, LogGrows
<1>3. TypeOK'
  BY <1>2, SaidAreEvents DEF GraceInv, TypeOK, LogKept
<1>4. QED
  BY <1>2, <1>3, QuietStep DEF GraceInv, TypeOK

LEMMA Emissions ==
    /\ <<"failed", "upsert">> \in Seq(Kinds) /\ <<"paid", "upsert">> \in Seq(Kinds)
    /\ <<"upsert">> \in Seq(Kinds) /\ <<"checkout", "upsert", "paid">> \in Seq(Kinds)
    /\ <<"deleted">> \in Seq(Kinds \ {"upsert"})
    /\ <<"forgotten">> \in Seq(Kinds \ {"upsert"})
    /\ <<"deleted", "forgotten">> \in Seq(Kinds \ {"upsert"})
    /\ \A kinds \in Seq(Kinds \ {"upsert"}) : kinds \in Seq(Kinds)
  BY DEF Kinds

LEMMA StripeStep ==
    ASSUME GraceInv, NEW a \in Accounts, Stripe(a)
    PROVE  GraceInv'
<1>1. /\ bill[a] \in Bill /\ bill[a].end + Month \in Nat
      /\ bill[a].tier \in Tiers /\ bill[a].cancel \in BOOLEAN
  BY BillingAssumption DEF GraceInv, TypeOK, Bill
<1>2. DOMAIN StatusEvents = {"active", "past_due", "unpaid"}
  BY StatusEventsFire
<1>3. CASE ChargeFails(a)
  <2> DEFINE b == [bill[a] EXCEPT !.status = "past_due"]
  <2>1. b \in Bill /\ b.status = "past_due"
    BY <1>1, BillColumns
  <2>2. AtStripe("fail", a, b, <<"failed", "upsert">>) /\ UNCHANGED row
    BY <1>3 DEF ChargeFails
  <2> HIDE DEF b
  <2>3. QED
    BY <1>2, <2>1, <2>2, Emissions, StripeQuiet
<1>4. CASE InvoicePaid(a)
  <2> DEFINE b == [bill[a] EXCEPT !.status = "active"]
  <2>1. b \in Bill /\ b.status = "active"
    BY <1>1, BillColumns
  <2>2. AtStripe("pay", a, b, <<"paid", "upsert">>) /\ UNCHANGED row
    BY <1>4 DEF InvoicePaid
  <2> HIDE DEF b
  <2>3. QED
    BY <1>2, <2>1, <2>2, Emissions, StripeQuiet
<1>5. CASE Renews(a)
  <2> DEFINE end == bill[a].end + Month
             b == [bill[a] EXCEPT !.end = end]
  <2>1. b \in Bill /\ b.status = "active"
    <3>1. end \in Nat /\ bill[a].status = "active"
      BY <1>1, <1>5 DEF Renews
    <3> HIDE DEF end
    <3>2. QED
      BY <1>1, <3>1 DEF Bill
  <2>2. AtStripe("renew", a, b, <<"paid", "upsert">>) /\ UNCHANGED row
    BY <1>5 DEF Renews
  <2> HIDE DEF b
  <2>3. QED
    BY <1>2, <2>1, <2>2, Emissions, StripeQuiet
<1>6. CASE MarkedUnpaid(a)
  <2> DEFINE b == [bill[a] EXCEPT !.status = "unpaid"]
  <2>1. b \in Bill /\ b.status = "unpaid"
    BY <1>1, BillColumns
  <2>2. AtStripe("unpaid", a, b, <<"upsert">>) /\ UNCHANGED row
    BY <1>6 DEF MarkedUnpaid
  <2> HIDE DEF b
  <2>3. QED
    BY <1>2, <2>1, <2>2, Emissions, StripeQuiet
<1>7. CASE Dropped(a) \/ PeriodEnds(a)
  <2> DEFINE b == [bill[a] EXCEPT !.status = "canceled"]
  <2>1. b \in Bill
    BY <1>1, BillColumns
  <2>2. /\ AtStripe("drop", a, b, <<"deleted">>) \/ AtStripe("end", a, b, <<"deleted">>)
        /\ UNCHANGED row
    BY <1>7 DEF Dropped, PeriodEnds
  <2> HIDE DEF b
  <2>3. QED
    BY <2>1, <2>2, Emissions, StripeQuiet
<1>8. CASE CancelInPortal(a)
  <2> DEFINE b == [bill[a] EXCEPT !.cancel = TRUE]
  <2>1. b \in Bill /\ b.status \in DOMAIN StatusEvents
    BY <1>1, <1>2, <1>8, BillColumns DEF CancelInPortal, Live
  <2>2. AtStripe("cancel", a, b, <<"upsert">>) /\ UNCHANGED row
    BY <1>8 DEF CancelInPortal
  <2> HIDE DEF b
  <2>3. QED
    BY <2>1, <2>2, Emissions, StripeQuiet
<1>9. CASE ResumeInPortal(a)
  <2> DEFINE b == [bill[a] EXCEPT !.cancel = FALSE]
  <2>1. b \in Bill /\ b.status \in DOMAIN StatusEvents
    BY <1>1, <1>2, <1>9, BillColumns DEF ResumeInPortal, Live
  <2>2. AtStripe("resume", a, b, <<"upsert">>) /\ UNCHANGED row
    BY <1>9 DEF ResumeInPortal
  <2> HIDE DEF b
  <2>3. QED
    BY <2>1, <2>2, Emissions, StripeQuiet
<1>10. CASE CustomerDeleted(a)
  <2> DEFINE status == IF Live(a) THEN "canceled" ELSE bill[a].status
             b == [bill[a] EXCEPT !.status = status, !.gone = TRUE]
             kinds == IF Live(a) THEN <<"deleted", "forgotten">> ELSE <<"forgotten">>
  <2>1. b \in Bill
    <3>1. status \in {"none", "active", "past_due", "unpaid", "canceled"}
      BY <1>1 DEF Bill
    <3> HIDE DEF status
    <3>2. QED
      BY <1>1, <3>1, BillColumns
  <2>2. AtStripe("forget", a, b, kinds) /\ UNCHANGED row
    BY <1>10 DEF CustomerDeleted
  <2>3. kinds \in Seq(Kinds \ {"upsert"})
    BY Emissions
  <2> HIDE DEF b, kinds
  <2>4. QED
    BY <2>1, <2>2, <2>3, Emissions, StripeQuiet
<1>11. QED
  BY <1>3, <1>4, <1>5, <1>6, <1>7, <1>8, <1>9, <1>10 DEF Stripe

-----------------------------------------------------------------------------
(***************************************************************************)
(* The routes.                                                             *)
(***************************************************************************)

LEMMA RowColumns ==
    ASSUME NEW r \in Row
    PROVE  /\ \A tier \in Tiers : LET q == [r EXCEPT !.tier = tier] IN
                q \in Row /\ q.status = r.status /\ q.since = r.since /\ q.failed = r.failed
           /\ \A end \in Nat : LET q == [r EXCEPT !.end = end] IN
                q \in Row /\ q.status = r.status /\ q.since = r.since /\ q.failed = r.failed
           /\ \A customer \in Nat : LET q == [r EXCEPT !.customer = customer] IN
                q \in Row /\ q.status = r.status /\ q.since = r.since /\ q.failed = r.failed
  BY DEF Row

(* One row changes, in columns that Graced does not look at. *)
LEMMA OneRowQuiet ==
    ASSUME GraceInv, LogKept, NEW a \in Accounts, NEW r \in Row,
           r.status = row[a].status, r.since = row[a].since, r.failed = row[a].failed,
           row' = [row EXCEPT ![a] = r],
           bill' \in [Accounts -> Bill], facts' \in Nat,
           UNCHANGED <<handled, ordered, visited, todo, day>>
    PROVE  GraceInv'
<1>1. /\ row' \in [Accounts -> Row]
      /\ \A c \in Accounts : /\ row'[c].status = row[c].status
                             /\ row'[c].since = row[c].since
                             /\ row'[c].failed = row[c].failed
  BY DEF GraceInv, TypeOK
<1>2. TypeOK'
  BY <1>1, SaidAreEvents DEF GraceInv, TypeOK, LogKept
<1>3. QED
  BY <1>1, <1>2, QuietStep DEF GraceInv, TypeOK

LEMMA TiersSold == PaidTiers \subseteq Tiers /\ "free" \in Tiers /\ "open_source" \in Tiers
  BY DEF Tiers

LEMMA SubscribeStep ==
    ASSUME GraceInv, NEW a \in Accounts, NEW tier \in PaidTiers, Subscribe(a, tier)
    PROVE  GraceInv'
<1> DEFINE reused == row[a].customer # 0 /\ ~bill[a].gone
           customer == IF reused THEN row[a].customer ELSE bill[a].customer + 1
           end == day + Month
           b == [status |-> "active", tier |-> tier, cancel |-> FALSE, end |-> end,
                 customer |-> customer, gone |-> FALSE]
           forgotten == [row[a] EXCEPT !.customer = 0]
<1>1. /\ AtStripe("subscribe", a, b, <<"checkout", "upsert", "paid">>)
      /\ row' = IF reused THEN row ELSE [row EXCEPT ![a] = forgotten]
  BY DEF Subscribe
<1>2. row[a] \in Row /\ 0 \in Nat
  BY DEF GraceInv, TypeOK
<1>3. customer \in Nat
  BY <1>2 DEF GraceInv, TypeOK, Row, Bill
<1>4. end \in Nat
  BY BillingAssumption DEF GraceInv, TypeOK
<1>5. /\ forgotten \in Row /\ forgotten.status = row[a].status
      /\ forgotten.since = row[a].since /\ forgotten.failed = row[a].failed
  BY <1>2, RowColumns
<1> HIDE DEF customer, end, forgotten, reused
<1>6. b \in Bill /\ b.status = "active"
  BY <1>3, <1>4, TiersSold DEF Bill
<1> HIDE DEF b
<1>7. "active" \in DOMAIN StatusEvents
  BY StatusEventsFire
<1>8. CASE reused
  BY <1>1, <1>6, <1>7, <1>8, Emissions, StripeQuiet
<1>9. CASE ~reused
  <2>1. \A i \in DOMAIN <<"checkout", "upsert", "paid">> : b.status \in DOMAIN StatusEvents
    BY <1>6, <1>7
  <2>2. /\ LogKept /\ bill' \in [Accounts -> Bill] /\ facts' \in Nat
        /\ UNCHANGED <<handled, ordered, visited, todo, day>>
    BY <1>1, <1>6, <2>1, Emissions, LogGrows
  <2>3. QED
    BY <1>1, <1>5, <1>9, <2>2, OneRowQuiet
<1>10. QED
  BY <1>8, <1>9

LEMMA RequestStep ==
    ASSUME GraceInv, NEW a \in Accounts, Request(a)
    PROVE  GraceInv'
<1>1. /\ row[a] \in Row /\ bill[a] \in Bill /\ day \in Nat
      /\ bill \in [Accounts -> Bill] /\ facts \in Nat
  BY DEF GraceInv, TypeOK
<1>2. ASSUME NEW tier \in PaidTiers, ChangePlan(a, tier)
      PROVE  GraceInv'
  <2> DEFINE b == [bill[a] EXCEPT !.tier = tier]
  <2>1. b \in Bill /\ b.status = "active"
    <3>1. bill[a].status = "active" /\ tier \in Tiers
      BY <1>2, TiersSold DEF ChangePlan
    <3>2. QED
      BY <1>1, <3>1 DEF Bill
  <2>2. AtStripe("change", a, b, <<"upsert">>) /\ UNCHANGED row
    BY <1>2 DEF ChangePlan
  <2> HIDE DEF b
  <2>3. QED
    BY <2>1, <2>2, Emissions, StatusEventsFire, StripeQuiet
<1>3. CASE ApproveOss(a)
  <2> DEFINE r == [row[a] EXCEPT !.tier = "open_source"]
  <2>1. /\ r \in Row /\ r.status = row[a].status
        /\ r.since = row[a].since /\ r.failed = row[a].failed
    BY <1>1, RowColumns, TiersSold
  <2>2. /\ row' = [row EXCEPT ![a] = r] /\ facts' \in Nat /\ bill' \in [Accounts -> Bill]
        /\ UNCHANGED <<sent, handled, ordered, visited, todo, day>>
    BY <1>1, <1>3 DEF ApproveOss, Fact
  <2> HIDE DEF r
  <2>3. QED
    BY <2>1, <2>2, LogUnchanged, OneRowQuiet
<1>4. CASE RollPeriod(a)
  <2> DEFINE end == (day \div Month + 1) * Month
             r == [row[a] EXCEPT !.end = end]
  <2>1. end \in Nat
    <3>1. day \div Month \in Nat
      BY <1>1, BillingAssumption
    <3>2. \A q, m \in Nat : (q + 1) * m \in Nat
      OBVIOUS
    <3>3. QED
      BY <3>1, <3>2, BillingAssumption
  <2> HIDE DEF end
  <2>2. /\ r \in Row /\ r.status = row[a].status
        /\ r.since = row[a].since /\ r.failed = row[a].failed
    BY <1>1, <2>1, RowColumns
  <2>3. /\ row' = [row EXCEPT ![a] = r] /\ facts' \in Nat /\ bill' \in [Accounts -> Bill]
        /\ UNCHANGED <<sent, handled, ordered, visited, todo, day>>
    BY <1>1, <1>4 DEF RollPeriod, end
  <2> HIDE DEF r
  <2>4. QED
    BY <2>2, <2>3, LogUnchanged, OneRowQuiet
<1>5. QED
  BY <1>2, <1>3, <1>4, SubscribeStep DEF Request

-----------------------------------------------------------------------------
(***************************************************************************)
(* The webhook, the dunning pass, time.                                    *)
(***************************************************************************)

(* What one step may do to a row, given what is known after it. *)
LEMMA RowsStep ==
    ASSUME GraceInv, LogKept, day' = day,
           TypeOK',
           \A a \in Accounts :
             \/ row'[a] = row[a] /\ (visited[a] => visited'[a])
             \/ Graced(row'[a], ToldUnpaid(a)', visited'[a])
    PROVE  GraceInv'
<1>1. ASSUME NEW a \in Accounts
      PROVE  Graced(row[a], ToldUnpaid(a), visited[a])'
  <2>1. CASE row'[a] = row[a] /\ (visited[a] => visited'[a])
    <3>1. Graced(row[a], ToldUnpaid(a), visited[a])
      BY DEF GraceInv
    <3>2. ToldUnpaid(a) => ToldUnpaid(a)'
      BY ToldStays
    <3>3. QED
      BY <2>1, <3>1, <3>2 DEF Graced
  <2>2. CASE Graced(row'[a], ToldUnpaid(a)', visited'[a])
    BY <2>2 DEF Graced
  <2>3. QED
    BY <2>1, <2>2
<1>2. QED
  BY <1>1 DEF GraceInv, LogKept

LEMMA EventStep ==
    ASSUME GraceInv, NEW a \in Accounts, HandleEvent(a)
    PROVE  GraceInv'
<1>1. PICK i \in Unhandled(a) :
        /\ row' = [row EXCEPT ![a] = Applied(row[a], sent[a][i])]
        /\ handled' = [handled EXCEPT ![a] = handled[a] \cup {i}]
        /\ ordered' = [ordered EXCEPT ![a] =
                         ordered[a] /\ \A k \in 1 .. i - 1 : k \in handled[a]]
  BY DEF HandleEvent
<1>2. UNCHANGED <<bill, sent, visited, todo, day, facts>>
  BY DEF HandleEvent
<1> DEFINE e == sent[a][i]
<1>3. i \in DOMAIN sent[a] /\ e \in Said /\ row[a] \in Row /\ day \in Nat
  BY DEF Unhandled, GraceInv, TypeOK
<1>4. handled' \in [Accounts -> SUBSET Nat] /\ LogKept
  <2>1. i \in Nat
    BY <1>3 DEF GraceInv
  <2>2. QED
    BY <1>1, <1>2, <1>3, <2>1 DEF GraceInv, TypeOK, LogKept
<1>5. Graver(e, ToldUnpaid(a)')
  BY <1>1, <1>2, <1>3 DEF Graver, ToldUnpaid, GraceInv, TypeOK
<1>6. Graced(row[a], ToldUnpaid(a)', visited[a])
  <2>1. Graced(row[a], ToldUnpaid(a), visited[a])
    BY DEF GraceInv
  <2>2. QED
    BY <1>4, <2>1, ToldStays DEF Graced
<1>7. /\ Applied(row[a], e) \in Row
      /\ Graced(Applied(row[a], e), ToldUnpaid(a)', visited[a])
  BY <1>3, <1>5, <1>6, AppliedKeeps
<1>8. row' \in [Accounts -> Row] /\ ordered' \in [Accounts -> BOOLEAN]
  BY <1>1, <1>7 DEF GraceInv, TypeOK
<1>9. TypeOK'
  BY <1>2, <1>4, <1>8 DEF GraceInv, TypeOK, LogKept
<1>10. ASSUME NEW c \in Accounts
       PROVE  \/ row'[c] = row[c] /\ (visited[c] => visited'[c])
              \/ Graced(row'[c], ToldUnpaid(c)', visited'[c])
  BY <1>1, <1>2, <1>7 DEF GraceInv, TypeOK
<1>11. QED
  BY <1>2, <1>4, <1>9, <1>10, RowsStep

LEMMA DunningStep ==
    ASSUME GraceInv, StartDunning \/ DunNext \/ DunningDies
    PROVE  GraceInv'
<1>1. UNCHANGED <<bill, sent, handled, ordered, day, facts>>
  BY DEF StartDunning, DunNext, DunningDies
<1>2. LogKept
  BY <1>1, LogUnchanged
<1>3. ASSUME NEW a \in Accounts, NEW moved, visited[a] => moved,
             row[a].status # "past_due" => moved
      PROVE  Dunned(row[a]) \in Row /\ Graced(Dunned(row[a]), ToldUnpaid(a)', moved)
  <2>1. row[a] \in Row /\ day \in Nat
    BY DEF GraceInv, TypeOK
  <2>2. Graced(row[a], ToldUnpaid(a), visited[a])
    BY DEF GraceInv
  <2>3. Graced(row[a], ToldUnpaid(a)', moved)
    BY <1>2, <1>3, <2>2, ToldStays DEF Graced
  <2>4. QED
    BY <1>3, <2>1, <2>3, DunnedKeeps
<1>4. CASE StartDunning
  <2>1. PICK acted \in SUBSET Accounts :
          /\ \A a \in acted : row[a].status = "past_due"
          /\ row' = [a \in Accounts |-> IF a \in acted THEN Dunned(row[a]) ELSE row[a]]
          /\ todo' \subseteq Accounts
    BY <1>4 DEF StartDunning
  <2>2. UNCHANGED visited
    BY <1>4 DEF StartDunning
  <2>3. ASSUME NEW a \in acted
        PROVE  Dunned(row[a]) \in Row /\ Graced(Dunned(row[a]), ToldUnpaid(a)', visited'[a])
    BY <1>3, <2>1, <2>2
  <2>4. row' \in [Accounts -> Row]
    BY <2>1, <2>3 DEF GraceInv, TypeOK
  <2>5. TypeOK'
    BY <1>1, <2>1, <2>2, <2>4 DEF GraceInv, TypeOK
  <2>6. ASSUME NEW a \in Accounts
        PROVE  \/ row'[a] = row[a] /\ (visited[a] => visited'[a])
               \/ Graced(row'[a], ToldUnpaid(a)', visited'[a])
    BY <2>1, <2>2, <2>3
  <2>7. QED
    BY <1>1, <1>2, <2>5, <2>6, RowsStep
<1>5. CASE DunNext
  <2>1. PICK a \in todo :
          /\ row' = [row EXCEPT ![a] = Dunned(row[a])]
          /\ todo' = todo \ {a}
          /\ visited' = [visited EXCEPT ![a] = visited[a] \/ row[a].status # "past_due"]
    BY <1>5 DEF DunNext
  <2>2. a \in Accounts
    BY DEF GraceInv, TypeOK
  <2>3. visited' \in [Accounts -> BOOLEAN]
        /\ visited'[a] = (visited[a] \/ row[a].status # "past_due")
    BY <2>1, <2>2 DEF GraceInv, TypeOK
  <2>4. Dunned(row[a]) \in Row /\ Graced(Dunned(row[a]), ToldUnpaid(a)', visited'[a])
    BY <1>3, <2>2, <2>3
  <2>5. row' \in [Accounts -> Row]
    BY <2>1, <2>4 DEF GraceInv, TypeOK
  <2>6. TypeOK'
    BY <1>1, <2>1, <2>3, <2>5 DEF GraceInv, TypeOK
  <2>7. ASSUME NEW c \in Accounts
        PROVE  \/ row'[c] = row[c] /\ (visited[c] => visited'[c])
               \/ Graced(row'[c], ToldUnpaid(c)', visited'[c])
    BY <2>1, <2>2, <2>4 DEF GraceInv, TypeOK
  <2>8. QED
    BY <1>1, <1>2, <2>6, <2>7, RowsStep
<1>6. CASE DunningDies
  <2>1. UNCHANGED <<row, visited>> /\ todo' = {}
    BY <1>6 DEF DunningDies
  <2>2. TypeOK'
    BY <1>1, <2>1 DEF GraceInv, TypeOK
  <2>3. QED
    BY <1>1, <1>2, <2>1, <2>2, RowsStep
<1>7. QED
  BY <1>4, <1>5, <1>6

LEMMA CancellationStep ==
    ASSUME GraceInv, NEW a \in Accounts, FinishCancellation(a)
    PROVE  GraceInv'
<1> DEFINE q == Transition(row[a], "period_ended")
           r == [q EXCEPT !.tier = "free"]
           told == ToldUnpaid(a)
<1>1. /\ row' = [row EXCEPT ![a] = r]
      /\ UNCHANGED <<bill, sent, handled, ordered, visited, todo, day, facts>>
  BY DEF FinishCancellation
<1>2. row[a] \in Row /\ day \in Nat /\ Graced(row[a], told, visited[a])
  BY DEF GraceInv, TypeOK
<1>3. "period_ended" \in Firing \ {"grace_expired"}
  BY DEF Firing, BillingMachine
<1>4. q \in Row /\ Graced(q, told, visited[a])
  BY <1>2, <1>3, TransitionKeeps
<1> HIDE DEF q
<1>5. /\ r \in Row /\ r.status = q.status /\ r.since = q.since /\ r.failed = q.failed
  BY <1>4, RowColumns, TiersSold
<1>6. Graced(r, told, visited[a])
  BY <1>4, <1>5, SameGrace
<1> HIDE DEF r
<1>7. LogKept
  BY <1>1, LogUnchanged
<1>8. TypeOK'
  BY <1>1, <1>5 DEF GraceInv, TypeOK
<1>9. Graced(r, ToldUnpaid(a)', visited[a])
  BY <1>6, <1>7, ToldStays DEF Graced
<1>10. ASSUME NEW c \in Accounts
       PROVE  \/ row'[c] = row[c] /\ (visited[c] => visited'[c])
              \/ Graced(row'[c], ToldUnpaid(c)', visited'[c])
  BY <1>1, <1>9 DEF GraceInv, TypeOK
<1>11. QED
  BY <1>1, <1>7, <1>8, <1>10, RowsStep

LEMMA DayStep ==
    ASSUME GraceInv, NextDay
    PROVE  GraceInv'
<1>1. /\ day' = day + 1 /\ day \in Nat
      /\ UNCHANGED <<row, bill, sent, handled, ordered, visited, todo, facts>>
  BY DEF NextDay, GraceInv, TypeOK
<1>2. day' >= day /\ day' \in Nat
  BY <1>1
<1>3. LogKept
  BY <1>1, LogUnchanged
<1>4. TypeOK'
  BY <1>1, <1>2 DEF GraceInv, TypeOK
<1>5. QED
  BY <1>1, <1>2, <1>3, <1>4, QuietStep

LEMMA GraceStep ==
    ASSUME GraceInv, [Next]_vars
    PROVE  GraceInv'
<1>1. CASE UNCHANGED vars
  <2>1. LogKept
    BY <1>1, LogUnchanged DEF vars
  <2>2. TypeOK'
    BY <1>1 DEF vars, GraceInv, TypeOK
  <2>3. QED
    BY <1>1, <2>1, <2>2, RowsStep DEF vars
<1>2. CASE Next
  BY <1>2, StripeStep, RequestStep, EventStep, CancellationStep, DunningStep, DayStep DEF Next
<1>3. QED
  BY <1>1, <1>2

LEMMA GraceInit == Init => GraceInv
<1> SUFFICES ASSUME Init
             PROVE  GraceInv
  OBVIOUS
<1>1. PICK plan \in [Accounts -> PaidTiers \cup {"free"}] :
        /\ row = [a \in Accounts |->
                    [status |-> "active", tier |-> plan[a], since |-> Never, stage |-> 0,
                     cancel |-> FALSE, customer |-> IF plan[a] # "free" THEN 1 ELSE 0,
                     end |-> IF plan[a] # "free" THEN Month ELSE 0,
                     failed |-> 0, mails |-> 0]]
        /\ bill = [a \in Accounts |->
                     [status |-> IF plan[a] # "free" THEN "active" ELSE "none", tier |-> plan[a],
                      cancel |-> FALSE, end |-> IF plan[a] # "free" THEN Month ELSE 0,
                      customer |-> IF plan[a] # "free" THEN 1 ELSE 0, gone |-> FALSE]]
  BY DEF Init
<1>2. ASSUME NEW a \in Accounts
      PROVE  row[a] \in Row /\ bill[a] \in Bill
  <2>1. plan[a] \in Tiers /\ Month \in Nat
    BY TiersSold, BillingAssumption
  <2>2. QED
    BY <1>1, <2>1 DEF Row, Bill, SubscriptionStatus
<1>3. row \in [Accounts -> Row] /\ bill \in [Accounts -> Bill]
  BY <1>1, <1>2
<1>4. <<>> \in Seq(Said) /\ <<>> \in Seq(Event)
  OBVIOUS
<1>5. TypeOK /\ sent \in [Accounts -> Seq(Said)]
  BY <1>3, <1>4 DEF Init, TypeOK
<1>6. \A a \in Accounts : Graced(row[a], ToldUnpaid(a), visited[a])
  BY <1>1 DEF Graced
<1>7. QED
  BY <1>5, <1>6 DEF GraceInv

LEMMA GraceHolds == Spec => []GraceInv
  BY GraceInit, GraceStep, PTL DEF Spec

-----------------------------------------------------------------------------
(* In every reachable state, for every set of accounts, every row, every     *)
(* subscription at Stripe and every event is well formed.                    *)
THEOREM BillingTypes == Spec => []TypeOK
<1>1. GraceInv => TypeOK
  BY DEF GraceInv
<1>2. QED
  BY <1>1, GraceHolds, PTL

(* A failed payment opens one grace window of its own, and an account is     *)
(* limited only when that window is over or Stripe gave up: for any window,  *)
(* schedule, events in any order, and passes at any time; except for rows    *)
(* that a pass acts on after they moved on.                                  *)
THEOREM GraceKept == Spec => []GraceIsKept
<1>1. GraceInv => GraceIsKept
  BY DEF GraceInv, Graced, GraceIsKept
<1>2. QED
  BY <1>1, GraceHolds, PTL

-----------------------------------------------------------------------------
(***************************************************************************)
(* Reminders: a mail goes out with the failure and with a reminder only.   *)
(***************************************************************************)

(* An active row owes no mail yet that a failure could add to. *)
CountsMails(r) ==
    /\ r.mails <= r.stage + 1
    /\ r.status = "active" => r.mails <= r.stage
    /\ r.status \notin {"incomplete", "trialing"}

RemindersInv == GraceInv /\ \A a \in Accounts : CountsMails(row[a])

LEMMA EnteredCounts ==
    ASSUME day \in Nat, NEW r \in Row
    PROVE  /\ r.status = "active" => Entered(r).mails = 0 /\ Entered(r).stage = 0
           /\ r.status = "past_due" => \/ Entered(r).mails = 0 /\ Entered(r).stage = 0
                                       \/ Entered(r).mails = r.mails /\ Entered(r).stage = r.stage
           /\ r.status \notin {"active", "past_due"} =>
                Entered(r).mails = r.mails /\ Entered(r).stage = r.stage
<1>1. CASE r.status = "active"
  BY <1>1 DEF Entered, Recovered, Row
<1>2. CASE r.status = "past_due" /\ r.since = Never
  BY <1>2 DEF Entered, Row
<1>3. CASE r.status = "past_due" /\ r.since # Never
  BY <1>3 DEF Entered, Row
<1>4. CASE r.status \notin {"active", "past_due"}
  BY <1>4 DEF Entered, Row
<1>5. QED
  BY <1>1, <1>2, <1>3, <1>4

(* A row that becomes past_due owes no mail but for the one sent with it. *)
LEMMA TransitionCounts ==
    ASSUME day \in Nat, NEW r \in Row, NEW event \in Firing, CountsMails(r)
    PROVE  /\ Transition(r, event) \in Row
           /\ CountsMails(Transition(r, event))
           /\ Can(BillingMachine, event, r.status) /\ event = "payment_failed" =>
                /\ Transition(r, event).status = "past_due"
                /\ Transition(r, event).mails <= Transition(r, event).stage
<1>1. CASE ~Can(BillingMachine, event, r.status)
  BY <1>1 DEF Transition
<1>2. CASE Can(BillingMachine, event, r.status)
  <2> DEFINE t == Advance(BillingMachine, event, r.status)
             q == [r EXCEPT !.status = t]
  <2>1. /\ t \in SubscriptionStatus /\ t \notin {"incomplete", "trialing"}
        /\ t = "past_due" => r.status = "active"
    BY <1>2, Edges DEF CountsMails
  <2>2. event = "payment_failed" => t = "past_due"
    BY <1>2 DEF Can, Advance, BillingMachine
  <2>3. q \in Row /\ q.status = t /\ q.mails = r.mails /\ q.stage = r.stage
    BY <2>1, MovedType
  <2>4. Transition(r, event) = Entered(q)
    BY <1>2 DEF Transition
  <2> HIDE DEF t, q
  <2>5. /\ Entered(q) \in Row /\ Entered(q).status = t
        /\ Entered(q).mails \in Nat /\ Entered(q).stage \in Nat
        /\ r.mails \in Nat /\ r.stage \in Nat
    BY <2>3, EnteredType DEF Row
  <2>6. CASE t = "active"
    BY <2>2, <2>3, <2>4, <2>5, <2>6, EnteredCounts DEF CountsMails
  <2>7. CASE t = "past_due"
    <3>1. r.mails <= r.stage
      BY <2>1, <2>7 DEF CountsMails
    <3>2. Entered(q).mails <= Entered(q).stage
      BY <2>3, <2>5, <2>7, <3>1, EnteredCounts
    <3>3. QED
      BY <2>4, <2>5, <2>7, <3>2 DEF CountsMails
  <2>8. CASE t \notin {"active", "past_due"}
    <3>1. r.mails <= r.stage + 1
      BY DEF CountsMails
    <3>2. Entered(q).mails = r.mails /\ Entered(q).stage = r.stage
      BY <2>3, <2>8, EnteredCounts
    <3>3. QED
      BY <2>1, <2>2, <2>4, <2>5, <2>8, <3>1, <3>2 DEF CountsMails
  <2>9. QED
    BY <2>6, <2>7, <2>8
<1>3. QED
  BY <1>1, <1>2, TransitionType

(* Columns that mails are not counted by. *)
LEMMA SameCount ==
    ASSUME NEW r, NEW q, CountsMails(r), q.status = r.status, q.mails = r.mails, q.stage = r.stage
    PROVE  CountsMails(q)
  BY DEF CountsMails

LEMMA CountColumns ==
    ASSUME NEW r \in Row, CountsMails(r)
    PROVE  /\ \A tier \in Tiers : LET q == [r EXCEPT !.tier = tier] IN q \in Row /\ CountsMails(q)
           /\ \A end \in Nat : LET q == [r EXCEPT !.end = end] IN q \in Row /\ CountsMails(q)
           /\ \A customer \in Nat : LET q == [r EXCEPT !.customer = customer] IN
                q \in Row /\ CountsMails(q)
<1>1. ASSUME NEW tier \in Tiers
      PROVE  LET q == [r EXCEPT !.tier = tier] IN
             q \in Row /\ q.status = r.status /\ q.mails = r.mails /\ q.stage = r.stage
  BY DEF Row
<1>2. ASSUME NEW end \in Nat
      PROVE  LET q == [r EXCEPT !.end = end] IN
             q \in Row /\ q.status = r.status /\ q.mails = r.mails /\ q.stage = r.stage
  BY DEF Row
<1>3. ASSUME NEW customer \in Nat
      PROVE  LET q == [r EXCEPT !.customer = customer] IN
             q \in Row /\ q.status = r.status /\ q.mails = r.mails /\ q.stage = r.stage
  BY DEF Row
<1>4. QED
  BY <1>1, <1>2, <1>3, SameCount

LEMMA FirstLegalCounts ==
    ASSUME day \in Nat, NEW r \in Row, NEW events \in SUBSET Firing, CountsMails(r)
    PROVE  FirstLegal(r, events) \in Row /\ CountsMails(FirstLegal(r, events))
  BY FirstLegalOne, TransitionCounts

LEMMA UpsertedCounts ==
    ASSUME day \in Nat, NEW r \in Row, NEW e \in Said, e.kind = "upsert", CountsMails(r)
    PROVE  Upserted(r, e) \in Row /\ CountsMails(Upserted(r, e))
<1> DEFINE known == [r EXCEPT !.end = e.end]
           sold  == [known EXCEPT !.tier = e.tier]
           moving == CASE e.status = "unpaid"  -> known
                      [] e.tier # r.tier       -> Transition(sold, "plan_changed")
                      [] OTHER                 -> sold
           paid  == FirstLegal(moving, StatusEvents[e.status])
           Counts(q) == q \in Row /\ CountsMails(q)
<1>1. e.end \in Nat /\ e.tier \in Tiers /\ e.status \in DOMAIN StatusEvents
  BY DEF Said, Event
<1>2. "plan_changed" \in Firing /\ "cancel_requested" \in Firing
  BY DEF Firing, BillingMachine
<1>3. Counts(known)
  BY <1>1, CountColumns
<1> HIDE DEF known
<1>4. Counts(sold)
  BY <1>1, <1>3, CountColumns
<1> HIDE DEF sold
<1>5. Counts(moving)
  BY <1>2, <1>3, <1>4, TransitionCounts
<1>6. Upserted(r, e) = IF e.cancel THEN Transition(paid, "cancel_requested") ELSE paid
  BY DEF Upserted, known, sold
<1> HIDE DEF moving
<1>7. Counts(paid)
  BY <1>1, <1>5, StatusEventsFire, FirstLegalCounts
<1> HIDE DEF paid
<1>8. QED
  BY <1>2, <1>6, <1>7, TransitionCounts

LEMMA AppliedCounts ==
    ASSUME day \in Nat, NEW r \in Row, NEW e \in Said, CountsMails(r)
    PROVE  CountsMails(Applied(r, e))
<1> DEFINE Counts(q) == q \in Row /\ CountsMails(q)
<1>0. Counts(r) /\ e.customer \in Nat /\ 0 \in Nat /\ "free" \in Tiers
  BY DEF Said, Event, Tiers
<1>1. /\ {"checkout_completed", "subscription_deleted", "payment_failed"} \subseteq Firing
      /\ {"payment_succeeded", "checkout_completed", "trial_converted"} \in SUBSET Firing
  BY DEF Firing, BillingMachine
<1>2. Counts(Deleted(r))
  BY <1>0, <1>1, TransitionCounts, CountColumns DEF Deleted
<1>3. Counts([Deleted(r) EXCEPT !.customer = 0])
  BY <1>0, <1>2, CountColumns
<1>4. Counts(Transition([r EXCEPT !.customer = e.customer], "checkout_completed"))
  BY <1>0, <1>1, TransitionCounts, CountColumns
<1>5. Counts(FirstLegal(r, {"payment_succeeded", "checkout_completed", "trial_converted"}))
  BY <1>1, FirstLegalCounts
<1>6. CountsMails(PaymentFailed(r))
  <2> DEFINE q == Transition(r, "payment_failed")
  <2>1. CASE ~Can(BillingMachine, "payment_failed", r.status)
    BY <2>1 DEF PaymentFailed
  <2>2. CASE Can(BillingMachine, "payment_failed", r.status)
    <3>1. q \in Row /\ q.status = "past_due" /\ q.mails <= q.stage
      BY <1>1, <2>2, TransitionCounts
    <3>2. PaymentFailed(r) = [q EXCEPT !.mails = @ + 1]
      BY <2>2 DEF PaymentFailed
    <3> HIDE DEF q
    <3>3. /\ PaymentFailed(r).status = "past_due" /\ PaymentFailed(r).stage = q.stage
          /\ PaymentFailed(r).mails = q.mails + 1 /\ q.mails \in Nat /\ q.stage \in Nat
      BY <3>1, <3>2 DEF Row
    <3>4. QED
      BY <3>1, <3>3 DEF CountsMails
  <2>3. QED
    BY <2>1, <2>2
<1>7. e.kind = "upsert" => CountsMails(Upserted(r, e))
  BY UpsertedCounts
<1> DEFINE paying == {"payment_succeeded", "checkout_completed", "trial_converted"}
<1>8. \/ /\ e.kind = "upsert"
         /\ Applied(r, e) = Upserted(r, e)
      \/ Applied(r, e) = r
      \/ Applied(r, e) = Deleted(r)
      \/ Applied(r, e) = [Deleted(r) EXCEPT !.customer = 0]
      \/ Applied(r, e) = Transition([r EXCEPT !.customer = e.customer], "checkout_completed")
      \/ Applied(r, e) = FirstLegal(r, paying)
      \/ Applied(r, e) = PaymentFailed(r)
  <2>1. e.kind \in {"checkout", "upsert", "deleted", "forgotten", "paid", "failed"}
    BY DEF Said, Event
  <2>2. CASE e.kind = "checkout"
    BY <2>2 DEF Applied
  <2>3. CASE e.kind = "upsert"
    BY <2>3, Zenon DEF Applied
  <2>4. CASE e.kind = "deleted"
    BY <2>4, Zenon DEF Applied
  <2>5. CASE e.kind = "forgotten"
    BY <2>5, Zenon DEF Applied
  <2>6. CASE e.kind = "paid"
    BY <2>6, Zenon DEF Applied
  <2>7. CASE e.kind = "failed"
    BY <2>7, Zenon DEF Applied
  <2>8. QED
    BY <2>1, <2>2, <2>3, <2>4, <2>5, <2>6, <2>7
<1>9. QED
  BY <1>0, <1>2, <1>3, <1>4, <1>5, <1>6, <1>7, <1>8

LEMMA DunnedCounts ==
    ASSUME day \in Nat, NEW r \in Row, CountsMails(r)
    PROVE  CountsMails(Dunned(r))
<1> DEFINE stamped == IF r.since = Never THEN [r EXCEPT !.since = day] ELSE r
<1>1. stamped \in Row /\ CountsMails(stamped)
  <2>1. stamped \in Row /\ stamped.status = r.status /\ stamped.mails = r.mails
        /\ stamped.stage = r.stage
    BY DEF Row
  <2>2. QED
    BY <2>1, SameCount
<1>2. Dunned(r) \in {Transition(stamped, "grace_expired"), Reminded(stamped)}
  BY DEF Dunned
<1> HIDE DEF stamped
<1>3. CountsMails(Transition(stamped, "grace_expired"))
  <2>1. "grace_expired" \in Firing
    BY DEF Firing, BillingMachine
  <2>2. QED
    BY <1>1, <2>1, TransitionCounts
<1>4. CountsMails(Reminded(stamped))
  <2> DEFINE due == DueStage(day - stamped.since)
  <2>1. due \in Nat
    BY DueStageType
  <2>2. Reminded(stamped) = IF due > stamped.stage
                              THEN [stamped EXCEPT !.stage = due, !.mails = @ + 1] ELSE stamped
    BY DEF Reminded
  <2> HIDE DEF due
  <2>3. CASE due > stamped.stage
    <3>1. /\ Reminded(stamped).status = stamped.status /\ Reminded(stamped).stage = due
          /\ Reminded(stamped).mails = stamped.mails + 1
          /\ stamped.mails \in Nat /\ stamped.stage \in Nat
      BY <1>1, <2>2, <2>3 DEF Row
    <3>2. QED
      BY <1>1, <2>1, <2>3, <3>1 DEF CountsMails
  <2>4. CASE ~(due > stamped.stage)
    BY <1>1, <2>2, <2>4
  <2>5. QED
    BY <2>3, <2>4
<1>5. QED
  BY <1>2, <1>3, <1>4

(* How a step changes rows: by an event, by the pass, or in other columns. *)
LEMMA RowSteps ==
    ASSUME GraceInv, [Next]_vars, NEW a \in Accounts
    PROVE  \/ row'[a] = row[a]
           \/ \E i \in Unhandled(a) : row'[a] = Applied(row[a], sent[a][i])
           \/ row'[a] = Dunned(row[a])
           \/ row[a].status = "pending_cancellation"
                /\ row'[a] = [Transition(row[a], "period_ended") EXCEPT !.tier = "free"]
           \/ row'[a] = [row[a] EXCEPT !.tier = "open_source"]
           \/ \E end \in Nat : row'[a] = [row[a] EXCEPT !.end = end]
           \/ \E tier \in PaidTiers : Subscribe(a, tier) /\ row'[a] = [row[a] EXCEPT !.customer = 0]
<1>0. row \in [Accounts -> Row] /\ day \in Nat
  BY DEF GraceInv, TypeOK
<1>1. CASE UNCHANGED vars
  BY <1>1 DEF vars
<1>2. ASSUME NEW c \in Accounts, Stripe(c)
      PROVE  row' = row
  BY <1>2 DEF Stripe, ChargeFails, InvoicePaid, Renews, MarkedUnpaid, Dropped, PeriodEnds,
              CancelInPortal, ResumeInPortal, CustomerDeleted
<1>3. ASSUME NEW c \in Accounts, NEW tier \in PaidTiers, Subscribe(c, tier)
      PROVE  \/ row'[a] = row[a]
             \/ Subscribe(a, tier) /\ row'[a] = [row[a] EXCEPT !.customer = 0]
  <2>1. row' = row \/ row' = [row EXCEPT ![c].customer = 0]
    BY <1>3 DEF Subscribe
  <2>2. CASE c = a
    BY <1>0, <1>3, <2>1, <2>2
  <2>3. CASE c # a
    BY <1>0, <2>1, <2>3
  <2>4. QED
    BY <2>2, <2>3
<1>4. ASSUME NEW c \in Accounts, NEW tier \in PaidTiers, ChangePlan(c, tier)
      PROVE  row' = row
  BY <1>4 DEF ChangePlan
<1>5. ASSUME NEW c \in Accounts, ApproveOss(c)
      PROVE  row'[a] = row[a] \/ row'[a] = [row[a] EXCEPT !.tier = "open_source"]
  BY <1>0, <1>5 DEF ApproveOss
<1>6. ASSUME NEW c \in Accounts, RollPeriod(c)
      PROVE  row'[a] = row[a] \/ \E end \in Nat : row'[a] = [row[a] EXCEPT !.end = end]
  <2> DEFINE end == (day \div Month + 1) * Month
  <2>1. end \in Nat
    <3>1. day \div Month \in Nat
      BY <1>0, BillingAssumption
    <3>2. \A q, m \in Nat : (q + 1) * m \in Nat
      OBVIOUS
    <3>3. QED
      BY <3>1, <3>2, BillingAssumption
  <2>2. row' = [row EXCEPT ![c].end = end]
    BY <1>6 DEF RollPeriod
  <2> HIDE DEF end
  <2>3. QED
    BY <1>0, <2>1, <2>2
<1>7. ASSUME NEW c \in Accounts, HandleEvent(c)
      PROVE  row'[a] = row[a] \/ \E i \in Unhandled(a) : row'[a] = Applied(row[a], sent[a][i])
  BY <1>0, <1>7 DEF HandleEvent
<1>8. ASSUME NEW c \in Accounts, FinishCancellation(c)
      PROVE  \/ row'[a] = row[a]
             \/ row[a].status = "pending_cancellation"
                  /\ row'[a] = [Transition(row[a], "period_ended") EXCEPT !.tier = "free"]
  BY <1>0, <1>8 DEF FinishCancellation
<1>9. CASE StartDunning
  BY <1>9 DEF StartDunning
<1>10. CASE DunNext
  BY <1>0, <1>10 DEF DunNext, GraceInv, TypeOK
<1>11. CASE DunningDies \/ NextDay
  BY <1>11 DEF DunningDies, NextDay
<1>12. ASSUME NEW c \in Accounts, Request(c)
       PROVE  \/ row'[a] = row[a]
              \/ row'[a] = [row[a] EXCEPT !.tier = "open_source"]
              \/ \E end \in Nat : row'[a] = [row[a] EXCEPT !.end = end]
              \/ \E tier \in PaidTiers :
                   Subscribe(a, tier) /\ row'[a] = [row[a] EXCEPT !.customer = 0]
  BY <1>3, <1>4, <1>5, <1>6, <1>12 DEF Request
<1>13. QED
  BY <1>1, <1>2, <1>7, <1>8, <1>9, <1>10, <1>11, <1>12 DEF Next

LEMMA RemindersStep ==
    ASSUME RemindersInv, [Next]_vars
    PROVE  RemindersInv'
<1>1. GraceInv'
  BY GraceStep DEF RemindersInv
<1>2. ASSUME NEW a \in Accounts
      PROVE  CountsMails(row[a])'
  <2>1. row[a] \in Row /\ day \in Nat /\ CountsMails(row[a]) /\ GraceInv
    BY DEF RemindersInv, GraceInv, TypeOK
  <2>2. ASSUME NEW i \in Unhandled(a)
        PROVE  CountsMails(Applied(row[a], sent[a][i]))
    <3>1. sent[a][i] \in Said
      BY <2>1 DEF Unhandled, GraceInv
    <3>2. QED
      BY <2>1, <3>1, AppliedCounts
  <2>3. CountsMails([Transition(row[a], "period_ended") EXCEPT !.tier = "free"])
    <3>1. "period_ended" \in Firing
      BY DEF Firing, BillingMachine
    <3>2. QED
      BY <2>1, <3>1, TransitionCounts, CountColumns, TiersSold
  <2>4. CountsMails([row[a] EXCEPT !.tier = "open_source"])
    BY <2>1, CountColumns, TiersSold
  <2>5. \A end \in Nat : CountsMails([row[a] EXCEPT !.end = end])
    BY <2>1, CountColumns
  <2>6. CountsMails([row[a] EXCEPT !.customer = 0])
    BY <2>1, CountColumns
  <2>7. CountsMails(row'[a])
    BY <2>1, <2>2, <2>3, <2>4, <2>5, <2>6, DunnedCounts, RowSteps
  <2>8. QED
    BY <2>7 DEF CountsMails
<1>3. QED
  BY <1>1, <1>2 DEF RemindersInv

(* No dunning mail goes out twice: the recorded stage is what was sent, but  *)
(* for the mail that goes with the failure itself, for every schedule, with  *)
(* events in any order and passes that die or act on rows that moved on.     *)
THEOREM RemindersCount == Spec => []RemindersRecorded
<1>1. Init => RemindersInv
  <2> SUFFICES ASSUME Init
               PROVE  RemindersInv
    OBVIOUS
  <2>1. \A a \in Accounts : row[a].status = "active" /\ row[a].mails = 0 /\ row[a].stage = 0
    BY DEF Init
  <2>2. QED
    BY <2>1, GraceInit DEF RemindersInv, CountsMails
<1>2. RemindersInv => RemindersRecorded
  BY DEF RemindersInv, CountsMails, RemindersRecorded
<1>3. QED
  BY <1>1, <1>2, RemindersStep, PTL DEF Spec

-----------------------------------------------------------------------------
(***************************************************************************)
(* Paid is served, gone is free: what the log of events says of the        *)
(* subscription at Stripe, and what the row makes of a prefix of it.       *)
(***************************************************************************)

(* Event i leaves no doubt: an upsert, or the invoice that follows one. *)
Told(log, i) ==
    /\ log[i].status = "active"
    /\ \/ log[i].kind = "upsert"
       \/ /\ i > 1 /\ log[i].kind = "paid" /\ log[i - 1].kind = "upsert"
          /\ log[i - 1].status = "active"
          /\ log[i - 1].tier = log[i].tier /\ log[i - 1].cancel = log[i].cancel

NoCheckoutAfter(log, i) == \A j \in DOMAIN log : j > i => log[j].kind # "checkout"

(* The last event tells what became of the subscription b; events since the  *)
(* last checkout are of its customer, and a customer goes last.              *)
LogOk(log, b) ==
    /\ b.status # "none" <=> b.customer # 0
    /\ b.gone = TRUE => b.status = "canceled"
    /\ \A i \in DOMAIN log : log[i].customer # 0
    /\ \A i \in DOMAIN log : NoCheckoutAfter(log, i) => log[i].customer = b.customer
    /\ \A i \in DOMAIN log : NoCheckoutAfter(log, i) /\ log[i].kind = "forgotten" =>
                               i = Len(log) /\ b.gone = TRUE
    /\ log = <<>> => b.status \in {"none", "active"} /\ b.cancel = FALSE
                     /\ (b.status = "none" => b.tier = "free")
    /\ log # <<>> =>
         /\ b.status # "none"
         /\ b.status = "active" => /\ Told(log, Len(log))
                                   /\ log[Len(log)].tier = b.tier /\ log[Len(log)].cancel = b.cancel
         /\ b.status = "canceled" => log[Len(log)].kind \in {"deleted", "forgotten"}

Serves(r, x) ==
    /\ r.status = IF x.cancel THEN "pending_cancellation" ELSE "active"
    /\ r.tier \in {x.tier, "open_source"}

(* The row after the first k events, once every checkout is among them. *)
RowAt(r, log, k, b) ==
    /\ ~(k = Len(log) /\ b.gone = TRUE) => r.customer = b.customer
    /\ k > 0 /\ Told(log, k) /\ r.status # "canceled" => Serves(r, log[k])
    /\ k > 0 /\ log[k].kind \in {"deleted", "forgotten"} => r.status = "canceled"
    /\ log = <<>> => r.status = "active" /\ r.tier \in {b.tier, "open_source"}

Claimed(log, k) == \A i \in DOMAIN log : log[i].kind = "checkout" => i <= k

RowOk(r, log, done, inOrder, b) ==
    inOrder = TRUE =>
      \E k \in 0 .. Len(log) : done = 1 .. k /\ (Claimed(log, k) => RowAt(r, log, k, b))

InLogStep(a) ==
    /\ LogOk(sent[a], bill[a])
    /\ RowOk(row[a], sent[a], handled[a], ordered[a], bill[a])

StepInv == GraceInv /\ \A a \in Accounts : InLogStep(a)

(* Moving a row changes neither its tier nor its customer. *)
LEMMA EnteredSteady ==
    ASSUME NEW r \in Row
    PROVE  /\ Entered(r).tier = r.tier /\ Entered(r).customer = r.customer
           /\ Entered(r).status = r.status
<1>1. CASE r.status = "active"
  BY <1>1 DEF Entered, Recovered, Row
<1>2. CASE r.status = "past_due" /\ r.since = Never
  BY <1>2 DEF Entered, Row
<1>3. CASE r.status = "past_due" /\ r.since # Never
  BY <1>3 DEF Entered, Row
<1>4. CASE r.status \notin {"active", "past_due"}
  BY <1>4 DEF Entered, Row
<1>5. QED
  BY <1>1, <1>2, <1>3, <1>4

LEMMA TransitionSteady ==
    ASSUME NEW r \in Row, NEW event \in Firing
    PROVE  LET q == Transition(r, event) IN
           /\ q.tier = r.tier /\ q.customer = r.customer
           /\ Can(BillingMachine, event, r.status) =>
                q.status = Advance(BillingMachine, event, r.status)
           /\ ~Can(BillingMachine, event, r.status) => q = r
<1>1. CASE ~Can(BillingMachine, event, r.status)
  BY <1>1 DEF Transition
<1>2. CASE Can(BillingMachine, event, r.status)
  <2> DEFINE t == Advance(BillingMachine, event, r.status)
             q == [r EXCEPT !.status = t]
  <2>1. t \in SubscriptionStatus
    BY <1>2, Edges
  <2>2. Transition(r, event) = Entered(q)
    BY <1>2 DEF Transition
  <2> HIDE DEF t
  <2>3. q \in Row /\ q.status = t /\ q.tier = r.tier /\ q.customer = r.customer
    BY <2>1 DEF Row
  <2> HIDE DEF q
  <2>4. QED
    BY <1>2, <2>2, <2>3, EnteredSteady DEF t
<1>3. QED
  BY <1>1, <1>2

LEMMA FirstLegalSteady ==
    ASSUME NEW r \in Row, NEW events \in SUBSET Firing
    PROVE  LET q == FirstLegal(r, events) IN q.tier = r.tier /\ q.customer = r.customer
  BY FirstLegalOne, TransitionSteady

(* Stripe's "active" makes any row active that has not reached the end. *)
LEMMA FirstLegalActive ==
    ASSUME day \in Nat, NEW r \in Row, r.status \notin {"incomplete", "trialing"}
    PROVE  LET q == FirstLegal(r, StatusEvents["active"]) IN
           /\ q \in Row /\ q.tier = r.tier /\ q.customer = r.customer
           /\ q.status = IF r.status = "canceled" THEN "canceled" ELSE "active"
<1> DEFINE events == StatusEvents["active"]
           legal == {event \in events : Can(BillingMachine, event, r.status)}
           q == FirstLegal(r, events)
<1>1. events \in SUBSET Firing
  BY StatusEventsFire
<1>2. events = {"checkout_completed", "trial_converted", "payment_succeeded", "resumed"}
  BY DEF StatusEvents
<1>3. q \in Row
  BY <1>1, FirstLegalOne, TransitionType
<1>4. q.tier = r.tier /\ q.customer = r.customer
  BY <1>1, FirstLegalSteady
<1>5. r.status \in {"active", "past_due", "unpaid", "pending_cancellation", "canceled"}
  BY DEF Row, SubscriptionStatus
<1>6. CASE r.status \in {"active", "canceled"}
  <2>1. legal = {}
    BY <1>2, <1>6 DEF Can, BillingMachine
  <2>2. q = r
    BY <2>1 DEF FirstLegal
  <2>3. QED
    BY <1>3, <1>4, <1>6, <2>2
<1>7. CASE r.status \in {"past_due", "unpaid", "pending_cancellation"}
  <2>1. legal # {} /\ \A event \in legal : Advance(BillingMachine, event, r.status) = "active"
    <3>1. CASE r.status = "pending_cancellation"
      BY <1>2, <3>1 DEF Can, Advance, BillingMachine
    <3>2. CASE r.status \in {"past_due", "unpaid"}
      BY <1>2, <3>2 DEF Can, Advance, BillingMachine
    <3>3. QED
      BY <1>7, <3>1, <3>2
  <2>2. PICK event \in legal : q = Transition(r, event)
    BY <2>1 DEF FirstLegal
  <2>3. event \in Firing /\ Can(BillingMachine, event, r.status)
    BY <1>1
  <2>4. q.status = "active"
    BY <2>1, <2>2, <2>3, TransitionSteady
  <2>5. QED
    BY <1>3, <1>4, <1>7, <2>4
<1>8. QED
  BY <1>5, <1>6, <1>7

(* What an upsert makes of a row. *)
LEMMA UpsertedServes ==
    ASSUME day \in Nat, NEW r \in Row, NEW e \in Said, e.kind = "upsert",
           r.status \notin {"incomplete", "trialing"}
    PROVE  LET q == Upserted(r, e) IN
           /\ q.customer = r.customer
           /\ e.status = "active" /\ q.status # "canceled" => Serves(q, e)
<1> DEFINE known == [r EXCEPT !.end = e.end]
           sold  == [known EXCEPT !.tier = e.tier]
           changed == Transition(sold, "plan_changed")
           moving == CASE e.status = "unpaid"  -> known
                      [] e.tier # r.tier       -> changed
                      [] OTHER                 -> sold
           paid  == FirstLegal(moving, StatusEvents[e.status])
           Same(q) == q \in Row /\ q.status = r.status /\ q.customer = r.customer
<1>1. e.end \in Nat /\ e.tier \in Tiers /\ e.status \in DOMAIN StatusEvents /\ e.cancel \in BOOLEAN
  BY DEF Said, Event
<1>2. "plan_changed" \in Firing /\ "cancel_requested" \in Firing
  BY DEF Firing, BillingMachine
<1>3. Same(known)
  BY <1>1 DEF Row
<1>3a. sold = [known EXCEPT !.tier = e.tier]
  OBVIOUS
<1> HIDE DEF known
<1>4. Same(sold) /\ sold.tier = e.tier
  BY <1>1, <1>3 DEF Row
<1> HIDE DEF sold
<1>5. Same(changed) /\ changed.tier = e.tier
  <2>1. changed \in Row
    BY <1>2, <1>4, TransitionType
  <2>2. Can(BillingMachine, "plan_changed", sold.status) =>
          Advance(BillingMachine, "plan_changed", sold.status) = sold.status
    BY DEF Can, Advance, BillingMachine
  <2>3. QED
    BY <1>2, <1>4, <2>1, <2>2, TransitionSteady
<1> HIDE DEF changed
<1>6. Same(moving) /\ (e.status = "active" => moving.tier = e.tier)
  BY <1>3, <1>4, <1>5
<1>7. Upserted(r, e) = IF e.cancel THEN Transition(paid, "cancel_requested") ELSE paid
  BY DEF Upserted, known, sold, changed
<1> HIDE DEF moving
<1>8. /\ paid \in Row /\ paid.customer = r.customer
      /\ e.status = "active" =>
           /\ paid.tier = e.tier
           /\ paid.status = IF r.status = "canceled" THEN "canceled" ELSE "active"
  <2>1. StatusEvents[e.status] \in SUBSET Firing
    BY <1>1, StatusEventsFire
  <2>2. paid \in Row
    BY <1>6, <2>1, FirstLegalOne, TransitionType
  <2>3. paid.customer = r.customer
    BY <1>6, <2>1, FirstLegalSteady
  <2>4. e.status = "active" =>
           /\ paid.tier = e.tier
           /\ paid.status = IF r.status = "canceled" THEN "canceled" ELSE "active"
    BY <1>6, FirstLegalActive
  <2>5. QED
    BY <2>2, <2>3, <2>4
<1> HIDE DEF paid
<1>9. CASE ~e.cancel
  BY <1>7, <1>8, <1>9 DEF Serves
<1>10. CASE e.cancel
  <2> DEFINE q == Transition(paid, "cancel_requested")
  <2>1. Upserted(r, e) = q
    BY <1>7, <1>10
  <2>2. q.customer = paid.customer /\ q.tier = paid.tier
    BY <1>2, <1>8, TransitionSteady
  <2>3. CASE paid.status = "active"
    <3>1. /\ Can(BillingMachine, "cancel_requested", paid.status)
          /\ Advance(BillingMachine, "cancel_requested", paid.status) = "pending_cancellation"
      BY <2>3 DEF Can, Advance, BillingMachine
    <3>2. q.status = "pending_cancellation"
      BY <1>2, <1>8, <3>1, TransitionSteady
    <3> HIDE DEF q
    <3>3. QED
      BY <1>8, <1>10, <2>1, <2>2, <2>3, <3>2 DEF Serves
  <2>4. CASE paid.status = "canceled"
    <3>1. ~Can(BillingMachine, "cancel_requested", paid.status)
      BY <2>4 DEF Can, BillingMachine
    <3>2. q = paid
      BY <1>2, <1>8, <3>1, TransitionSteady
    <3>3. QED
      BY <1>8, <2>1, <2>4, <3>2
  <2>5. CASE e.status # "active"
    BY <1>8, <2>1, <2>2, <2>5
  <2>6. QED
    BY <1>8, <2>3, <2>4, <2>5
<1>11. QED
  BY <1>9, <1>10

LEMMA DeletedEnds ==
    ASSUME day \in Nat, NEW r \in Row, r.status \notin {"incomplete", "trialing"}
    PROVE  /\ Deleted(r) \in Row
           /\ Deleted(r).status = "canceled" /\ Deleted(r).customer = r.customer
           /\ [Deleted(r) EXCEPT !.customer = 0].status = "canceled"
<1> DEFINE q == Transition(r, "subscription_deleted")
<1>1. "subscription_deleted" \in Firing
  BY DEF Firing, BillingMachine
<1>2. q \in Row /\ q.customer = r.customer
  BY <1>1, TransitionType, TransitionSteady
<1>3. q.status = "canceled"
  <2>1. CASE r.status = "canceled"
    <3>1. ~Can(BillingMachine, "subscription_deleted", r.status)
      BY <2>1 DEF Can, BillingMachine
    <3>2. QED
      BY <1>1, <2>1, <3>1, TransitionSteady
  <2>2. CASE r.status # "canceled"
    <3>1. /\ Can(BillingMachine, "subscription_deleted", r.status)
          /\ Advance(BillingMachine, "subscription_deleted", r.status) = "canceled"
      BY <2>2 DEF Can, Advance, BillingMachine, Row
    <3>2. QED
      BY <1>1, <3>1, TransitionSteady
  <2>3. QED
    BY <2>1, <2>2
<1> HIDE DEF q
<1>4. Deleted(r) = [q EXCEPT !.tier = "free"]
  BY DEF Deleted, q
<1>5. Deleted(r) \in Row /\ Deleted(r).status = "canceled" /\ Deleted(r).customer = r.customer
  BY <1>2, <1>3, <1>4, TiersSold DEF Row
<1>6. [Deleted(r) EXCEPT !.customer = 0].status = Deleted(r).status
  BY <1>5 DEF Row
<1>7. QED
  BY <1>5, <1>6

LEMMA PaymentFailedSteady ==
    ASSUME day \in Nat, NEW r \in Row
    PROVE  PaymentFailed(r).customer = r.customer
<1> DEFINE q == Transition(r, "payment_failed")
<1>1. "payment_failed" \in Firing
  BY DEF Firing, BillingMachine
<1>2. q \in Row /\ q.customer = r.customer
  BY <1>1, TransitionType, TransitionSteady
<1>3. PaymentFailed(r) \in {r, [q EXCEPT !.mails = @ + 1]}
  BY DEF PaymentFailed
<1> HIDE DEF q
<1>4. [q EXCEPT !.mails = @ + 1].customer = q.customer
  BY <1>2 DEF Row
<1>5. QED
  BY <1>2, <1>3, <1>4

-----------------------------------------------------------------------------
(* The events of one step at Stripe, and the subscription b2 they tell of. *)
Batch(batch, b2) ==
    /\ batch \in Seq(Said) /\ batch # <<>>
    /\ b2.customer # 0 /\ b2.status # "none"
    /\ b2.gone = TRUE => b2.status = "canceled"
    /\ \A i \in DOMAIN batch : batch[i].customer = b2.customer
    /\ \A i \in DOMAIN batch : batch[i].kind = "forgotten" => i = Len(batch) /\ b2.gone = TRUE
    /\ b2.status = "active" =>
         /\ Told(batch, Len(batch))
         /\ batch[Len(batch)].tier = b2.tier /\ batch[Len(batch)].cancel = b2.cancel
    /\ b2.status = "canceled" => batch[Len(batch)].kind \in {"deleted", "forgotten"}

LEMMA Appended ==
    ASSUME NEW log \in Seq(Said), NEW batch \in Seq(Said), batch # <<>>
    PROVE  LET long == log \o batch IN
           /\ long \in Seq(Said) /\ long # <<>>
           /\ Len(long) = Len(log) + Len(batch) /\ Len(log) \in Nat /\ Len(batch) \in Nat \ {0}
           /\ DOMAIN log = 1 .. Len(log) /\ DOMAIN batch = 1 .. Len(batch)
           /\ DOMAIN long = 1 .. Len(long)
           /\ \A i \in 1 .. Len(log) : long[i] = log[i]
           /\ \A j \in 1 .. Len(batch) : long[Len(log) + j] = batch[j]
           /\ long[Len(long)] = batch[Len(batch)]
<1> DEFINE long == log \o batch
<1>1. /\ long \in Seq(Said) /\ Len(long) = Len(log) + Len(batch)
      /\ \A i \in 1 .. Len(log) : long[i] = log[i]
      /\ \A i \in Len(log) + 1 .. Len(log) + Len(batch) : long[i] = batch[i - Len(log)]
  BY ConcatProperties
<1>2. /\ Len(log) \in Nat /\ Len(batch) \in Nat \ {0}
      /\ DOMAIN log = 1 .. Len(log) /\ DOMAIN batch = 1 .. Len(batch)
  BY EmptySeq
<1> HIDE DEF long
<1>3. long # <<>> /\ DOMAIN long = 1 .. Len(long)
  BY <1>1, <1>2
<1>4. ASSUME NEW j \in 1 .. Len(batch)
      PROVE  long[Len(log) + j] = batch[j]
  <2>1. Len(log) + j \in Len(log) + 1 .. Len(log) + Len(batch) /\ (Len(log) + j) - Len(log) = j
    BY <1>2
  <2>2. QED
    BY <1>1, <2>1
<1>5. long[Len(long)] = batch[Len(batch)]
  BY <1>1, <1>2, <1>4
<1>6. QED
  BY <1>1, <1>2, <1>3, <1>4, <1>5 DEF long

LEMMA LogAppends ==
    ASSUME NEW log \in Seq(Said), NEW b, NEW b2, LogOk(log, b),
           NEW batch, Batch(batch, b2),
           \/ b2.customer = b.customer /\ b.gone = FALSE
           \/ batch[1].kind = "checkout"
    PROVE  LogOk(log \o batch, b2)
<1> DEFINE long == log \o batch
           n == Len(log)
           m == Len(batch)
<1>1. batch \in Seq(Said) /\ batch # <<>>
  BY DEF Batch
<1>2. /\ long \in Seq(Said) /\ long # <<>>
      /\ Len(long) = n + m /\ n \in Nat /\ m \in Nat \ {0}
      /\ DOMAIN log = 1 .. n /\ DOMAIN batch = 1 .. m /\ DOMAIN long = 1 .. Len(long)
      /\ \A i \in 1 .. n : long[i] = log[i]
      /\ \A j \in 1 .. m : long[n + j] = batch[j]
      /\ long[Len(long)] = batch[m]
  BY <1>1, Appended
<1> HIDE DEF long, n, m
<1>3. ASSUME NEW i \in DOMAIN long
      PROVE  \/ i \in 1 .. n /\ long[i] = log[i]
             \/ \E j \in 1 .. m : i = n + j /\ long[i] = batch[j]
  <2>1. CASE i <= n
    BY <1>2, <1>3, <2>1
  <2>2. CASE i > n
    <3>1. i - n \in 1 .. m /\ i = n + (i - n)
      BY <1>2, <1>3, <2>2
    <3>2. QED
      BY <1>2, <3>1
  <2>3. QED
    BY <1>2, <1>3, <2>1, <2>2
<1>4. ASSUME NEW i \in 1 .. n, NoCheckoutAfter(long, i)
      PROVE  /\ NoCheckoutAfter(log, i)
             /\ b2.customer = b.customer /\ b.gone = FALSE
  <2>1. \A j \in 1 .. n : j > i => log[j].kind # "checkout"
    BY <1>2, <1>4 DEF NoCheckoutAfter
  <2>2. n + 1 \in DOMAIN long /\ n + 1 > i /\ long[n + 1] = batch[1]
    BY <1>2
  <2>3. batch[1].kind # "checkout"
    BY <1>4, <2>2 DEF NoCheckoutAfter
  <2>4. QED
    BY <1>2, <2>1, <2>3 DEF NoCheckoutAfter
<1>5. ASSUME NEW i \in DOMAIN long
      PROVE  /\ long[i].customer # 0
             /\ NoCheckoutAfter(long, i) => long[i].customer = b2.customer
             /\ NoCheckoutAfter(long, i) /\ long[i].kind = "forgotten" =>
                  i = Len(long) /\ b2.gone = TRUE
  <2>1. CASE i \in 1 .. n /\ long[i] = log[i]
    <3>1. /\ log[i].customer # 0
          /\ NoCheckoutAfter(log, i) => log[i].customer = b.customer
          /\ NoCheckoutAfter(log, i) /\ log[i].kind = "forgotten" => b.gone = TRUE
      BY <1>2, <2>1 DEF LogOk
    <3>2. QED
      BY <1>4, <2>1, <3>1
  <2>2. CASE \E j \in 1 .. m : i = n + j /\ long[i] = batch[j]
    <3>1. PICK j \in 1 .. m : i = n + j /\ long[i] = batch[j]
      BY <2>2
    <3>2. /\ batch[j].customer = b2.customer /\ b2.customer # 0
          /\ batch[j].kind = "forgotten" => j = m /\ b2.gone = TRUE
      BY <1>2 DEF Batch, m
    <3>3. QED
      BY <1>2, <3>1, <3>2
  <2>3. QED
    BY <1>3, <2>1, <2>2
<1>6. b2.status = "active" => /\ Told(long, Len(long))
                              /\ long[Len(long)].tier = b2.tier
                              /\ long[Len(long)].cancel = b2.cancel
  <2> SUFFICES ASSUME b2.status = "active"
               PROVE  /\ Told(long, Len(long))
                      /\ long[Len(long)].tier = b2.tier /\ long[Len(long)].cancel = b2.cancel
    OBVIOUS
  <2>1. Told(batch, m) /\ batch[m].tier = b2.tier /\ batch[m].cancel = b2.cancel
    BY DEF Batch, m
  <2>2. m > 1 => Len(long) - 1 = n + (m - 1) /\ m - 1 \in 1 .. m /\ Len(long) > 1
    <3>1. \A x, y \in Nat : y > 1 => x + y - 1 = x + (y - 1) /\ y - 1 \in 1 .. y /\ x + y > 1
      OBVIOUS
    <3>2. QED
      BY <1>2, <3>1
  <2>3. m > 1 => long[Len(long) - 1] = batch[m - 1]
    BY <1>2, <2>2
  <2>4. QED
    BY <1>2, <2>1, <2>2, <2>3 DEF Told
<1>7. b2.status = "canceled" => long[Len(long)].kind \in {"deleted", "forgotten"}
  BY <1>2 DEF Batch, m
<1>8. /\ b2.customer # 0 /\ b2.status # "none"
      /\ b2.gone = TRUE => b2.status = "canceled"
  BY DEF Batch
<1>9. LogOk(long, b2)
  BY <1>2, <1>5, <1>6, <1>7, <1>8 DEF LogOk
<1>10. QED
  BY <1>9 DEF long

(* New events of the same subscription leave the row where it was ... *)
LEMMA RowAppends ==
    ASSUME NEW log \in Seq(Said), NEW r, NEW done, NEW inOrder, NEW b, NEW b2,
           RowOk(r, log, done, inOrder, b), NEW batch, Batch(batch, b2),
           b2.customer = b.customer, b.gone = FALSE
    PROVE  RowOk(r, log \o batch, done, inOrder, b2)
<1> DEFINE long == log \o batch
           n == Len(log)
<1>1. batch \in Seq(Said) /\ batch # <<>>
  BY DEF Batch
<1>2. /\ long # <<>> /\ n \in Nat /\ Len(long) \in Nat /\ n < Len(long)
      /\ DOMAIN log = 1 .. n /\ DOMAIN long = 1 .. Len(long)
      /\ \A i \in 1 .. n : long[i] = log[i]
  BY <1>1, Appended
<1> HIDE DEF long
<1>3. CASE inOrder = TRUE
  <2>1. PICK k \in 0 .. n : done = 1 .. k /\ (Claimed(log, k) => RowAt(r, log, k, b))
    BY <1>3 DEF RowOk
  <2>2. k \in 0 .. Len(long) /\ k # Len(long)
    <3>1. n \in Nat /\ Len(long) \in Nat /\ n < Len(long)
      BY <1>2
    <3>2. \A x, y \in Nat : x < y => \A z \in 0 .. x : z \in 0 .. y /\ z # y
      OBVIOUS
    <3>3. k \in 0 .. n
      OBVIOUS
    <3>4. QED
      BY <3>1, <3>2, <3>3
  <2>3. ASSUME Claimed(long, k)
        PROVE  RowAt(r, long, k, b2)
    <3>1. \A i \in 1 .. n : log[i].kind = "checkout" => i <= k
      BY <1>2, <2>3 DEF Claimed
    <3>2. RowAt(r, log, k, b)
      BY <1>2, <2>1, <3>1 DEF Claimed
    <3>3. k > 0 => long[k] = log[k] /\ k - 1 \in Nat /\ (k > 1 => long[k - 1] = log[k - 1])
      BY <1>2
    <3>4. k > 0 /\ Told(long, k) => Told(log, k)
      BY <3>3 DEF Told
    <3>5. r.customer = b2.customer
      BY <3>2 DEF RowAt
    <3>6. k > 0 /\ Told(long, k) /\ r.status # "canceled" => Serves(r, long[k])
      BY <3>2, <3>3, <3>4 DEF RowAt
    <3>7. k > 0 /\ long[k].kind \in {"deleted", "forgotten"} => r.status = "canceled"
      BY <3>2, <3>3 DEF RowAt
    <3>8. QED
      BY <1>2, <3>5, <3>6, <3>7 DEF RowAt
  <2>4. QED
    BY <2>1, <2>2, <2>3 DEF RowOk, long
<1>4. CASE inOrder # TRUE
  BY <1>4 DEF RowOk
<1>5. QED
  BY <1>3, <1>4

(* ... and of a new checkout the row knows nothing yet. *)
LEMMA RowResubscribes ==
    ASSUME NEW log \in Seq(Said), NEW r, NEW q, NEW done, NEW inOrder, NEW b, NEW b2,
           RowOk(r, log, done, inOrder, b), NEW batch \in Seq(Said), batch # <<>>,
           batch[1].kind = "checkout"
    PROVE  RowOk(q, log \o batch, done, inOrder, b2)
<1> DEFINE long == log \o batch
           n == Len(log)
<1>1. /\ n \in Nat /\ Len(long) \in Nat /\ n < Len(long)
      /\ DOMAIN long = 1 .. Len(long) /\ n + 1 \in DOMAIN long
      /\ long[n + 1] = batch[1]
  BY Appended
<1> HIDE DEF long
<1>2. \A k \in 0 .. n : k \in 0 .. Len(long) /\ ~Claimed(long, k)
  BY <1>1 DEF Claimed
<1>3. QED
  BY <1>2 DEF RowOk, long

(* Rows change without an event by what the pass and the routes do. *)
Drifts(r, q) ==
    /\ q.customer = r.customer
    /\ \/ q.status = r.status /\ q.tier \in {r.tier, "open_source"}
       \/ r.status # "active" /\ q.status = "canceled"
       \/ r.status = "past_due" /\ q.status = "unpaid"

LEMMA RowDrifts ==
    ASSUME NEW log, NEW r, NEW q, NEW done, NEW inOrder, NEW b,
           RowOk(r, log, done, inOrder, b), Drifts(r, q)
    PROVE  RowOk(q, log, done, inOrder, b)
<1>1. ASSUME NEW k, RowAt(r, log, k, b)
      PROVE  RowAt(q, log, k, b)
  <2>1. q.customer = r.customer
    BY DEF Drifts
  <2>2. CASE q.status = r.status /\ q.tier \in {r.tier, "open_source"}
    BY <1>1, <2>1, <2>2 DEF RowAt, Serves
  <2>3. CASE r.status # "active" /\ q.status = "canceled"
    BY <1>1, <2>1, <2>3 DEF RowAt
  <2>4. CASE r.status = "past_due" /\ q.status = "unpaid"
    BY <1>1, <2>1, <2>4 DEF RowAt, Serves
  <2>5. QED
    BY <2>2, <2>3, <2>4 DEF Drifts
<1>2. QED
  BY <1>1 DEF RowOk

(* The next event in order finds the row it is about, and tells it all. *)
LEMMA NextEvent ==
    ASSUME day \in Nat, NEW log \in Seq(Said), NEW b, LogOk(log, b),
           NEW r \in Row, r.status \notin {"incomplete", "trialing"},
           NEW k \in Nat, NEW i \in DOMAIN log, i = k + 1, Claimed(log, i),
           Claimed(log, k) => RowAt(r, log, k, b)
    PROVE  RowAt(Applied(r, log[i]), log, i, b)
<1> DEFINE e == log[i]
           q == Applied(r, e)
           paying == {"payment_succeeded", "checkout_completed", "trial_converted"}
<1>1. /\ e \in Said /\ log # <<>> /\ i \in Nat /\ i > 0 /\ i <= Len(log) /\ Len(log) \in Nat
      /\ i - 1 = k /\ DOMAIN log = 1 .. Len(log)
  BY EmptySeq
<1>2. /\ e.customer = b.customer /\ e.customer # 0
      /\ e.kind = "forgotten" => i = Len(log) /\ b.gone = TRUE
  <2>1. \A j \in DOMAIN log : j > i => log[j].kind # "checkout"
    <3>1. \A x \in DOMAIN log : x > i => ~(x <= i)
      BY <1>1
    <3>2. QED
      BY <3>1 DEF Claimed
  <2>2. NoCheckoutAfter(log, i)
    BY <2>1 DEF NoCheckoutAfter
  <2>3. QED
    BY <2>2 DEF LogOk
<1>3. e.kind # "checkout" => RowAt(r, log, k, b)
  <2> SUFFICES ASSUME e.kind # "checkout"
               PROVE  Claimed(log, k)
    OBVIOUS
  <2>1. ASSUME NEW j \in DOMAIN log, log[j].kind = "checkout"
        PROVE  j <= k
    <3>1. j <= i /\ j # i /\ j \in Nat
      BY <1>1, <2>1 DEF Claimed
    <3>2. QED
      BY <1>1, <3>1
  <2>2. QED
    BY <2>1 DEF Claimed
<1>4. e.kind # "checkout" => r.customer = b.customer /\ Matches(r, e)
  <2>1. k # Len(log)
    <3>1. \A x, y \in Nat : x > 0 /\ x <= y => x - 1 # y
      OBVIOUS
    <3>2. QED
      BY <1>1, <3>1
  <2>2. QED
    BY <1>2, <1>3, <2>1 DEF RowAt, Matches
<1> SUFFICES /\ ~(i = Len(log) /\ b.gone = TRUE) => q.customer = b.customer
             /\ Told(log, i) /\ q.status # "canceled" => Serves(q, e)
             /\ e.kind \in {"deleted", "forgotten"} => q.status = "canceled"
  BY <1>1 DEF RowAt
<1>5. Told(log, i) => e.kind \in {"upsert", "paid"}
  BY DEF Told
<1>6. CASE e.kind = "checkout"
  <2> DEFINE claimed == [r EXCEPT !.customer = e.customer]
  <2>1. claimed \in Row /\ claimed.customer = e.customer
    BY <1>1 DEF Row, Said, Event
  <2>2. q = Transition(claimed, "checkout_completed")
    BY <1>6 DEF Applied
  <2>3. "checkout_completed" \in Firing
    BY DEF Firing, BillingMachine
  <2> HIDE DEF claimed
  <2>4. q.customer = e.customer
    BY <2>1, <2>2, <2>3, TransitionSteady
  <2>5. QED
    BY <1>2, <1>5, <1>6, <2>4
<1>7. CASE e.kind = "upsert"
  <2>1. q = Upserted(r, e)
    BY <1>4, <1>7, Zenon DEF Applied
  <2>2. /\ q.customer = r.customer
        /\ e.status = "active" /\ q.status # "canceled" => Serves(q, e)
    BY <1>1, <1>7, <2>1, UpsertedServes
  <2>3. Told(log, i) => e.status = "active"
    BY DEF Told
  <2> HIDE DEF q
  <2>4. QED
    BY <1>4, <1>7, <2>2, <2>3
<1>8. CASE e.kind = "deleted"
  <2>1. q = Deleted(r)
    BY <1>4, <1>8, Zenon DEF Applied
  <2>2. q.status = "canceled" /\ q.customer = r.customer
    BY <2>1, DeletedEnds
  <2> HIDE DEF q
  <2>3. QED
    BY <1>4, <1>8, <2>2
<1>9. CASE e.kind = "forgotten"
  <2>1. q = [Deleted(r) EXCEPT !.customer = 0]
    BY <1>4, <1>9, Zenon DEF Applied
  <2>2. q.status = "canceled"
    BY <2>1, DeletedEnds
  <2> HIDE DEF q
  <2>3. QED
    BY <1>2, <1>9, <2>2
<1>10. CASE e.kind = "paid"
  <2>1. q = FirstLegal(r, paying)
    BY <1>4, <1>10, Zenon DEF Applied
  <2>2. paying \in SUBSET Firing
    BY DEF Firing, BillingMachine
  <2>3. q.customer = r.customer
    BY <2>1, <2>2, FirstLegalSteady
  <2>4. ASSUME Told(log, i), q.status # "canceled"
        PROVE  Serves(q, e)
    <3>1. /\ k > 0 /\ log[k].kind = "upsert" /\ log[k].status = "active"
          /\ log[k].tier = e.tier /\ log[k].cancel = e.cancel
      BY <1>1, <1>10, <2>4 DEF Told
    <3>2. Told(log, k)
      BY <3>1 DEF Told
    <3>3. CASE r.status = "canceled"
      <4>1. {event \in paying : Can(BillingMachine, event, r.status)} = {}
        BY <3>3 DEF Can, BillingMachine
      <4>2. q = r
        BY <2>1, <4>1 DEF FirstLegal
      <4>3. QED
        BY <2>4, <3>3, <4>2
    <3>4. CASE r.status # "canceled"
      <4>1. Serves(r, log[k])
        BY <1>3, <1>10, <3>1, <3>2, <3>4 DEF RowAt
      <4>2. r.status \in {"active", "pending_cancellation"}
        BY <4>1 DEF Serves
      <4>3. {event \in paying : Can(BillingMachine, event, r.status)} = {}
        BY <4>2 DEF Can, BillingMachine
      <4>4. q = r
        BY <2>1, <4>3 DEF FirstLegal
      <4> HIDE DEF q
      <4>5. QED
        BY <3>1, <4>1, <4>4 DEF Serves
    <3>5. QED
      BY <3>3, <3>4
  <2> HIDE DEF q
  <2>5. QED
    BY <1>4, <1>10, <2>3, <2>4
<1>11. CASE e.kind = "failed"
  <2>1. q = PaymentFailed(r)
    BY <1>4, <1>11, Zenon DEF Applied
  <2>2. q.customer = r.customer
    BY <2>1, PaymentFailedSteady
  <2> HIDE DEF q
  <2>3. QED
    BY <1>4, <1>5, <1>11, <2>2
<1>12. e.kind \in {"checkout", "upsert", "deleted", "forgotten", "paid", "failed"}
  BY <1>1 DEF Said, Event
<1>13. QED
  BY <1>6, <1>7, <1>8, <1>9, <1>10, <1>11, <1>12

LEMMA RowLearns ==
    ASSUME day \in Nat, NEW log \in Seq(Said), NEW b, LogOk(log, b),
           NEW r \in Row, r.status \notin {"incomplete", "trialing"},
           NEW done, NEW inOrder, RowOk(r, log, done, inOrder, b),
           NEW i \in DOMAIN log \ done,
           NEW next, next = TRUE => inOrder = TRUE /\ \A k \in 1 .. i - 1 : k \in done
    PROVE  RowOk(Applied(r, log[i]), log, done \cup {i}, next, b)
<1>1. CASE next = TRUE
  <2>1. inOrder = TRUE /\ \A k \in 1 .. i - 1 : k \in done
    BY <1>1
  <2>2. PICK k \in 0 .. Len(log) : done = 1 .. k /\ (Claimed(log, k) => RowAt(r, log, k, b))
    BY <2>1 DEF RowOk
  <2>3. Len(log) \in Nat /\ DOMAIN log = 1 .. Len(log) /\ k \in Nat
    OBVIOUS
  <2>4. i = k + 1
    <3>1. i \in Nat /\ i >= 1 /\ ~(i <= k)
      BY <2>2, <2>3
    <3>2. i > 1 => i - 1 \in 1 .. k
      BY <2>1, <2>2, <3>1
    <3>3. QED
      BY <2>3, <3>1, <3>2
  <2>5. i \in 0 .. Len(log) /\ done \cup {i} = 1 .. i
    BY <2>2, <2>3, <2>4
  <2>6. Claimed(log, i) => RowAt(Applied(r, log[i]), log, i, b)
    BY <2>2, <2>3, <2>4, NextEvent
  <2>7. QED
    BY <2>5, <2>6 DEF RowOk
<1>2. CASE next # TRUE
  BY <1>2 DEF RowOk
<1>3. QED
  BY <1>1, <1>2

-----------------------------------------------------------------------------
(* The kinds of the events that tell of subscription b2. *)
Telling(kinds, b2) ==
    /\ kinds \in Seq(Kinds) /\ kinds # <<>>
    /\ b2.customer # 0 /\ b2.status # "none"
    /\ b2.gone = TRUE => b2.status = "canceled"
    /\ \A i \in DOMAIN kinds : kinds[i] = "upsert" => b2.status \in DOMAIN StatusEvents
    /\ \A i \in DOMAIN kinds : kinds[i] = "forgotten" => i = Len(kinds) /\ b2.gone = TRUE
    /\ b2.status = "active" =>
         \/ kinds[Len(kinds)] = "upsert"
         \/ Len(kinds) > 1 /\ kinds[Len(kinds)] = "paid" /\ kinds[Len(kinds) - 1] = "upsert"
    /\ b2.status = "canceled" => kinds[Len(kinds)] \in {"deleted", "forgotten"}

(* The log of account a gets a batch of which the first is of this kind. *)
Emits(a, first, b2) ==
    \E batch \in Seq(Said) : /\ Batch(batch, b2) /\ batch[1].kind = first
                             /\ sent' = [sent EXCEPT ![a] = sent[a] \o batch]

LEMMA EmittedBatch ==
    ASSUME GraceInv, NEW a \in Accounts, NEW fact, NEW b2 \in Bill, NEW kinds,
           AtStripe(fact, a, b2, kinds), Telling(kinds, b2)
    PROVE  Emits(a, kinds[1], b2)
<1> DEFINE batch == [i \in DOMAIN kinds |-> Says(a, kinds[i])]
           n == Len(kinds)
<1>1. /\ bill' = [bill EXCEPT ![a] = b2]
      /\ sent' = [sent EXCEPT ![a] = sent[a] \o batch]
  BY DEF AtStripe
<1>2. bill'[a] = b2
  BY <1>1 DEF GraceInv, TypeOK
<1>3. /\ kinds \in Seq(Kinds) /\ n \in Nat \ {0} /\ DOMAIN kinds = 1 .. n
  BY EmptySeq DEF Telling
<1>4. batch \in Seq(Said)
  BY <1>2, <1>3, EmittedType DEF Telling
<1>5. \A i \in 1 .. n : /\ batch[i].kind = kinds[i] /\ batch[i].customer = b2.customer
                        /\ batch[i].status = b2.status /\ batch[i].tier = b2.tier
                        /\ batch[i].cancel = b2.cancel
  BY <1>2, <1>3 DEF Says
<1>6. DOMAIN batch = 1 .. n /\ Len(batch) = n /\ batch # <<>>
  BY <1>3, <1>4
<1> HIDE DEF batch, n
<1>7. 1 \in 1 .. n /\ n \in 1 .. n /\ (n > 1 => n - 1 \in 1 .. n)
  BY <1>3
<1>8. b2.status = "active" => /\ Told(batch, n)
                              /\ batch[n].tier = b2.tier /\ batch[n].cancel = b2.cancel
  BY <1>5, <1>7 DEF Telling, Told, n
<1>9. b2.status = "canceled" => batch[n].kind \in {"deleted", "forgotten"}
  BY <1>5, <1>7 DEF Telling, n
<1>10. /\ \A i \in 1 .. n : batch[i].kind = "forgotten" => i = n /\ b2.gone = TRUE
       /\ b2.customer # 0 /\ b2.status # "none"
       /\ b2.gone = TRUE => b2.status = "canceled"
  BY <1>3, <1>5 DEF Telling, n
<1>11. Batch(batch, b2)
  BY <1>4, <1>5, <1>6, <1>8, <1>9, <1>10 DEF Batch
<1>12. QED
  BY <1>1, <1>4, <1>5, <1>7, <1>11 DEF Emits

LEMMA SameLogStep ==
    ASSUME StepInv, NEW c \in Accounts, sent'[c] = sent[c], bill'[c] = bill[c],
           handled'[c] = handled[c], ordered'[c] = ordered[c],
           row'[c] = row[c] \/ Drifts(row[c], row'[c])
    PROVE  InLogStep(c)'
<1>1. InLogStep(c)
  BY DEF StepInv
<1>2. LogOk(sent'[c], bill'[c])
  BY <1>1 DEF InLogStep
<1>3. RowOk(row'[c], sent'[c], handled'[c], ordered'[c], bill'[c])
  BY <1>1, RowDrifts DEF InLogStep
<1>4. QED
  BY <1>2, <1>3 DEF InLogStep

(* More is told of a subscription. *)
LEMMA TellsMore ==
    ASSUME StepInv, NEW a \in Accounts, NEW fact, NEW b2 \in Bill, NEW kinds,
           AtStripe(fact, a, b2, kinds), Telling(kinds, b2), UNCHANGED row,
           b2.customer = bill[a].customer, bill[a].gone = FALSE,
           NEW c \in Accounts
    PROVE  InLogStep(c)'
<1>1. GraceInv /\ InLogStep(a)
  BY DEF StepInv
<1>0. Emits(a, kinds[1], b2)
  BY <1>1, EmittedBatch
<1>2. PICK batch \in Seq(Said) : /\ Batch(batch, b2)
                                 /\ sent' = [sent EXCEPT ![a] = sent[a] \o batch]
  BY <1>0 DEF Emits
<1>3. bill' = [bill EXCEPT ![a] = b2] /\ UNCHANGED <<handled, ordered>>
  BY DEF AtStripe
<1>4. sent \in [Accounts -> Seq(Said)] /\ bill \in [Accounts -> Bill]
  BY <1>1 DEF GraceInv, TypeOK
<1>5. CASE c = a
  <2>1. /\ sent'[c] = sent[a] \o batch /\ bill'[c] = b2 /\ sent[a] \in Seq(Said)
        /\ handled'[c] = handled[a] /\ ordered'[c] = ordered[a] /\ row'[c] = row[a]
    BY <1>2, <1>3, <1>4, <1>5
  <2>2. LogOk(sent[a] \o batch, b2)
    BY <1>1, <1>2, <2>1, LogAppends DEF InLogStep
  <2>3. RowOk(row[a], sent[a] \o batch, handled[a], ordered[a], b2)
    BY <1>1, <1>2, <2>1, RowAppends DEF InLogStep
  <2>4. QED
    BY <2>1, <2>2, <2>3 DEF InLogStep
<1>6. CASE c # a
  <2>1. sent'[c] = sent[c] /\ bill'[c] = bill[c]
    BY <1>2, <1>3, <1>4, <1>6
  <2>2. QED
    BY <1>3, <2>1, SameLogStep
<1>7. QED
  BY <1>5, <1>6

(* A checkout: what the row holds no longer counts until it is told. *)
LEMMA TellsAnew ==
    ASSUME StepInv, NEW a \in Accounts, NEW fact, NEW b2 \in Bill, NEW kinds,
           AtStripe(fact, a, b2, kinds), Telling(kinds, b2), kinds[1] = "checkout",
           NEW c \in Accounts, c # a => row'[c] = row[c]
    PROVE  InLogStep(c)'
<1>1. GraceInv /\ InLogStep(a)
  BY DEF StepInv
<1>0. Emits(a, kinds[1], b2)
  BY <1>1, EmittedBatch
<1>2. PICK batch \in Seq(Said) : /\ Batch(batch, b2) /\ batch[1].kind = "checkout"
                                 /\ sent' = [sent EXCEPT ![a] = sent[a] \o batch]
  BY <1>0 DEF Emits
<1>3. bill' = [bill EXCEPT ![a] = b2] /\ UNCHANGED <<handled, ordered>>
  BY DEF AtStripe
<1>4. sent \in [Accounts -> Seq(Said)] /\ bill \in [Accounts -> Bill]
  BY <1>1 DEF GraceInv, TypeOK
<1>5. CASE c = a
  <2>1. /\ sent'[c] = sent[a] \o batch /\ bill'[c] = b2 /\ sent[a] \in Seq(Said)
        /\ handled'[c] = handled[a] /\ ordered'[c] = ordered[a]
    BY <1>2, <1>3, <1>4, <1>5
  <2>2. LogOk(sent[a] \o batch, b2)
    BY <1>1, <1>2, <2>1, LogAppends DEF InLogStep
  <2>3. RowOk(row'[c], sent[a] \o batch, handled[a], ordered[a], b2)
    <3>1. batch # <<>>
      BY <1>2 DEF Batch
    <3>2. QED
      BY <1>1, <1>2, <2>1, <3>1, RowResubscribes DEF InLogStep
  <2>4. QED
    BY <2>1, <2>2, <2>3 DEF InLogStep
<1>6. CASE c # a
  <2>1. sent'[c] = sent[c] /\ bill'[c] = bill[c]
    BY <1>2, <1>3, <1>4, <1>6
  <2>2. QED
    BY <1>3, <1>6, <2>1, SameLogStep
<1>7. QED
  BY <1>5, <1>6

(* What the events of each step tell. *)
LEMMA Tales ==
    ASSUME NEW b2 \in Bill, b2.customer # 0
    PROVE  /\ b2.gone = FALSE /\ b2.status \in {"active", "past_due", "unpaid"} =>
                /\ Telling(<<"upsert">>, b2)
                /\ Telling(<<"failed", "upsert">>, b2) /\ Telling(<<"paid", "upsert">>, b2)
           /\ b2.gone = FALSE /\ b2.status = "active" =>
                Telling(<<"checkout", "upsert", "paid">>, b2)
           /\ b2.gone = FALSE /\ b2.status = "canceled" => Telling(<<"deleted">>, b2)
           /\ b2.gone = TRUE /\ b2.status = "canceled" =>
                Telling(<<"deleted", "forgotten">>, b2) /\ Telling(<<"forgotten">>, b2)
<1>1. /\ <<"upsert">> \in Seq(Kinds) /\ <<"failed", "upsert">> \in Seq(Kinds)
      /\ <<"paid", "upsert">> \in Seq(Kinds) /\ <<"checkout", "upsert", "paid">> \in Seq(Kinds)
      /\ <<"deleted">> \in Seq(Kinds) /\ <<"forgotten">> \in Seq(Kinds)
      /\ <<"deleted", "forgotten">> \in Seq(Kinds)
  BY Emissions
<1>2. DOMAIN StatusEvents = {"active", "past_due", "unpaid"}
  BY StatusEventsFire
<1>3. ASSUME b2.gone = FALSE, b2.status \in {"active", "past_due", "unpaid"}
      PROVE  Telling(<<"upsert">>, b2)
  BY <1>1, <1>2, <1>3 DEF Telling
<1>4. ASSUME b2.gone = FALSE, b2.status \in {"active", "past_due", "unpaid"}
      PROVE  Telling(<<"failed", "upsert">>, b2)
  BY <1>1, <1>2, <1>4 DEF Telling
<1>5. ASSUME b2.gone = FALSE, b2.status \in {"active", "past_due", "unpaid"}
      PROVE  Telling(<<"paid", "upsert">>, b2)
  BY <1>1, <1>2, <1>5 DEF Telling
<1>6. ASSUME b2.gone = FALSE, b2.status = "active"
      PROVE  Telling(<<"checkout", "upsert", "paid">>, b2)
  BY <1>1, <1>2, <1>6 DEF Telling
<1>7. ASSUME b2.gone = FALSE, b2.status = "canceled"
      PROVE  Telling(<<"deleted">>, b2)
  BY <1>1, <1>2, <1>7 DEF Telling
<1>8. ASSUME b2.gone = TRUE, b2.status = "canceled"
      PROVE  Telling(<<"deleted", "forgotten">>, b2)
  BY <1>1, <1>2, <1>8 DEF Telling
<1>9. ASSUME b2.gone = TRUE, b2.status = "canceled"
      PROVE  Telling(<<"forgotten">>, b2)
  BY <1>1, <1>2, <1>9 DEF Telling
<1>10. QED
  BY <1>3, <1>4, <1>5, <1>6, <1>7, <1>8, <1>9

LEMMA StripeTells ==
    ASSUME StepInv, NEW a \in Accounts, Stripe(a), NEW c \in Accounts
    PROVE  InLogStep(c)'
<1> DEFINE old == bill[a]
<1>1. /\ old \in Bill /\ old.end + Month \in Nat /\ LogOk(sent[a], old)
  BY BillingAssumption DEF StepInv, GraceInv, TypeOK, InLogStep, Bill
<1>2. /\ old.gone \in BOOLEAN /\ (old.gone = TRUE => old.status = "canceled")
      /\ old.status # "none" <=> old.customer # 0
  BY <1>1 DEF Bill, LogOk
<1> HIDE DEF old
<1>3. Live(a) => old.gone = FALSE /\ old.customer # 0
  BY <1>2 DEF Live, old
<1>4. \A status \in {"active", "past_due", "unpaid", "canceled"} :
        LET b2 == [old EXCEPT !.status = status] IN
        b2 \in Bill /\ b2.status = status /\ b2.customer = old.customer /\ b2.gone = old.gone
  BY <1>1 DEF Bill
<1>5. \A cancel \in BOOLEAN :
        LET b2 == [old EXCEPT !.cancel = cancel] IN
        b2 \in Bill /\ b2.status = old.status /\ b2.customer = old.customer /\ b2.gone = old.gone
  BY <1>1 DEF Bill
<1>6. CASE ChargeFails(a) \/ InvoicePaid(a) \/ MarkedUnpaid(a)
  <2>1. PICK status \in {"active", "past_due", "unpaid"},
             kinds \in {<<"failed", "upsert">>, <<"paid", "upsert">>, <<"upsert">>},
             fact \in {"fail", "pay", "unpaid"} :
          /\ AtStripe(fact, a, [old EXCEPT !.status = status], kinds)
          /\ UNCHANGED row /\ Live(a)
    BY <1>6 DEF ChargeFails, InvoicePaid, MarkedUnpaid, Live, old
  <2> DEFINE b2 == [old EXCEPT !.status = status]
  <2>2. b2 \in Bill /\ b2.status = status /\ b2.customer = old.customer /\ b2.gone = old.gone
    BY <1>4
  <2>3. AtStripe(fact, a, b2, kinds)
    BY <2>1
  <2> HIDE DEF b2
  <2>4. Telling(kinds, b2)
    BY <1>3, <2>1, <2>2, Tales
  <2>5. QED
    BY <1>3, <2>1, <2>2, <2>3, <2>4, TellsMore DEF old
<1>7. CASE Renews(a)
  <2> DEFINE end == old.end + Month
             b2 == [old EXCEPT !.end = end]
  <2>1. /\ AtStripe("renew", a, b2, <<"paid", "upsert">>)
        /\ UNCHANGED row /\ old.status = "active"
    BY <1>7 DEF Renews, old
  <2>2. end \in Nat /\ Live(a)
    BY <1>1, <2>1 DEF Live, old
  <2> HIDE DEF end
  <2>3. /\ b2 \in Bill /\ b2.status = old.status /\ b2.customer = old.customer
        /\ b2.gone = old.gone
    BY <1>1, <2>2 DEF Bill
  <2> HIDE DEF b2
  <2>4. Telling(<<"paid", "upsert">>, b2)
    BY <1>3, <2>1, <2>2, <2>3, Tales
  <2>5. QED
    BY <1>3, <2>1, <2>2, <2>3, <2>4, TellsMore DEF old
<1>8. CASE Dropped(a) \/ PeriodEnds(a)
  <2> DEFINE b2 == [old EXCEPT !.status = "canceled"]
  <2>1. PICK fact \in {"drop", "end"} : /\ AtStripe(fact, a, b2, <<"deleted">>)
                                        /\ UNCHANGED row /\ Live(a)
    BY <1>8 DEF Dropped, PeriodEnds, old
  <2>2. /\ b2 \in Bill /\ b2.status = "canceled" /\ b2.customer = old.customer
        /\ b2.gone = old.gone
    BY <1>4
  <2> HIDE DEF b2
  <2>3. Telling(<<"deleted">>, b2)
    BY <1>3, <2>1, <2>2, Tales
  <2>4. QED
    BY <1>3, <2>1, <2>2, <2>3, TellsMore DEF old
<1>9. CASE CancelInPortal(a) \/ ResumeInPortal(a)
  <2>1. PICK cancel \in BOOLEAN, fact \in {"cancel", "resume"} :
          /\ AtStripe(fact, a, [old EXCEPT !.cancel = cancel], <<"upsert">>)
          /\ UNCHANGED row /\ Live(a)
    BY <1>9 DEF CancelInPortal, ResumeInPortal, old
  <2> DEFINE b2 == [old EXCEPT !.cancel = cancel]
  <2>2. /\ b2 \in Bill /\ b2.status = old.status /\ b2.customer = old.customer
        /\ b2.gone = old.gone
    BY <1>5
  <2>3. AtStripe(fact, a, b2, <<"upsert">>)
    BY <2>1
  <2> HIDE DEF b2
  <2>4. old.status \in {"active", "past_due", "unpaid"}
    BY <2>1 DEF Live, old
  <2>5. Telling(<<"upsert">>, b2)
    BY <1>3, <2>1, <2>2, <2>4, Tales
  <2>6. QED
    BY <1>3, <2>1, <2>2, <2>3, <2>5, TellsMore DEF old
<1>10. CASE CustomerDeleted(a)
  <2> DEFINE status == IF Live(a) THEN "canceled" ELSE old.status
             b2 == [old EXCEPT !.status = status, !.gone = TRUE]
             kinds == IF Live(a) THEN <<"deleted", "forgotten">> ELSE <<"forgotten">>
  <2>1. /\ AtStripe("forget", a, b2, kinds) /\ UNCHANGED row
        /\ old.customer # 0 /\ old.gone = FALSE
    BY <1>2, <1>10 DEF CustomerDeleted, old
  <2>2. status = "canceled"
    BY <1>1, <1>2, <2>1 DEF Live, Bill, old
  <2>3. b2 \in Bill /\ b2.status = "canceled" /\ b2.customer = old.customer /\ b2.gone = TRUE
    BY <1>1, <2>2 DEF Bill
  <2>4. kinds \in {<<"deleted", "forgotten">>, <<"forgotten">>}
    OBVIOUS
  <2> HIDE DEF b2, kinds
  <2>5. Telling(kinds, b2)
    BY <2>1, <2>3, <2>4, Tales
  <2>6. QED
    BY <2>1, <2>3, <2>5, TellsMore DEF old
<1>11. QED
  BY <1>6, <1>7, <1>8, <1>9, <1>10 DEF Stripe

LEMMA RequestTells ==
    ASSUME StepInv, NEW a \in Accounts, Request(a), NEW c \in Accounts
    PROVE  InLogStep(c)'
<1> DEFINE old == bill[a]
<1>1. /\ old \in Bill /\ LogOk(sent[a], old) /\ row[a] \in Row /\ day + Month \in Nat
      /\ row \in [Accounts -> Row]
  BY BillingAssumption DEF StepInv, GraceInv, TypeOK, InLogStep
<1>2. ASSUME NEW tier \in PaidTiers, Subscribe(a, tier)
      PROVE  InLogStep(c)'
  <2> DEFINE reused == row[a].customer # 0 /\ ~bill[a].gone
             customer == IF reused THEN row[a].customer ELSE bill[a].customer + 1
             b2 == [status |-> "active", tier |-> tier, cancel |-> FALSE, end |-> day + Month,
                    customer |-> customer, gone |-> FALSE]
  <2>1. /\ AtStripe("subscribe", a, b2, <<"checkout", "upsert", "paid">>)
        /\ row' = IF reused THEN row ELSE [row EXCEPT ![a].customer = 0]
    BY <1>2 DEF Subscribe
  <2>2. customer \in Nat /\ customer # 0
    BY <1>1 DEF Row, Bill
  <2>3. c # a => row'[c] = row[c]
    BY <1>1, <2>1
  <2> HIDE DEF customer, reused
  <2>4. /\ b2 \in Bill /\ b2.customer # 0 /\ b2.gone = FALSE /\ b2.status = "active"
    BY <1>1, <2>2, TiersSold DEF Bill
  <2> HIDE DEF b2
  <2>5. Telling(<<"checkout", "upsert", "paid">>, b2)
    BY <2>4, Tales
  <2>6. QED
    BY <2>1, <2>3, <2>4, <2>5, TellsAnew
<1>3. ASSUME NEW tier \in PaidTiers, ChangePlan(a, tier)
      PROVE  InLogStep(c)'
  <2> DEFINE b2 == [old EXCEPT !.tier = tier]
  <2>1. /\ AtStripe("change", a, b2, <<"upsert">>) /\ UNCHANGED row
        /\ old.status = "active"
    BY <1>3 DEF ChangePlan
  <2>2. old.gone = FALSE /\ old.customer # 0
    BY <1>1, <2>1 DEF Bill, LogOk
  <2>3. /\ b2 \in Bill /\ b2.status = "active" /\ b2.customer = old.customer
        /\ b2.gone = FALSE
    BY <1>1, <2>1, <2>2, TiersSold DEF Bill
  <2> HIDE DEF b2
  <2>4. Telling(<<"upsert">>, b2)
    BY <2>2, <2>3, Tales
  <2>5. QED
    BY <2>1, <2>2, <2>3, <2>4, TellsMore
<1>4. CASE ApproveOss(a)
  <2>1. UNCHANGED <<bill, sent, handled, ordered>>
    BY <1>4 DEF ApproveOss
  <2>2. row'[c] = row[c] \/ row'[c] = [row[c] EXCEPT !.tier = "open_source"]
    BY <1>1, <1>4 DEF ApproveOss
  <2>3. Drifts(row[c], [row[c] EXCEPT !.tier = "open_source"])
    BY <1>1, TiersSold DEF Drifts, Row
  <2>4. QED
    BY <2>1, <2>2, <2>3, SameLogStep
<1>5. CASE RollPeriod(a)
  <2> DEFINE end == (day \div Month + 1) * Month
  <2>1. UNCHANGED <<bill, sent, handled, ordered>> /\ row' = [row EXCEPT ![a].end = end]
    BY <1>5 DEF RollPeriod
  <2> HIDE DEF end
  <2>2. row'[c] = row[c] \/ row'[c] = [row[c] EXCEPT !.end = end]
    BY <1>1, <2>1
  <2>3. Drifts(row[c], [row[c] EXCEPT !.end = end])
    BY <1>1 DEF Drifts, Row
  <2>4. QED
    BY <2>1, <2>2, <2>3, SameLogStep
<1>6. QED
  BY <1>2, <1>3, <1>4, <1>5 DEF Request

LEMMA DunnedDrifts ==
    ASSUME day \in Nat, NEW r \in Row
    PROVE  Drifts(r, Dunned(r))
<1> DEFINE stamped == IF r.since = Never THEN [r EXCEPT !.since = day] ELSE r
           closed == Transition(stamped, "grace_expired")
<1>1. /\ stamped \in Row /\ stamped.status = r.status /\ stamped.tier = r.tier
      /\ stamped.customer = r.customer
  BY DEF Row
<1>2. Dunned(r) \in {closed, Reminded(stamped)}
  BY DEF Dunned
<1> HIDE DEF stamped
<1>3. Drifts(r, closed)
  <2>1. "grace_expired" \in Firing
    BY DEF Firing, BillingMachine
  <2>2. CASE r.status = "past_due"
    <3>1. /\ Can(BillingMachine, "grace_expired", stamped.status)
          /\ Advance(BillingMachine, "grace_expired", stamped.status) = "unpaid"
      BY <1>1, <2>2 DEF Can, Advance, BillingMachine
    <3>2. closed.status = "unpaid" /\ closed.customer = r.customer
      BY <1>1, <2>1, <3>1, TransitionSteady
    <3>3. QED
      BY <2>2, <3>2 DEF Drifts
  <2>3. CASE r.status # "past_due"
    <3>1. ~Can(BillingMachine, "grace_expired", stamped.status)
      BY <1>1, <2>3 DEF Can, BillingMachine
    <3>2. closed = stamped
      BY <1>1, <2>1, <3>1, TransitionSteady
    <3>3. QED
      BY <1>1, <3>2 DEF Drifts
  <2>4. QED
    BY <2>2, <2>3
<1>4. Drifts(r, Reminded(stamped))
  <2> DEFINE due == DueStage(day - stamped.since)
  <2>1. Reminded(stamped) \in {stamped, [stamped EXCEPT !.stage = due, !.mails = @ + 1]}
    BY DEF Reminded
  <2> HIDE DEF due
  <2>2. QED
    BY <1>1, <2>1 DEF Drifts, Row
<1>5. QED
  BY <1>2, <1>3, <1>4

LEMMA EndedDrifts ==
    ASSUME day \in Nat, NEW r \in Row, r.status = "pending_cancellation"
    PROVE  Drifts(r, [Transition(r, "period_ended") EXCEPT !.tier = "free"])
<1> DEFINE q == Transition(r, "period_ended")
<1>1. "period_ended" \in Firing
  BY DEF Firing, BillingMachine
<1>2. /\ Can(BillingMachine, "period_ended", r.status)
      /\ Advance(BillingMachine, "period_ended", r.status) = "canceled"
  BY DEF Can, Advance, BillingMachine
<1>3. q \in Row /\ q.status = "canceled" /\ q.customer = r.customer
  BY <1>1, <1>2, TransitionType, TransitionSteady
<1> HIDE DEF q
<1>4. /\ [q EXCEPT !.tier = "free"].status = q.status
      /\ [q EXCEPT !.tier = "free"].customer = q.customer
  BY <1>3 DEF Row
<1>5. QED
  BY <1>3, <1>4 DEF Drifts, q

LEMMA EventTells ==
    ASSUME StepInv, NEW a \in Accounts, HandleEvent(a), NEW c \in Accounts
    PROVE  InLogStep(c)'
<1>1. PICK i \in Unhandled(a) :
        /\ row' = [row EXCEPT ![a] = Applied(row[a], sent[a][i])]
        /\ handled' = [handled EXCEPT ![a] = handled[a] \cup {i}]
        /\ ordered' = [ordered EXCEPT ![a] = ordered[a] /\ \A k \in 1 .. i - 1 : k \in handled[a]]
  BY DEF HandleEvent
<1>2. UNCHANGED <<bill, sent>>
  BY DEF HandleEvent
<1>3. /\ row \in [Accounts -> Row] /\ handled \in [Accounts -> SUBSET Nat]
      /\ ordered \in [Accounts -> BOOLEAN] /\ day \in Nat /\ sent[a] \in Seq(Said)
      /\ row[a].status \notin {"incomplete", "trialing"} /\ InLogStep(a)
  BY DEF StepInv, GraceInv, TypeOK, Graced
<1>4. CASE c = a
  <2> DEFINE next == ordered[a] /\ \A k \in 1 .. i - 1 : k \in handled[a]
  <2>1. /\ row'[c] = Applied(row[a], sent[a][i]) /\ handled'[c] = handled[a] \cup {i}
        /\ ordered'[c] = next
    BY <1>1, <1>3, <1>4
  <2>2. row[a] \in Row /\ i \in DOMAIN sent[a] \ handled[a]
    BY <1>3 DEF Unhandled
  <2>3. RowOk(Applied(row[a], sent[a][i]), sent[a], handled[a] \cup {i}, next, bill[a])
    <3>1. next = TRUE => ordered[a] = TRUE /\ \A k \in 1 .. i - 1 : k \in handled[a]
      BY <1>3
    <3> HIDE DEF next
    <3>2. QED
      BY <1>3, <2>2, <3>1, RowLearns DEF InLogStep
  <2> HIDE DEF next
  <2>4. RowOk(row'[c], sent'[c], handled'[c], ordered'[c], bill'[c])
    BY <1>2, <1>4, <2>1, <2>3
  <2>5. LogOk(sent'[c], bill'[c])
    BY <1>2, <1>3, <1>4 DEF InLogStep
  <2>6. QED
    BY <2>4, <2>5 DEF InLogStep
<1>5. CASE c # a
  <2>1. row'[c] = row[c] /\ handled'[c] = handled[c] /\ ordered'[c] = ordered[c]
    BY <1>1, <1>3, <1>5
  <2>2. QED
    BY <1>2, <2>1, SameLogStep
<1>6. QED
  BY <1>4, <1>5

LEMMA StepKept ==
    ASSUME StepInv, [Next]_vars
    PROVE  StepInv'
<1>1. GraceInv'
  BY GraceStep DEF StepInv
<1>2. ASSUME NEW c \in Accounts
      PROVE  InLogStep(c)'
  <2>1. /\ row \in [Accounts -> Row] /\ day \in Nat /\ row[c] \in Row /\ todo \subseteq Accounts
    BY DEF StepInv, GraceInv, TypeOK
  <2>2. Drifts(row[c], Dunned(row[c]))
    BY <2>1, DunnedDrifts
  <2>3. CASE UNCHANGED vars \/ DunningDies \/ NextDay
    BY <2>3, SameLogStep DEF vars, DunningDies, NextDay
  <2>4. CASE StartDunning
    <3>1. UNCHANGED <<bill, sent, handled, ordered>>
      BY <2>4 DEF StartDunning
    <3>2. row'[c] = row[c] \/ row'[c] = Dunned(row[c])
      BY <2>4 DEF StartDunning
    <3>3. QED
      BY <2>2, <3>1, <3>2, SameLogStep
  <2>5. CASE DunNext
    <3>1. UNCHANGED <<bill, sent, handled, ordered>>
      BY <2>5 DEF DunNext
    <3>2. row'[c] = row[c] \/ row'[c] = Dunned(row[c])
      BY <2>1, <2>5 DEF DunNext
    <3>3. QED
      BY <2>2, <3>1, <3>2, SameLogStep
  <2>6. ASSUME NEW a \in Accounts, FinishCancellation(a)
        PROVE  InLogStep(c)'
    <3>1. UNCHANGED <<bill, sent, handled, ordered>> /\ row[a].status = "pending_cancellation"
      BY <2>6 DEF FinishCancellation
    <3>2. \/ row'[c] = row[c]
          \/ c = a /\ row'[c] = [Transition(row[c], "period_ended") EXCEPT !.tier = "free"]
      BY <2>1, <2>6 DEF FinishCancellation
    <3>3. QED
      BY <2>1, <3>1, <3>2, EndedDrifts, SameLogStep
  <2>7. QED
    BY <2>3, <2>4, <2>5, <2>6, StripeTells, RequestTells, EventTells DEF Next
<1>3. QED
  BY <1>1, <1>2 DEF StepInv

LEMMA StepInit == Init => StepInv
<1> SUFFICES ASSUME Init
             PROVE  StepInv
  OBVIOUS
<1>1. ASSUME NEW a \in Accounts
      PROVE  InLogStep(a)
  <2>1. sent[a] = <<>> /\ handled[a] = {} /\ ordered[a] = TRUE
    BY DEF Init
  <2>2. /\ bill[a].status \in {"none", "active"} /\ bill[a].cancel = FALSE /\ bill[a].gone = FALSE
        /\ bill[a].status = "none" => bill[a].tier = "free"
        /\ bill[a].status # "none" <=> bill[a].customer # 0
        /\ row[a].status = "active" /\ row[a].tier = bill[a].tier
        /\ row[a].customer = bill[a].customer
    BY DEF Init
  <2>3. LogOk(sent[a], bill[a])
    BY <2>1, <2>2 DEF LogOk
  <2>4. RowAt(row[a], sent[a], 0, bill[a])
    BY <2>2 DEF RowAt
  <2>5. 0 \in 0 .. Len(sent[a]) /\ handled[a] = 1 .. 0
    BY <2>1
  <2>6. QED
    BY <2>3, <2>4, <2>5 DEF InLogStep, RowOk
<1>2. QED
  BY <1>1, GraceInit DEF StepInv

(* Once every event has been handled, in order, the row is at the log's end. *)
LEMMA AtTheEnd ==
    ASSUME StepInv, NEW a \in Accounts, InStep(a)
    PROVE  /\ RowAt(row[a], sent[a], Len(sent[a]), bill[a])
           /\ Len(sent[a]) \in Nat /\ (sent[a] # <<>> => Len(sent[a]) > 0)
<1> DEFINE log == sent[a]
<1>1. log \in Seq(Said) /\ ordered[a] = TRUE /\ handled[a] = DOMAIN log
  BY DEF StepInv, GraceInv, TypeOK, InStep
<1>2. Len(log) \in Nat /\ DOMAIN log = 1 .. Len(log) /\ (log # <<>> => Len(log) > 0)
  BY <1>1, EmptySeq
<1>3. PICK k \in 0 .. Len(log) :
        handled[a] = 1 .. k /\ (Claimed(log, k) => RowAt(row[a], log, k, bill[a]))
  BY <1>1 DEF StepInv, InLogStep, RowOk
<1>4. k = Len(log)
  <2>1. \A x, y \in Nat : x <= y /\ 1 .. x = 1 .. y => x = y
    <3> SUFFICES ASSUME NEW x \in Nat, NEW y \in Nat, x < y, 1 .. x = 1 .. y
                 PROVE  FALSE
      OBVIOUS
    <3>1. y \in 1 .. y /\ y \notin 1 .. x
      OBVIOUS
    <3>2. QED
      BY <3>1
  <2>2. QED
    BY <1>1, <1>2, <1>3, <2>1
<1>5. Claimed(log, k)
  BY <1>2, <1>4 DEF Claimed
<1>6. QED
  BY <1>2, <1>3, <1>4, <1>5

(* Paid is served: when every event has arrived, and in order, an account    *)
(* that pays has the plan it pays for, unless its row is in the final state, *)
(* whatever the passes, grants and routes did to the row between events.     *)
THEOREM Served == Spec => []PaidIsServed
<1>1. StepInv => PaidIsServed
  <2> SUFFICES ASSUME StepInv, NEW a \in Accounts, InStep(a), bill[a].status = "active",
                      row[a].status # "canceled"
               PROVE  /\ row[a].status = IF bill[a].cancel THEN "pending_cancellation" ELSE "active"
                      /\ EffectiveTier(row[a]) \in {bill[a].tier, "open_source"}
    BY DEF PaidIsServed
  <2>1. /\ RowAt(row[a], sent[a], Len(sent[a]), bill[a]) /\ LogOk(sent[a], bill[a])
        /\ sent[a] # <<>> => Len(sent[a]) > 0
    BY AtTheEnd DEF StepInv, InLogStep
  <2>2. Serves(row[a], bill[a])
    <3>1. CASE sent[a] = <<>>
      BY <2>1, <3>1 DEF RowAt, LogOk, Serves
    <3>2. CASE sent[a] # <<>>
      <4> DEFINE last == sent[a][Len(sent[a])]
      <4>1. /\ Told(sent[a], Len(sent[a]))
            /\ last.tier = bill[a].tier /\ last.cancel = bill[a].cancel
        BY <2>1, <3>2 DEF LogOk
      <4>2. Serves(row[a], last)
        BY <2>1, <3>2, <4>1 DEF RowAt
      <4> HIDE DEF last
      <4>3. QED
        BY <4>1, <4>2 DEF Serves
    <3>3. QED
      BY <3>1, <3>2
  <2>3. row[a].status \in EntitledStatuses
    BY <2>2 DEF Serves, EntitledStatuses
  <2>4. QED
    BY <2>2, <2>3 DEF Serves, EffectiveTier
<1>2. QED
  BY <1>1, StepInit, StepKept, PTL DEF Spec

(* Gone is free: under the same conditions, an account that Stripe no longer *)
(* bills has no paid plan's limits.                                          *)
THEOREM Freed == Spec => []GoneIsFree
<1>1. StepInv => GoneIsFree
  <2> SUFFICES ASSUME StepInv, NEW a \in Accounts, InStep(a), ~Live(a)
               PROVE  EffectiveTier(row[a]) \notin PaidTiers
    BY DEF GoneIsFree
  <2>1. /\ RowAt(row[a], sent[a], Len(sent[a]), bill[a]) /\ LogOk(sent[a], bill[a])
        /\ sent[a] # <<>> => Len(sent[a]) > 0
    BY AtTheEnd DEF StepInv, InLogStep
  <2>2. "free" \notin PaidTiers /\ "open_source" \notin PaidTiers
    BY BillingAssumption
  <2>3. CASE sent[a] = <<>>
    <3>1. bill[a].status = "none"
      BY <2>1, <2>3 DEF LogOk, Live
    <3>2. row[a].tier \in {"free", "open_source"}
      BY <2>1, <2>3, <3>1 DEF RowAt, LogOk
    <3>3. QED
      BY <2>2, <3>2 DEF EffectiveTier
  <2>4. CASE sent[a] # <<>>
    <3>1. bill[a].status = "canceled"
      BY <2>1, <2>4 DEF LogOk, Live, StepInv, GraceInv, TypeOK, Bill
    <3>2. row[a].status = "canceled"
      BY <2>1, <2>4, <3>1 DEF RowAt, LogOk
    <3>3. QED
      BY <2>2, <3>2 DEF EffectiveTier, EntitledStatuses
  <2>5. QED
    BY <2>3, <2>4
<1>2. QED
  BY <1>1, StepInit, StepKept, PTL DEF Spec
=============================================================================
