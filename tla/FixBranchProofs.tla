-------------------------- MODULE FixBranchProofs --------------------------
(***************************************************************************)
(* Proofs about FixBranch, for any number of deliveries and user actions,  *)
(* and about PullRequestMirror, which keeps the records of such pull       *)
(* requests: here it is the instance Mirror, with variables of its own.    *)
(***************************************************************************)
EXTENDS FixBranch, FiniteSetTheorems, WellFoundedInduction, TLAPS

Stages == {"idle", "loaded", "based", "fresh", "listed", "checked", "pushed", "opened"}

Events == {"opened", "delete", "merge", "close", "reopen", "convert_to_draft",
           "mark_ready_for_review"}

-----------------------------------------------------------------------------
(* Types *)

LEMMA Starting == Idle \in Task /\ NoBranch \in Branch
BY DEF Idle, Task, NoBranch, Branch

LEMMA InitTyped == ASSUME Init PROVE TypeOK
<1>1. base = 1 /\ versions = 1 /\ fix = 0 /\ tips = 0 /\ ops = 0 BY DEF Init
<1>2. {base, fix} \subseteq Int /\ {versions, tips, ops} \subseteq Nat BY <1>1
<1>3. rec \in Record /\ poll \in Record
  BY DEF Init, NoRecord, NoPoll, Record, PrState, S!PrState
<1>4. task \in [Deliveries -> Task] /\ branch \in Branch BY Starting DEF Init
<1>5. gh \in Seq([state : PrState, past : SUBSET PrState]) /\ told = {} BY DEF Init
<1> QED BY <1>2, <1>3, <1>4, <1>5 DEF TypeOK

Pulls == [state : PrState, past : SUBSET PrState]

(* Another task record in slot d. *)
LEMMA TaskSet ==
    ASSUME TypeOK, NEW d \in Deliveries, NEW t \in Task, Goes(d, t)
    PROVE  task' \in [Deliveries -> Task]
BY DEF TypeOK, Goes

LEMMA TaskStaged ==
    ASSUME NEW t \in Task, NEW s \in Stages, NEW n \in Nat, NEW v \in Int
    PROVE  /\ [t EXCEPT !.stage = s] \in Task
           /\ [t EXCEPT !.stage = s, !.sha = v] \in Task
           /\ [t EXCEPT !.stage = s, !.open = n] \in Task
           /\ [t EXCEPT !.stage = s, !.tip = n] \in Task
BY DEF Task, Stages

LEMMA Machine ==
    /\ DOMAIN S!PullRequestMachine = {"redeliver", "external_update", "convert_to_draft",
                                      "mark_ready_for_review", "merge", "close", "reopen"}
    /\ S!PullRequestMachine["merge"] = [s \in {"open", "draft"} |-> "merged"]
    /\ S!PullRequestMachine["close"] = [s \in {"open", "draft"} |-> "closed"]
    /\ S!PullRequestMachine["reopen"] = [s \in {"closed"} |-> "open"]
    /\ S!PullRequestMachine["convert_to_draft"] = [s \in {"open"} |-> "draft"]
    /\ S!PullRequestMachine["mark_ready_for_review"] = [s \in {"draft"} |-> "open"]
BY DEF S!PullRequestMachine

(* Where an event leads. *)
To == [merge |-> "merged", close |-> "closed", reopen |-> "open", convert_to_draft |-> "draft",
       mark_ready_for_review |-> "open"]

Moves == {"merge", "close", "reopen", "convert_to_draft", "mark_ready_for_review"}

LEMMA EventLeads ==
    ASSUME NEW event \in Moves, NEW s
    PROVE  /\ S!TryAdvance(S!PullRequestMachine, event, s) \in {s, To[event]}
           /\ S!Can(S!PullRequestMachine, event, s) =>
                S!Advance(S!PullRequestMachine, event, s) = To[event]
           /\ To[event] \in PrState
<1>1. CASE event = "merge"
  BY <1>1, Machine DEF S!TryAdvance, S!Can, S!Advance, To, PrState, S!PrState
<1>2. CASE event = "close"
  BY <1>2, Machine DEF S!TryAdvance, S!Can, S!Advance, To, PrState, S!PrState
<1>3. CASE event = "reopen"
  BY <1>3, Machine DEF S!TryAdvance, S!Can, S!Advance, To, PrState, S!PrState
<1>4. CASE event = "convert_to_draft"
  BY <1>4, Machine DEF S!TryAdvance, S!Can, S!Advance, To, PrState, S!PrState
<1>5. CASE event = "mark_ready_for_review"
  BY <1>5, Machine DEF S!TryAdvance, S!Can, S!Advance, To, PrState, S!PrState
<1> QED BY <1>1, <1>2, <1>3, <1>4, <1>5 DEF Moves

LEMMA PullTyped ==
    ASSUME TypeOK, NEW n \in DOMAIN gh
    PROVE  gh[n] \in Pulls /\ gh[n].state \in PrState /\ gh \in Seq(Pulls) /\ n \in Nat
<1>1. gh \in Seq(Pulls) BY DEF TypeOK, Pulls
<1>2. gh[n] \in Pulls /\ n \in Nat BY <1>1
<1> QED BY <1>1, <1>2 DEF Pulls

LEMMA PullBecomes ==
    ASSUME TypeOK, NEW n \in DOMAIN gh, NEW s \in PrState, gh' = Become(n, s)
    PROVE  /\ gh' \in Seq(Pulls) /\ Len(gh') = Len(gh) /\ DOMAIN gh' = DOMAIN gh
           /\ gh'[n] = [state |-> s, past |-> gh[n].past \cup {s}]
           /\ \A i \in DOMAIN gh : i # n => gh'[i] = gh[i]
<1>1. gh \in Seq(Pulls) /\ gh[n] \in Pulls BY PullTyped
<1>2. gh' = [gh EXCEPT ![n] = [state |-> s, past |-> gh[n].past \cup {s}]] BY DEF Become
<1>3. [state |-> s, past |-> gh[n].past \cup {s}] \in Pulls BY <1>1 DEF Pulls
<1> QED BY <1>1, <1>2, <1>3

LEMMA PullOpens ==
    ASSUME TypeOK, gh' = Append(gh, NewPr)
    PROVE  /\ gh' \in Seq(Pulls) /\ Len(gh) \in Nat /\ Len(gh') = Len(gh) + 1
           /\ gh'[Len(gh) + 1] = NewPr
           /\ \A i \in DOMAIN gh : gh'[i] = gh[i]
           /\ DOMAIN gh = 1..Len(gh) /\ DOMAIN gh' = 1..(Len(gh) + 1)
<1>1. gh \in Seq(Pulls) BY DEF TypeOK, Pulls
<1>2. NewPr \in Pulls BY DEF NewPr, Pulls, PrState, S!PrState
<1> QED BY <1>1, <1>2

LEMMA PullNumbers == ASSUME TypeOK PROVE DOMAIN gh \in SUBSET Nat /\ OpenPr \in SUBSET DOMAIN gh
BY DEF TypeOK, OpenPr

LEMMA ToldMore ==
    ASSUME TypeOK, NEW event \in Events, NEW n \in Nat, told' = told \cup {<<event, n>>}
    PROVE  told' \in SUBSET (Events \X Nat)
BY DEF TypeOK, Events

LEMMA MovesTyped ==
    ASSUME TypeOK, NEW kind, NEW event \in {"close", "reopen", "convert_to_draft", "mark_ready_for_review"},
           NEW states, UserMovesPr(kind, event, states)
    PROVE  TypeOK'
<1>1. PICK n \in DOMAIN gh :
        /\ S!Can(S!PullRequestMachine, event, gh[n].state)
        /\ gh' = Become(n, S!Advance(S!PullRequestMachine, event, gh[n].state))
        /\ told' = told \cup {<<event, n>>}
  BY DEF UserMovesPr
<1>2. gh' = Become(n, To[event]) /\ To[event] \in PrState BY <1>1, EventLeads DEF Moves
<1>3. gh' \in Seq(Pulls) BY <1>2, PullBecomes
<1>4. told' \in SUBSET (Events \X Nat) BY <1>1, PullNumbers, ToldMore DEF Events
<1>5. ops' \in Nat /\ UNCHANGED <<base, versions, fix, branch, tips, rec, poll, task>>
  BY DEF UserMovesPr, Counted, Elsewhere, TypeOK
<1> QED BY <1>3, <1>4, <1>5 DEF TypeOK, Pulls, Events

LEMMA BranchTyped ==
    ASSUME TypeOK, NEW b \in BOOLEAN PROVE [branch EXCEPT !.tip = tips + 1, !.user = b] \in Branch
<1>1. tips + 1 \in Nat BY DEF TypeOK
<1> QED BY <1>1 DEF TypeOK, Branch

LEMMA UserTyped == ASSUME TypeOK, User PROVE TypeOK'
<1>1. CASE UserPushes \/ UserDeletes \/ Generate
  <2>1. base' \in Int /\ fix' \in Int /\ versions' \in Nat /\ ops' \in Nat
    BY <1>1 DEF UserPushes, UserDeletes, Generate, Counted, Elsewhere, TypeOK
  <2>2. UNCHANGED <<branch, tips, gh, told, rec, poll, task>>
    BY <1>1 DEF UserPushes, UserDeletes, Generate, Elsewhere
  <2> QED BY <2>1, <2>2 DEF TypeOK
<1>2. CASE UserCommits
  <2>1. tips' \in Nat /\ ops' \in Nat BY <1>2 DEF UserCommits, Counted, TypeOK
  <2>2. branch' \in Branch BY <1>2, BranchTyped DEF UserCommits
  <2> QED BY <1>2, <2>1, <2>2 DEF UserCommits, Elsewhere, TypeOK
<1>3. CASE BranchDeleted
  <2>1. branch' \in Branch /\ ops' \in Nat BY <1>3, Starting DEF BranchDeleted, Counted, TypeOK
  <2>2. CASE OpenPr = {}
    <3>1. told' \in SUBSET (Events \X Nat) /\ gh' = gh
      BY <1>3, <2>2, ToldMore DEF BranchDeleted, Events
    <3> QED BY <1>3, <2>1, <3>1 DEF BranchDeleted, Elsewhere, TypeOK, Events
  <2>3. CASE OpenPr # {}
    <3>1. PICK n \in OpenPr : gh' = Become(n, "closed") /\ told' = told \cup {<<"delete", 0>>, <<"close", n>>}
      BY <1>3, <2>3 DEF BranchDeleted
    <3>2. n \in DOMAIN gh /\ n \in Nat /\ "closed" \in PrState
      BY <3>1, PullNumbers DEF PrState, S!PrState
    <3>3. gh' \in Seq(Pulls) BY <3>1, <3>2, PullBecomes
    <3>4. told' \in SUBSET (Events \X Nat) BY <3>1, <3>2 DEF TypeOK, Events
    <3> QED BY <1>3, <2>1, <3>3, <3>4 DEF BranchDeleted, Elsewhere, TypeOK, Events, Pulls
  <2> QED BY <2>2, <2>3
<1>4. CASE UserMerges
  <2>1. PICK n \in OpenPr : gh' = Become(n, "merged") /\ told' = told \cup {<<"merge", n>>}
    BY <1>4 DEF UserMerges
  <2>2. n \in DOMAIN gh /\ n \in Nat /\ "merged" \in PrState
    BY <2>1, PullNumbers DEF PrState, S!PrState
  <2>3. gh' \in Seq(Pulls) BY <2>1, <2>2, PullBecomes
  <2>4. told' \in SUBSET (Events \X Nat) BY <2>1, <2>2, ToldMore DEF Events
  <2>5. base' \in Int /\ ops' \in Nat BY <1>4 DEF UserMerges, Rewrite, Counted, TypeOK, Branch
  <2> QED BY <1>4, <2>3, <2>4, <2>5 DEF UserMerges, Elsewhere, TypeOK, Events, Pulls
<1>5. CASE UserCloses \/ UserReopens \/ UserDrafts
  BY <1>5, MovesTyped DEF UserCloses, UserReopens, UserDrafts
<1>6. CASE UserOpens
  <2>1. gh' = Append(gh, NewPr) /\ told' = told \cup {<<"opened", Len(gh) + 1>>} /\ ops' \in Nat
    BY <1>6 DEF UserOpens, Counted, TypeOK
  <2>2. gh' \in Seq(Pulls) /\ Len(gh) + 1 \in Nat BY <2>1, PullOpens
  <2>3. told' \in SUBSET (Events \X Nat) BY <2>1, <2>2, ToldMore DEF Events
  <2> QED BY <1>6, <2>1, <2>2, <2>3 DEF UserOpens, Elsewhere, TypeOK, Events, Pulls
<1>7. CASE Deliver
  <2>1. PICK d \in Deliveries, force \in BOOLEAN :
          Goes(d, [Idle EXCEPT !.stage = "loaded", !.force = force, !.from = fix,
                               !.expected = IF Fetched THEN base ELSE fix])
    BY <1>7 DEF Deliver
  <2> DEFINE e == IF Fetched THEN base ELSE fix
  <2>2. fix \in Int /\ e \in Int BY DEF TypeOK
  <2> HIDE DEF e
  <2>3. [Idle EXCEPT !.stage = "loaded", !.force = force, !.from = fix, !.expected = e] \in Task
    BY <2>2, Starting DEF Task
  <2>4. task' \in [Deliveries -> Task] BY <2>1, <2>3, TaskSet DEF e
  <2>5. ops' \in Nat BY <1>7 DEF Deliver, Counted, TypeOK
  <2> QED BY <1>7, <2>4, <2>5 DEF Deliver, DeliveryOnly, TypeOK
<1> QED BY <1>1, <1>2, <1>3, <1>4, <1>5, <1>6, <1>7 DEF User

LEMMA RecordTyped ==
    ASSUME TypeOK, NEW event \in Moves PROVE Moved(event) \in Record
<1>1. rec \in Record BY DEF TypeOK
<1>2. S!TryAdvance(S!PullRequestMachine, event, rec.state) \in PrState
  BY <1>1, EventLeads DEF Record
<1> QED BY <1>1, <1>2 DEF Moved, Event, Record

LEMMA EventsTyped ==
    ASSUME TypeOK, rec.num # 0 => rec.num \in DOMAIN gh,
           PullRequestEvent \/ DeleteEvent \/ PollSnapshot \/ PollApply
    PROVE  TypeOK'
<1>1. CASE PullRequestEvent
  <2>1. PICK m \in told :
          \/ /\ m[1] = "opened"
             /\ rec' = IF rec.num = 0 THEN [num |-> m[2], state |-> "open"] ELSE Moved("reopen")
          \/ m[1] \notin {"opened", "delete"} /\ rec.num = m[2] /\ rec' = Moved(m[1])
    BY <1>1 DEF PullRequestEvent
  <2>2. m \in Events \X Nat BY DEF TypeOK, Events
  <2>3. m[1] \in Events /\ m[2] \in Nat BY <2>2
  <2>4. rec' \in Record
    <3>1. CASE rec' = [num |-> m[2], state |-> "open"]
      BY <2>3, <3>1 DEF Record, PrState, S!PrState
    <3>2. CASE rec' = Moved("reopen") BY <3>2, RecordTyped DEF Moves
    <3>3. CASE m[1] \notin {"opened", "delete"} /\ rec' = Moved(m[1])
      <4>1. m[1] \in Moves BY <2>3, <3>3 DEF Moves, Events
      <4> QED BY <3>3, <4>1, RecordTyped
    <3> QED BY <2>1, <3>1, <3>2, <3>3
  <2> QED BY <1>1, <2>4 DEF PullRequestEvent, EventOnly, TypeOK
<1>2. CASE DeleteEvent
  <2>1. rec' \in Record BY <1>2, RecordTyped DEF DeleteEvent, Moves
  <2> QED BY <1>2, <2>1 DEF DeleteEvent, EventOnly, TypeOK
<1>3. CASE PollSnapshot
  <2>1. rec.num \in Nat /\ gh[rec.num].state \in PrState
    BY <1>3, PullTyped DEF PollSnapshot
  <2>2. poll' \in Record BY <1>3, <2>1 DEF PollSnapshot, Record
  <2> QED BY <1>3, <2>2 DEF PollSnapshot, TypeOK
<1>4. CASE PollApply
  <2>1. poll' \in Record BY <1>4 DEF PollApply, NoPoll, Record, PrState, S!PrState
  <2>2. LifecycleEvent \in SUBSET Moves BY DEF LifecycleEvent, Moves
  <2>3. rec' \in Record BY <1>4, <2>2, RecordTyped DEF PollApply, TypeOK
  <2> QED BY <1>4, <2>1, <2>3 DEF PollApply, TypeOK
<1> QED BY <1>1, <1>2, <1>3, <1>4

LEMMA StepTyped ==
    ASSUME TypeOK, NEW d \in Deliveries, Step(d) \/ Crash(d) PROVE TypeOK'
<1>1. task[d] \in Task /\ branch \in Branch /\ branch.tip \in Nat /\ base \in Int
  BY DEF TypeOK, Branch
<1>2. CASE RecordPull(d)
  <2>1. task[d].open \in Nat BY <1>1 DEF Task
  <2>2. rec.state \in PrState BY DEF TypeOK, Record
  <2>3. S!TryAdvance(S!PullRequestMachine, "reopen", rec.state) \in PrState
    BY <2>2, EventLeads DEF Moves
  <2>4. rec' \in Record BY <1>2, <2>1, <2>3 DEF RecordPull, Record, PrState, S!PrState
  <2>5. task' \in [Deliveries -> Task] BY <1>2, Starting, TaskSet DEF RecordPull, Ends
  <2> QED BY <1>2, <2>4, <2>5 DEF RecordPull, DeliveryOnly, TypeOK
<1>3. CASE Rebase(d)
  <2>1. tips' \in Nat BY <1>3 DEF Rebase, TypeOK
  <2>2. branch' \in Branch BY <1>1, <1>3, <2>1 DEF Rebase, Branch, Task
  <2>3. task' \in [Deliveries -> Task] BY <1>1, <1>3, TaskStaged, TaskSet DEF Rebase, Stages
  <2> QED BY <1>3, <2>1, <2>2, <2>3 DEF Rebase, DeliveryOnly, TypeOK
<1>4. CASE CreatePull(d)
  <2>1. gh' = Append(gh, NewPr) /\ told' = told \cup {<<"opened", Len(gh) + 1>>} BY <1>4 DEF CreatePull
  <2>2. gh' \in Seq(Pulls) /\ Len(gh) + 1 \in Nat BY <2>1, PullOpens
  <2>3. told' \in SUBSET (Events \X Nat) BY <2>1, <2>2, ToldMore DEF Events
  <2>4. task' \in [Deliveries -> Task]
    BY <1>1, <1>4, <2>2, TaskStaged, TaskSet DEF CreatePull, Stages
  <2> QED BY <1>4, <2>1, <2>2, <2>3, <2>4 DEF CreatePull, DeliveryOnly, TypeOK, Events, Pulls
<1>5. CASE ListPulls(d)
  <2>1. \A n \in OpenPr : n \in Nat BY PullNumbers
  <2>2. task' \in [Deliveries -> Task]
    BY <1>1, <1>5, <2>1, TaskStaged, TaskSet DEF ListPulls, Stages
  <2> QED BY <1>5, <2>2 DEF ListPulls, DeliveryOnly, TypeOK
<1>6. CASE ReadBase(d) \/ CheckFresh(d) \/ RefuseToOverwrite(d) \/ KeepPull(d) \/ UpdatePull(d)
  <2>1. PICK t \in Task : Goes(d, t)
    BY <1>1, <1>6, Starting, TaskStaged
    DEF ReadBase, CheckFresh, RefuseToOverwrite, KeepPull, UpdatePull, Stages
  <2>2. task' \in [Deliveries -> Task] BY <2>1, TaskSet
  <2> QED
    BY <1>6, <2>2
    DEF ReadBase, CheckFresh, RefuseToOverwrite, KeepPull, UpdatePull, DeliveryOnly, TypeOK
<1>7. CASE Errs(d) \/ Crash(d)
  <2>1. task' \in [Deliveries -> Task] BY <1>7, Starting, TaskSet DEF Errs, Crash, Ends
  <2>2. ops' \in Nat BY <1>7 DEF Errs, Crash, Counted, TypeOK
  <2> QED BY <1>7, <2>1, <2>2 DEF Errs, Crash, DeliveryOnly, TypeOK
<1> QED BY <1>2, <1>3, <1>4, <1>5, <1>6, <1>7 DEF Step

-----------------------------------------------------------------------------
(* The record and the pull requests it was made from *)

Was(n, s) == n \in DOMAIN gh /\ s \in gh[n].past

RealPull(n) == Was(n, gh[n].state) /\ Was(n, "open")

(* A webhook tells of something that happened. *)
RealWord(m) ==
    /\ m[1] = "opened" => m[2] \in DOMAIN gh
    /\ m[1] \in Moves => Was(m[2], To[m[1]])

RealPoll == poll # NoPoll => Was(poll.num, poll.state)

RealTask(d) ==
    /\ task[d].open # 0 => task[d].open \in DOMAIN gh
    /\ At(d, "opened") => task[d].open # 0

Real ==
    /\ \A n \in DOMAIN gh : RealPull(n)
    /\ \A m \in told : RealWord(m)
    /\ RealPoll
    /\ \A d \in Deliveries : RealTask(d)
    /\ RecordIsReal

(* Nothing that was so is undone. *)
Grown == told \in SUBSET told' /\ \A n \in DOMAIN gh : n \in DOMAIN gh' /\ gh[n].past \in SUBSET gh'[n].past

LEMMA WasStays ==
    ASSUME Grown, NEW n, NEW s, Was(n, s) PROVE Was(n, s)'
BY DEF Grown, Was

LEMMA WordStays ==
    ASSUME Grown, NEW m, RealWord(m) PROVE RealWord(m)'
BY DEF Grown, RealWord, Was

LEMMA PollStays == ASSUME Grown, RealPoll, poll' = poll PROVE RealPoll'
BY WasStays DEF RealPoll

LEMMA TaskStays ==
    ASSUME Grown, NEW d \in Deliveries, RealTask(d), task'[d] = task[d] PROVE RealTask(d)'
BY DEF Grown, RealTask, At

LEMMA RecordStays == ASSUME Grown, RecordIsReal, rec' = rec PROVE RecordIsReal'
<1>1. ASSUME NEW n \in DOMAIN gh, rec.state \in gh[n].past PROVE n \in DOMAIN gh' /\ rec.state \in gh'[n].past
  BY <1>1 DEF Grown
<1> QED BY <1>1 DEF Grown, RecordIsReal

LEMMA NothingHappened == ASSUME told' = told, gh' = gh PROVE Grown
BY DEF Grown

(* A step of a user or of GitHub. *)
LEMMA Happened ==
    ASSUME TypeOK, Real, Grown, rec' = rec, poll' = poll,
           \A d \in Deliveries : task'[d] = task[d],
           \A n \in DOMAIN gh' : (n \in DOMAIN gh /\ gh'[n] = gh[n]) \/ RealPull(n)',
           \A m \in told' : m \in told \/ RealWord(m)'
    PROVE  Real'
<1>1. \A n \in DOMAIN gh' : RealPull(n)' BY DEF Real, RealPull, Was
<1>2. \A m \in told' : RealWord(m)' BY WordStays DEF Real
<1>3. \A d \in Deliveries : RealTask(d)' BY TaskStays DEF Real
<1> QED BY <1>1, <1>2, <1>3, PollStays, RecordStays DEF Real

LEMMA BecomesReal ==
    ASSUME TypeOK, Real, NEW n \in DOMAIN gh, NEW s \in PrState, gh' = Become(n, s),
           told \in SUBSET told'
    PROVE  Grown /\ Was(n, s)' /\ (\A i \in DOMAIN gh' : (i \in DOMAIN gh /\ gh'[i] = gh[i]) \/ RealPull(i)')
<1>0. gh'[n] = [state |-> s, past |-> gh[n].past \cup {s}] BY PullBecomes
<1>1. gh'[n].past = gh[n].past \cup {s} /\ gh'[n].state = s BY <1>0
<1>2. Grown
  <2> SUFFICES ASSUME NEW i \in DOMAIN gh PROVE i \in DOMAIN gh' /\ gh[i].past \in SUBSET gh'[i].past
    BY DEF Grown
  <2> QED BY <1>1, PullBecomes
<1>3. Was(n, s)' BY <1>1, PullBecomes DEF Was
<1>4. RealPull(n)'
  <2>1. Was(n, "open") BY DEF Real, RealPull
  <2> QED BY <1>1, <1>2, <1>3, <2>1, WasStays DEF RealPull
<1> QED BY <1>2, <1>3, <1>4, PullBecomes

LEMMA OpensReal ==
    ASSUME TypeOK, Real, NEW n, n = Len(gh) + 1, gh' = Append(gh, NewPr), told \in SUBSET told'
    PROVE  /\ Grown /\ n \in DOMAIN gh' /\ n # 0
           /\ \A i \in DOMAIN gh' : (i \in DOMAIN gh /\ gh'[i] = gh[i]) \/ RealPull(i)'
<1>1. gh'[n] = NewPr /\ n \in DOMAIN gh' /\ n # 0 BY PullOpens
<1>2. gh'[n].state = "open" /\ gh'[n].past = {"open"} BY <1>1 DEF NewPr
<1>3. RealPull(n)' BY <1>1, <1>2 DEF RealPull, Was
<1>4. \A i \in DOMAIN gh' : i \in DOMAIN gh \/ i = n BY PullOpens
<1>5. \A i \in DOMAIN gh : i \in DOMAIN gh' /\ gh'[i] = gh[i] BY PullOpens
<1>6. Grown BY <1>5 DEF Grown
<1>7. \A i \in DOMAIN gh' : (i \in DOMAIN gh /\ gh'[i] = gh[i]) \/ RealPull(i)'
  BY <1>3, <1>4, <1>5
<1> QED BY <1>1, <1>6, <1>7

LEMMA MovesReal ==
    ASSUME TypeOK, Real, NEW kind,
           NEW event \in {"close", "reopen", "convert_to_draft", "mark_ready_for_review"},
           NEW states, UserMovesPr(kind, event, states)
    PROVE  Real'
<1>1. PICK n \in DOMAIN gh :
        /\ S!Can(S!PullRequestMachine, event, gh[n].state)
        /\ gh' = Become(n, S!Advance(S!PullRequestMachine, event, gh[n].state))
        /\ told' = told \cup {<<event, n>>}
  BY DEF UserMovesPr
<1>2. gh' = Become(n, To[event]) /\ To[event] \in PrState /\ event \in Moves
  BY <1>1, EventLeads DEF Moves
<1>3. Was(n, To[event])' BY <1>1, <1>2, BecomesReal
<1>4. RealWord(<<event, n>>)' BY <1>2, <1>3 DEF RealWord, Moves
<1>5. \A m \in told' : m \in told \/ RealWord(m)' BY <1>1, <1>4
<1>6. Grown /\ \A i \in DOMAIN gh' : (i \in DOMAIN gh /\ gh'[i] = gh[i]) \/ RealPull(i)'
  BY <1>1, <1>2, BecomesReal
<1>7. UNCHANGED <<rec, poll, task>> BY DEF UserMovesPr, Elsewhere
<1> QED BY <1>5, <1>6, <1>7, Happened

LEMMA ClosesReal ==
    ASSUME TypeOK, Real, NEW n \in OpenPr, NEW s \in {"merged", "closed"}, gh' = Become(n, s),
           NEW event \in Moves, To[event] = s,
           told' = told \cup {<<event, n>>} \/ told' = told \cup {<<"delete", 0>>, <<event, n>>},
           UNCHANGED <<rec, poll, task>>
    PROVE  Real'
<1>1. n \in DOMAIN gh /\ s \in PrState BY PullNumbers DEF PrState, S!PrState
<1>2. Was(n, s)' BY <1>1, BecomesReal
<1>3. RealWord(<<event, n>>)' BY <1>2 DEF RealWord, Moves
<1>4. RealWord(<<"delete", 0>>)' BY DEF RealWord, Moves
<1>5. \A m \in told' : m \in told \/ RealWord(m)' BY <1>3, <1>4
<1>6. Grown /\ \A i \in DOMAIN gh' : (i \in DOMAIN gh /\ gh'[i] = gh[i]) \/ RealPull(i)'
  BY <1>1, BecomesReal
<1> QED BY <1>5, <1>6, Happened

LEMMA UserReal == ASSUME TypeOK, Real, User PROVE Real'
<1>1. CASE UserPushes \/ UserDeletes \/ Generate \/ UserCommits
  <2>1. UNCHANGED <<rec, poll, task, gh, told>>
    BY <1>1 DEF UserPushes, UserDeletes, Generate, UserCommits, Elsewhere
  <2> QED BY <2>1, NothingHappened, Happened
<1>2. CASE BranchDeleted
  <2>1. CASE OpenPr = {}
    <3>1. UNCHANGED <<rec, poll, task, gh>> /\ told' = told \cup {<<"delete", 0>>}
      BY <1>2, <2>1 DEF BranchDeleted, Elsewhere
    <3>2. RealWord(<<"delete", 0>>)' BY DEF RealWord, Moves
    <3>3. Grown BY <3>1 DEF Grown
    <3> QED BY <3>1, <3>2, <3>3, Happened
  <2>2. CASE OpenPr # {}
    <3>1. PICK n \in OpenPr : gh' = Become(n, "closed") /\ told' = told \cup {<<"delete", 0>>, <<"close", n>>}
      BY <1>2, <2>2 DEF BranchDeleted
    <3>2. To["close"] = "closed" /\ "close" \in Moves BY DEF To, Moves
    <3> QED BY <1>2, <3>1, <3>2, ClosesReal DEF BranchDeleted, Elsewhere
  <2> QED BY <2>1, <2>2
<1>3. CASE UserMerges
  <2>1. PICK n \in OpenPr : gh' = Become(n, "merged") /\ told' = told \cup {<<"merge", n>>}
    BY <1>3 DEF UserMerges
  <2>2. To["merge"] = "merged" /\ "merge" \in Moves BY DEF To, Moves
  <2> QED BY <1>3, <2>1, <2>2, ClosesReal DEF UserMerges, Elsewhere
<1>4. CASE UserCloses \/ UserReopens \/ UserDrafts
  BY <1>4, MovesReal DEF UserCloses, UserReopens, UserDrafts
<1>5. CASE UserOpens
  <2>1. PICK n : n = Len(gh) + 1 OBVIOUS
  <2>2. gh' = Append(gh, NewPr) /\ told' = told \cup {<<"opened", n>>} /\ UNCHANGED <<rec, poll, task>>
    BY <1>5, <2>1 DEF UserOpens, Elsewhere
  <2>3. n \in DOMAIN gh' BY <2>1, <2>2, OpensReal
  <2>4. RealWord(<<"opened", n>>)' BY <2>3 DEF RealWord, Moves
  <2>5. \A m \in told' : m \in told \/ RealWord(m)' BY <2>2, <2>4
  <2> QED BY <2>1, <2>2, <2>5, OpensReal, Happened
<1>6. CASE Deliver
  <2>1. UNCHANGED <<gh, told, rec, poll>> BY <1>6 DEF Deliver, DeliveryOnly
  <2>2. PICK d \in Deliveries, force \in BOOLEAN :
          Goes(d, [Idle EXCEPT !.stage = "loaded", !.force = force, !.from = fix,
                               !.expected = IF Fetched THEN base ELSE fix])
    BY <1>6 DEF Deliver
  <2> DEFINE b == [Idle EXCEPT !.stage = "loaded", !.force = force, !.from = fix,
                               !.expected = IF Fetched THEN base ELSE fix]
  <2>7. b.open = 0 /\ b.stage = "loaded" BY DEF Idle
  <2>8. task' = [task EXCEPT ![d] = b] BY <2>2 DEF Goes
  <2> HIDE DEF b
  <2>3. ASSUME NEW e \in Deliveries PROVE RealTask(e)'
    <3>1. CASE e = d BY <2>7, <2>8, <3>1 DEF TypeOK, RealTask, At
    <3>2. CASE e # d
      <4>1. task'[e] = task[e] BY <2>8, <3>2 DEF TypeOK
      <4> QED BY <2>1, <4>1, NothingHappened, TaskStays DEF Real
    <3> QED BY <3>1, <3>2
  <2>4. Grown BY <2>1, NothingHappened
  <2>5. \A n \in DOMAIN gh' : RealPull(n)' BY <2>1 DEF Real, RealPull, Was
  <2>6. \A m \in told' : RealWord(m)' BY <2>1, <2>4, WordStays DEF Real
  <2> QED BY <2>1, <2>3, <2>4, <2>5, <2>6, PollStays, RecordStays DEF Real
<1> QED BY <1>1, <1>2, <1>3, <1>4, <1>5, <1>6 DEF User

LEMMA MovedReal ==
    ASSUME TypeOK, RecordIsReal, UNCHANGED <<gh, told>>, NEW event \in Moves, rec' = Moved(event),
           \/ \E n \in DOMAIN gh : Was(n, To[event])
           \/ To[event] = "closed" /\ <<"delete", 0>> \in told
    PROVE  RecordIsReal'
<1>1. rec \in Record BY DEF TypeOK
<1>2. rec'.num = rec.num /\ rec'.state \in {rec.state, To[event]}
  <2>1. S!TryAdvance(S!PullRequestMachine, event, rec.state) \in {rec.state, To[event]}
    BY EventLeads
  <2> QED BY <1>1, <2>1 DEF Moved, Event, Record
<1>3. CASE rec'.state = rec.state BY <1>2, <1>3 DEF RecordIsReal
<1>4. CASE rec'.state = To[event] BY <1>2, <1>4 DEF RecordIsReal, Was
<1> QED BY <1>2, <1>3, <1>4

(* An event changes nothing but the record and what the poller holds. *)
LEMMA Told ==
    ASSUME Real, UNCHANGED <<gh, told, task>>, RealPoll', RecordIsReal' PROVE Real'
<1>1. \A n \in DOMAIN gh' : RealPull(n)' BY DEF Real, RealPull, Was
<1>2. \A m \in told' : RealWord(m)' BY DEF Real, RealWord, Was
<1>3. \A d \in Deliveries : RealTask(d)' BY DEF Real, RealTask, At
<1> QED BY <1>1, <1>2, <1>3 DEF Real

LEMMA EventsReal ==
    ASSUME TypeOK, Real, PullRequestEvent \/ DeleteEvent \/ PollSnapshot \/ PollApply
    PROVE  Real'
<1>1. CASE PullRequestEvent
  <2>1. UNCHANGED <<gh, told, poll, task>> BY <1>1 DEF PullRequestEvent, EventOnly
  <2>2. PICK m \in told :
           \/ /\ m[1] = "opened"
              /\ rec' = IF rec.num = 0 THEN [num |-> m[2], state |-> "open"] ELSE Moved("reopen")
           \/ m[1] \notin {"opened", "delete"} /\ rec.num = m[2] /\ rec' = Moved(m[1])
    BY <1>1 DEF PullRequestEvent
  <2>3. RealWord(m) /\ m[1] \in Events /\ RecordIsReal BY DEF Real, TypeOK, Events
  <2>4. RecordIsReal'
    <3>1. CASE m[1] = "opened" /\ rec.num = 0
      <4>1. rec' = [num |-> m[2], state |-> "open"] BY <2>2, <3>1
      <4>2. Was(m[2], "open") BY <2>3, <3>1 DEF RealWord, Real, RealPull
      <4> QED BY <2>1, <4>1, <4>2 DEF RecordIsReal, Was
    <3>2. CASE m[1] = "opened" /\ rec.num # 0
      <4>1. rec' = Moved("reopen") /\ "reopen" \in Moves /\ To["reopen"] = "open"
        BY <2>2, <3>2 DEF Moves, To
      <4>2. Was(m[2], "open") /\ m[2] \in DOMAIN gh BY <2>3, <3>2 DEF RealWord, Real, RealPull
      <4>3. \E n \in DOMAIN gh : Was(n, To["reopen"]) BY <4>1, <4>2
      <4> QED BY <2>1, <2>3, <4>1, <4>3, MovedReal
    <3>3. CASE m[1] # "opened"
      <4>1. m[1] \in Moves /\ rec' = Moved(m[1]) BY <2>2, <2>3, <3>3 DEF Moves, Events
      <4>2. Was(m[2], To[m[1]]) /\ m[2] \in DOMAIN gh BY <2>3, <4>1 DEF RealWord, Was
      <4>3. \E n \in DOMAIN gh : Was(n, To[m[1]]) BY <4>2
      <4> QED BY <2>1, <2>3, <4>1, <4>3, MovedReal
    <3> QED BY <3>1, <3>2, <3>3
  <2> QED BY <2>1, <2>4, Told DEF Real, RealPoll, Was
<1>2. CASE DeleteEvent
  <2>1. UNCHANGED <<gh, told, poll, task>> /\ <<"delete", 0>> \in told /\ rec' = Moved("close")
    BY <1>2 DEF DeleteEvent, EventOnly
  <2>2. "close" \in Moves /\ To["close"] = "closed" BY DEF Moves, To
  <2>3. RecordIsReal' BY <2>1, <2>2, MovedReal DEF Real
  <2> QED BY <2>1, <2>3, Told DEF Real, RealPoll, Was
<1>3. CASE PollSnapshot
  <2>1. UNCHANGED <<gh, told, rec, task>> /\ rec.num # 0
        /\ poll' = [num |-> rec.num, state |-> gh[rec.num].state]
    BY <1>3 DEF PollSnapshot
  <2>2. RecordIsReal' BY <2>1 DEF Real, RecordIsReal
  <2>3. Was(rec.num, gh[rec.num].state) BY <2>1 DEF Real, RecordIsReal, RealPull
  <2>4. RealPoll' BY <2>1, <2>3 DEF RealPoll, Was
  <2> QED BY <2>1, <2>2, <2>4, Told
<1>4. CASE PollApply
  <2>1. UNCHANGED <<gh, told, task>> /\ poll # NoPoll /\ poll' = NoPoll BY <1>4 DEF PollApply
  <2>2. RealPoll' BY <2>1 DEF RealPoll, NoPoll
  <2>3. Was(poll.num, poll.state) /\ poll.num \in DOMAIN gh BY <2>1 DEF Real, RealPoll, Was
  <2>4. RecordIsReal'
    <3>1. CASE LifecycleEvent = {} BY <1>4, <2>1, <3>1 DEF PollApply, Real, RecordIsReal
    <3>2. CASE LifecycleEvent # {}
      <4>1. PICK event \in LifecycleEvent : rec' = Moved(event) BY <1>4, <3>2 DEF PollApply
      <4>2. event \in Moves /\ To[event] \in {poll.state, "open"}
        BY <4>1 DEF LifecycleEvent, Moves, To, Live
      <4>3. Was(poll.num, "open") BY <2>3 DEF Real, RealPull
      <4>4. \E n \in DOMAIN gh : Was(n, To[event]) BY <2>3, <4>2, <4>3
      <4>5. RecordIsReal BY DEF Real
      <4> QED BY <2>1, <4>1, <4>2, <4>4, <4>5, MovedReal
    <3> QED BY <3>1, <3>2
  <2> QED BY <2>1, <2>2, <2>4, Told
<1> QED BY <1>1, <1>2, <1>3, <1>4

(* A delivery writes its own slot only. *)
Others(d) == \A e \in Deliveries : e # d => task'[e] = task[e]

LEMMA SlotTakes ==
    ASSUME TypeOK, NEW d \in Deliveries, NEW t, Goes(d, t) PROVE task'[d] = t /\ Others(d)
BY DEF TypeOK, Goes, Others

(* The slot names a pull request that exists. *)
Names(d) ==
    /\ task'[d].open # 0 => task'[d].open \in DOMAIN gh'
    /\ task'[d].stage = "opened" => task'[d].open # 0

(* Slot d takes a step, and nothing at GitHub becomes less. *)
LEMMA SlotReal ==
    ASSUME TypeOK, Real, Grown, NEW d \in Deliveries, Others(d), Names(d), poll' = poll,
           \A n \in DOMAIN gh' : (n \in DOMAIN gh /\ gh'[n] = gh[n]) \/ RealPull(n)',
           \A m \in told' : m \in told \/ RealWord(m)',
           RecordIsReal'
    PROVE  Real'
<1>1. \A n \in DOMAIN gh' : RealPull(n)' BY DEF Real, RealPull, Was
<1>2. \A m \in told' : RealWord(m)' BY WordStays DEF Real
<1>3. RealTask(d)' BY DEF RealTask, At, Names
<1>4. \A e \in Deliveries : RealTask(e)' BY <1>3, TaskStays DEF Real, Others
<1> QED BY <1>1, <1>2, <1>4, PollStays DEF Real

(* The same when the delivery changes nothing but its own progress. *)
LEMMA QuietReal ==
    ASSUME TypeOK, Real, NEW d \in Deliveries, Others(d), Names(d),
           UNCHANGED <<gh, told, rec, poll>>
    PROVE  Real'
<1>1. Grown BY NothingHappened
<1>2. RecordIsReal' BY <1>1, RecordStays DEF Real
<1> QED BY <1>1, <1>2, SlotReal

LEMMA StepReal ==
    ASSUME TypeOK, Real, NEW d \in Deliveries, Step(d) \/ Crash(d) PROVE Real'
<1>1. task[d] \in Task /\ RealTask(d) BY DEF TypeOK, Real
<1>2. task[d].open # 0 => task[d].open \in DOMAIN gh BY <1>1 DEF RealTask
<1>3. Idle.open = 0 /\ Idle.stage = "idle" BY DEF Idle
<1>4. CASE Errs(d) \/ Crash(d)
  <2>1. Goes(d, Idle) /\ UNCHANGED <<gh, told, rec, poll>>
    BY <1>4 DEF Errs, Crash, Ends, DeliveryOnly
  <2>2. Others(d) /\ Names(d) BY <1>3, <2>1, SlotTakes DEF Names
  <2> QED BY <2>1, <2>2, QuietReal
<1>5. CASE CheckFresh(d)
  <2>1. UNCHANGED <<gh, told, rec, poll>> BY <1>5 DEF CheckFresh, DeliveryOnly
  <2>2. Others(d) /\ task'[d] = IF Stale(d) THEN Idle ELSE [task[d] EXCEPT !.stage = "fresh"]
    BY <1>5, SlotTakes DEF CheckFresh
  <2>3. Names(d) BY <1>1, <1>2, <1>3, <2>1, <2>2 DEF Names, Task
  <2> QED BY <2>1, <2>2, <2>3, QuietReal
<1>6. CASE ReadBase(d)
  <2>1. UNCHANGED <<gh, told, rec, poll>> BY <1>6 DEF ReadBase, DeliveryOnly
  <2>2. Others(d) /\ task'[d] = [task[d] EXCEPT !.stage = "based", !.sha = base]
    BY <1>6, SlotTakes DEF ReadBase
  <2>3. Names(d) BY <1>1, <1>2, <2>1, <2>2 DEF Names, Task
  <2> QED BY <2>1, <2>2, <2>3, QuietReal
<1>7. CASE ListPulls(d)
  <2>1. UNCHANGED <<gh, told, rec, poll>> BY <1>7 DEF ListPulls, DeliveryOnly
  <2>2. Others(d)
        /\ \/ \E n \in OpenPr : task'[d] = [task[d] EXCEPT !.stage = "listed", !.open = n]
           \/ task'[d] = [task[d] EXCEPT !.stage = "listed"]
    BY <1>7, SlotTakes DEF ListPulls
  <2>3. Names(d) BY <1>1, <1>2, <2>1, <2>2, PullNumbers DEF Names, Task
  <2> QED BY <2>1, <2>2, <2>3, QuietReal
<1>8. CASE RefuseToOverwrite(d)
  <2>1. UNCHANGED <<gh, told, rec, poll>> BY <1>8 DEF RefuseToOverwrite, DeliveryOnly
  <2>2. Others(d) /\ task'[d] = IF UserCommitsFound(d) THEN Idle
                                ELSE [task[d] EXCEPT !.stage = "checked", !.tip = branch.tip]
    BY <1>8, SlotTakes DEF RefuseToOverwrite
  <2>3. Names(d) BY <1>1, <1>2, <1>3, <2>1, <2>2 DEF Names, Task
  <2> QED BY <2>1, <2>2, <2>3, QuietReal
<1>9. CASE Rebase(d)
  <2>1. UNCHANGED <<gh, told, rec, poll>> BY <1>9 DEF Rebase, DeliveryOnly
  <2>2. Others(d) /\ task'[d] = [task[d] EXCEPT !.stage = "pushed"]
    BY <1>9, SlotTakes DEF Rebase
  <2>3. Names(d) BY <1>1, <1>2, <2>1, <2>2 DEF Names, Task
  <2> QED BY <2>1, <2>2, <2>3, QuietReal
<1>10. CASE KeepPull(d)
  <2>1. UNCHANGED <<gh, told, rec, poll>> BY <1>10 DEF KeepPull, DeliveryOnly
  <2>2. Others(d) /\ task'[d] = IF task[d].open = 0 THEN Idle
                                ELSE [task[d] EXCEPT !.stage = "opened"]
    BY <1>10, SlotTakes DEF KeepPull
  <2>3. Names(d) BY <1>1, <1>2, <1>3, <2>1, <2>2 DEF Names, Task
  <2> QED BY <2>1, <2>2, <2>3, QuietReal
<1>11. CASE UpdatePull(d)
  <2>1. UNCHANGED <<gh, told, rec, poll>> /\ task[d].open # 0
    BY <1>11 DEF UpdatePull, DeliveryOnly
  <2>2. Others(d) /\ task'[d] = [task[d] EXCEPT !.stage = "opened"]
    BY <1>11, SlotTakes DEF UpdatePull
  <2>3. Names(d) BY <1>1, <1>2, <2>1, <2>2 DEF Names, Task
  <2> QED BY <2>1, <2>2, <2>3, QuietReal
<1>12. CASE CreatePull(d)
  <2>1. PICK n : n = Len(gh) + 1 OBVIOUS
  <2>2. gh' = Append(gh, NewPr) /\ told' = told \cup {<<"opened", n>>} /\ UNCHANGED <<rec, poll>>
        /\ Goes(d, [task[d] EXCEPT !.stage = "opened", !.open = n])
    BY <1>12, <2>1 DEF CreatePull, DeliveryOnly
  <2>3. n \in DOMAIN gh' /\ n # 0 /\ Grown
        /\ \A i \in DOMAIN gh' : (i \in DOMAIN gh /\ gh'[i] = gh[i]) \/ RealPull(i)'
    BY <2>1, <2>2, OpensReal
  <2>4. RealWord(<<"opened", n>>)' BY <2>3 DEF RealWord, Moves
  <2>5. \A m \in told' : m \in told \/ RealWord(m)' BY <2>2, <2>4
  <2>6. RecordIsReal' BY <2>2, <2>3, RecordStays DEF Real
  <2>7. Others(d) /\ task'[d] = [task[d] EXCEPT !.stage = "opened", !.open = n]
    BY <2>2, SlotTakes
  <2>8. Names(d) BY <1>1, <2>3, <2>7 DEF Names, Task
  <2> QED BY <2>2, <2>3, <2>5, <2>6, <2>7, <2>8, SlotReal
<1>13. CASE RecordPull(d)
  <2>1. UNCHANGED <<gh, told, poll>> /\ Goes(d, Idle) BY <1>13 DEF RecordPull, DeliveryOnly, Ends
  <2>2. task[d].open \in DOMAIN gh /\ task[d].open # 0
    BY <1>1, <1>13 DEF RecordPull, RealTask
  <2>3. Was(task[d].open, "open") BY <2>2 DEF Real, RealPull
  <2>4. S!TryAdvance(S!PullRequestMachine, "reopen", rec.state) \in {rec.state, "open"}
    <3>1. "reopen" \in Moves /\ To["reopen"] = "open" BY DEF Moves, To
    <3> QED BY <3>1, EventLeads
  <2>5. rec'.num = task[d].open /\ (rec'.state = "open" \/ (rec.num # 0 /\ rec'.state = rec.state))
    <3> DEFINE s == S!TryAdvance(S!PullRequestMachine, "reopen", rec.state)
    <3>1. rec' = IF rec.num = 0 THEN [num |-> task[d].open, state |-> "open"]
                 ELSE [num |-> task[d].open, state |-> s]
      BY <1>13 DEF RecordPull
    <3>2. s \in {rec.state, "open"} BY <2>4
    <3> HIDE DEF s
    <3>3. CASE rec.num = 0 BY <3>1, <3>3
    <3>4. CASE rec.num # 0
      <4>1. rec' = [num |-> task[d].open, state |-> s] BY <3>1, <3>4
      <4>2. rec'.num = task[d].open /\ rec'.state = s BY <4>1
      <4> QED BY <3>2, <3>4, <4>2
    <3> QED BY <3>3, <3>4
  <2>6. RecordIsReal'
    <3>1. CASE rec'.state = "open" BY <2>1, <2>2, <2>3, <2>5, <3>1 DEF RecordIsReal, Was
    <3>2. CASE rec.num # 0 /\ rec'.state = rec.state
      BY <2>1, <2>2, <2>5, <3>2 DEF Real, RecordIsReal
    <3> QED BY <2>5, <3>1, <3>2
  <2>7. Grown BY <2>1, NothingHappened
  <2>8. Others(d) /\ Names(d) BY <1>3, <2>1, SlotTakes DEF Names
  <2> QED BY <2>1, <2>6, <2>7, <2>8, SlotReal
<1> QED BY <1>4, <1>5, <1>6, <1>7, <1>8, <1>9, <1>10, <1>11, <1>12, <1>13 DEF Step

LEMMA InitReal == ASSUME Init PROVE Real
BY DEF Init, Real, RealPoll, RealTask, RecordIsReal, NoRecord, Idle, At

LEMMA NextReal == ASSUME TypeOK, Real, [Next]_vars PROVE TypeOK' /\ Real'
<1>1. rec.num # 0 => rec.num \in DOMAIN gh BY DEF Real, RecordIsReal
<1>2. CASE UNCHANGED vars
  <2>1. TypeOK' BY <1>2 DEF vars, TypeOK
  <2>2. RecordIsReal' /\ RealPoll' BY <1>2 DEF vars, Real, RecordIsReal, RealPoll, Was
  <2> QED BY <1>2, <2>1, <2>2, Told DEF vars
<1>3. CASE User BY <1>3, UserTyped, UserReal
<1>4. CASE PullRequestEvent \/ DeleteEvent \/ PollSnapshot \/ PollApply
  BY <1>1, <1>4, EventsTyped, EventsReal
<1>5. CASE \E d \in Deliveries : Step(d) \/ Crash(d) BY <1>5, StepTyped, StepReal
<1> QED BY <1>2, <1>3, <1>4, <1>5 DEF Next

LEMMA RealAlways == Spec => [](TypeOK /\ Real)
<1>1. Init => TypeOK /\ Real BY InitTyped, InitReal
<1>2. TypeOK /\ Real /\ [Next]_vars => (TypeOK /\ Real)' BY NextReal
<1> QED BY <1>1, <1>2, PTL DEF Spec

(* Every variable of the fix branch has its type. *)
THEOREM BranchTypes == Spec => []TypeOK
BY RealAlways, PTL

(* The record says merged, or closed, only if a pull request of the branch  *)
(* was, or the branch was deleted, however many deliveries and webhooks run *)
(* against each other.                                                      *)
THEOREM RecordIsTrue == Spec => []RecordIsReal
<1>1. Real => RecordIsReal BY DEF Real
<1> QED BY <1>1, RealAlways, PTL

-----------------------------------------------------------------------------
(* The commits of users *)

(* Commits are numbered in the order they are pushed, and a delivery that   *)
(* has looked at the branch without force holds no commit of a user's.      *)
SeenHead(d) ==
    /\ task[d].tip <= tips
    /\ (At(d, "checked") /\ branch.user /\ ~task[d].force) => branch.tip # task[d].tip

Heads == branch.tip <= tips /\ \A d \in Deliveries : SeenHead(d)

LEMMA InitHeads == ASSUME Init PROVE Heads
BY DEF Init, Heads, SeenHead, NoBranch, Idle, At

LEMMA Numbers ==
    ASSUME TypeOK
    PROVE  /\ tips \in Nat /\ branch \in Branch /\ branch.tip \in Nat /\ branch.user \in BOOLEAN
           /\ branch.on \in Int /\ branch.from \in Int
           /\ base \in Int /\ fix \in Int /\ versions \in Nat
           /\ \A d \in Deliveries : /\ task[d] \in Task /\ task[d].tip \in Nat
                                    /\ task[d].from \in Int /\ task[d].sha \in Int
                                    /\ task[d].expected \in Int
<1>1. tips \in Nat /\ branch \in Branch /\ base \in Int /\ fix \in Int /\ versions \in Nat
      /\ \A d \in Deliveries : task[d] \in Task
  BY DEF TypeOK
<1> QED BY <1>1 DEF Branch, Task

(* The tasks stay, and no commit is taken back. *)
LEMMA HeadsStay ==
    ASSUME TypeOK, Heads, task' = task,
           UNCHANGED <<branch, tips>> \/ (branch' = NoBranch /\ tips' = tips)
    PROVE  Heads'
<1>1. NoBranch.tip = 0 /\ NoBranch.user = FALSE BY DEF NoBranch
<1>2. branch'.tip <= tips' BY <1>1, Numbers DEF Heads
<1>3. ASSUME NEW d \in Deliveries PROVE SeenHead(d)'
  <2>1. SeenHead(d) BY DEF Heads
  <2>2. CASE UNCHANGED <<branch, tips>> BY <2>1, <2>2 DEF SeenHead, At
  <2>3. CASE branch' = NoBranch /\ tips' = tips BY <1>1, <2>1, <2>3 DEF SeenHead, At
  <2> QED BY <2>2, <2>3
<1> QED BY <1>2, <1>3 DEF Heads

LEMMA CommitHeads == ASSUME TypeOK, Heads, UserCommits PROVE Heads'
<1>1. tips' = tips + 1 /\ task' = task BY DEF UserCommits, Elsewhere
<1>2. branch'.tip = tips + 1 BY <1>1, Numbers DEF UserCommits, Branch
<1>3. ASSUME NEW d \in Deliveries PROVE SeenHead(d)'
  <2>1. SeenHead(d) /\ task[d].tip \in Nat BY Numbers DEF Heads
  <2> QED BY <1>1, <1>2, <2>1, Numbers DEF SeenHead, At
<1> QED BY <1>1, <1>2, <1>3, Numbers DEF Heads

(* A delivery that does not push, and holds no new commit. *)
LEMMA SlotHeads ==
    ASSUME TypeOK, Heads, NEW d \in Deliveries, Others(d), UNCHANGED <<branch, tips>>, SeenHead(d)'
    PROVE  Heads'
<1>1. ASSUME NEW e \in Deliveries PROVE SeenHead(e)'
  <2>1. CASE e = d BY <2>1
  <2>2. CASE e # d
    <3>1. task'[e] = task[e] /\ SeenHead(e) BY <2>2 DEF Others, Heads
    <3> QED BY <3>1 DEF SeenHead, At
  <2> QED BY <2>1, <2>2
<1> QED BY <1>1 DEF Heads

(* What a slot of a delivery becomes. *)
LEMMA SlotBecomes ==
    ASSUME TypeOK, NEW d \in Deliveries, Step(d) \/ Crash(d)
    PROVE  /\ Others(d)
           /\ ReadBase(d) => task'[d] = [task[d] EXCEPT !.stage = "based", !.sha = base]
           /\ CheckFresh(d) =>
                task'[d] = IF Stale(d) THEN Idle ELSE [task[d] EXCEPT !.stage = "fresh"]
           /\ ListPulls(d) =>
                \E n \in Nat : task'[d] \in {[task[d] EXCEPT !.stage = "listed", !.open = n],
                                             [task[d] EXCEPT !.stage = "listed"]}
           /\ RefuseToOverwrite(d) =>
                task'[d] = IF UserCommitsFound(d) THEN Idle
                           ELSE [task[d] EXCEPT !.stage = "checked", !.tip = branch.tip]
           /\ Rebase(d) => task'[d] = [task[d] EXCEPT !.stage = "pushed"]
           /\ KeepPull(d) \/ UpdatePull(d) =>
                task'[d] \in {Idle, [task[d] EXCEPT !.stage = "opened"]}
           /\ CreatePull(d) =>
                \E n \in Nat : task'[d] = [task[d] EXCEPT !.stage = "opened", !.open = n]
           /\ RecordPull(d) \/ Errs(d) \/ Crash(d) => task'[d] = Idle
<1>1. ReadBase(d) => Others(d) /\ task'[d] = [task[d] EXCEPT !.stage = "based", !.sha = base]
  BY SlotTakes DEF ReadBase
<1>2. CheckFresh(d) =>
        Others(d) /\ task'[d] = IF Stale(d) THEN Idle ELSE [task[d] EXCEPT !.stage = "fresh"]
  BY SlotTakes DEF CheckFresh
<1>3. ListPulls(d) =>
        Others(d) /\ \E n \in Nat : task'[d] \in {[task[d] EXCEPT !.stage = "listed", !.open = n],
                                                  [task[d] EXCEPT !.stage = "listed"]}
  <2> SUFFICES ASSUME ListPulls(d)
               PROVE  Others(d) /\ \E n \in Nat :
                        task'[d] \in {[task[d] EXCEPT !.stage = "listed", !.open = n],
                                      [task[d] EXCEPT !.stage = "listed"]}
    OBVIOUS
  <2>1. CASE Goes(d, [task[d] EXCEPT !.stage = "listed"])
    <3>1. Others(d) /\ task'[d] = [task[d] EXCEPT !.stage = "listed"] BY <2>1, SlotTakes
    <3>2. 0 \in Nat OBVIOUS
    <3> QED BY <3>1, <3>2
  <2>2. CASE \E n \in OpenPr : Goes(d, [task[d] EXCEPT !.stage = "listed", !.open = n])
    <3>1. PICK n \in OpenPr : Goes(d, [task[d] EXCEPT !.stage = "listed", !.open = n]) BY <2>2
    <3>2. Others(d) /\ task'[d] = [task[d] EXCEPT !.stage = "listed", !.open = n] /\ n \in Nat
      BY <3>1, SlotTakes, PullNumbers
    <3> QED BY <3>2
  <2> QED BY <2>1, <2>2 DEF ListPulls
<1>4. RefuseToOverwrite(d) =>
        Others(d) /\ task'[d] = IF UserCommitsFound(d) THEN Idle
                                ELSE [task[d] EXCEPT !.stage = "checked", !.tip = branch.tip]
  BY SlotTakes DEF RefuseToOverwrite
<1>5. Rebase(d) => Others(d) /\ task'[d] = [task[d] EXCEPT !.stage = "pushed"]
  BY SlotTakes DEF Rebase
<1>6. KeepPull(d) \/ UpdatePull(d) =>
        Others(d) /\ task'[d] \in {Idle, [task[d] EXCEPT !.stage = "opened"]}
  <2>1. KeepPull(d) => Others(d) /\ task'[d] = IF task[d].open = 0 THEN Idle
                                               ELSE [task[d] EXCEPT !.stage = "opened"]
    BY SlotTakes DEF KeepPull
  <2>2. UpdatePull(d) => Others(d) /\ task'[d] = [task[d] EXCEPT !.stage = "opened"]
    BY SlotTakes DEF UpdatePull
  <2> QED BY <2>1, <2>2
<1>7. CreatePull(d) =>
        Others(d) /\ \E n \in Nat : task'[d] = [task[d] EXCEPT !.stage = "opened", !.open = n]
  <2>1. Len(gh) + 1 \in Nat BY DEF TypeOK
  <2>2. CreatePull(d) =>
          Others(d) /\ task'[d] = [task[d] EXCEPT !.stage = "opened", !.open = Len(gh) + 1]
    BY SlotTakes DEF CreatePull
  <2> QED BY <2>1, <2>2
<1>8. RecordPull(d) \/ Errs(d) \/ Crash(d) => Others(d) /\ task'[d] = Idle
  BY SlotTakes DEF RecordPull, Errs, Crash, Ends
<1> QED BY <1>1, <1>2, <1>3, <1>4, <1>5, <1>6, <1>7, <1>8 DEF Step

LEMMA StepHeads ==
    ASSUME TypeOK, Heads, NEW d \in Deliveries, Step(d) \/ Crash(d) PROVE Heads'
<1>1. task[d] \in Task /\ task[d].tip \in Nat /\ tips \in Nat /\ branch.tip \in Nat BY Numbers
<1>2. SeenHead(d) /\ branch.tip <= tips BY DEF Heads
<1>3. Idle.tip = 0 /\ Idle.stage = "idle" BY DEF Idle
<1>4. Others(d) BY SlotBecomes
<1>5. CASE RefuseToOverwrite(d)
  <2>1. UNCHANGED <<branch, tips>> BY <1>5 DEF RefuseToOverwrite, DeliveryOnly
  <2>2. task'[d] = IF UserCommitsFound(d) THEN Idle
                   ELSE [task[d] EXCEPT !.stage = "checked", !.tip = branch.tip]
    BY <1>5, SlotBecomes
  <2>3. CASE UserCommitsFound(d)
    <3>1. task'[d] = Idle BY <2>2, <2>3
    <3>2. SeenHead(d)' BY <1>1, <1>3, <2>1, <3>1 DEF SeenHead, At
    <3> QED BY <1>4, <2>1, <3>2, SlotHeads
  <2>4. CASE ~UserCommitsFound(d)
    <3>1. task'[d] = [task[d] EXCEPT !.stage = "checked", !.tip = branch.tip] BY <2>2, <2>4
    <3>2. task'[d].tip = branch.tip /\ task'[d].force = task[d].force BY <1>1, <3>1 DEF Task
    <3>3. ~(branch.user /\ ~task[d].force) BY <2>4 DEF UserCommitsFound
    <3>4. SeenHead(d)' BY <1>2, <2>1, <3>2, <3>3 DEF SeenHead, At
    <3> QED BY <1>4, <2>1, <3>4, SlotHeads
  <2> QED BY <2>3, <2>4
<1>6. CASE Rebase(d)
  <2>1. tips' = tips + 1
        /\ branch' = [tip |-> tips', user |-> FALSE, on |-> task[d].sha, from |-> task[d].from]
    BY <1>6 DEF Rebase
  <2>2. branch'.tip = tips + 1 /\ branch'.user = FALSE BY <2>1
  <2>3. ASSUME NEW e \in Deliveries PROVE SeenHead(e)'
    <3>1. task'[d].tip = task[d].tip
      <4>1. task'[d] = [task[d] EXCEPT !.stage = "pushed"] BY <1>6, SlotBecomes
      <4> QED BY <1>1, <4>1 DEF Task
    <3>2. task'[e].tip = task[e].tip BY <1>4, <3>1 DEF Others
    <3>3. task[e].tip <= tips /\ task[e].tip \in Nat BY Numbers DEF Heads, SeenHead
    <3> QED BY <1>1, <2>1, <2>2, <3>2, <3>3 DEF SeenHead
  <2> QED BY <1>1, <2>1, <2>2, <2>3 DEF Heads
<1>7. CASE ~RefuseToOverwrite(d) /\ ~Rebase(d)
  <2>1. UNCHANGED <<branch, tips>>
    BY <1>7 DEF Step, Crash, ReadBase, CheckFresh, ListPulls, KeepPull, UpdatePull, CreatePull,
                RecordPull, Errs, DeliveryOnly
  <2>2. task'[d].tip \in {0, task[d].tip} /\ task'[d].stage # "checked"
    <3>1. CASE ReadBase(d)
      <4>1. task'[d] = [task[d] EXCEPT !.stage = "based", !.sha = base] BY <3>1, SlotBecomes
      <4> QED BY <1>1, <4>1 DEF Task
    <3>2. CASE CheckFresh(d)
      <4>1. task'[d] = Idle \/ task'[d] = [task[d] EXCEPT !.stage = "fresh"] BY <3>2, SlotBecomes
      <4> QED BY <1>1, <1>3, <4>1 DEF Task
    <3>3. CASE ListPulls(d)
      <4>1. PICK n \in Nat : task'[d] \in {[task[d] EXCEPT !.stage = "listed", !.open = n],
                                           [task[d] EXCEPT !.stage = "listed"]}
        BY <3>3, SlotBecomes
      <4> QED BY <1>1, <4>1 DEF Task
    <3>4. CASE KeepPull(d) \/ UpdatePull(d)
      <4>1. task'[d] = Idle \/ task'[d] = [task[d] EXCEPT !.stage = "opened"] BY <3>4, SlotBecomes
      <4> QED BY <1>1, <1>3, <4>1 DEF Task
    <3>5. CASE CreatePull(d)
      <4>1. PICK n \in Nat : task'[d] = [task[d] EXCEPT !.stage = "opened", !.open = n]
        BY <3>5, SlotBecomes
      <4> QED BY <1>1, <4>1 DEF Task
    <3>6. CASE RecordPull(d) \/ Errs(d) \/ Crash(d) BY <1>3, <3>6, SlotBecomes
    <3> QED BY <1>7, <3>1, <3>2, <3>3, <3>4, <3>5, <3>6 DEF Step
  <2>3. SeenHead(d)' BY <1>1, <1>2, <2>1, <2>2 DEF SeenHead, At
  <2> QED BY <1>4, <2>1, <2>3, SlotHeads
<1> QED BY <1>5, <1>6, <1>7

LEMMA DeliverHeads == ASSUME TypeOK, Heads, Deliver PROVE Heads'
<1>1. PICK d \in Deliveries, force \in BOOLEAN :
        Goes(d, [Idle EXCEPT !.stage = "loaded", !.force = force, !.from = fix,
                             !.expected = IF Fetched THEN base ELSE fix])
  BY DEF Deliver
<1> DEFINE b == [Idle EXCEPT !.stage = "loaded", !.force = force, !.from = fix,
                             !.expected = IF Fetched THEN base ELSE fix]
<1>2. b.tip = 0 /\ b.stage = "loaded" BY DEF Idle
<1>3. Goes(d, b) BY <1>1
<1> HIDE DEF b
<1>4. Others(d) /\ task'[d] = b BY <1>3, SlotTakes
<1>5. UNCHANGED <<branch, tips>> BY DEF Deliver
<1>6. SeenHead(d)' BY <1>2, <1>4, <1>5, Numbers DEF SeenHead, At
<1> QED BY <1>4, <1>5, <1>6, SlotHeads

LEMMA UserHeads == ASSUME TypeOK, Heads, User PROVE Heads'
<1>1. CASE Deliver BY <1>1, DeliverHeads
<1>2. CASE UserCommits BY <1>2, CommitHeads
<1>3. CASE BranchDeleted
  <2>1. task' = task /\ branch' = NoBranch /\ tips' = tips
    BY <1>3 DEF BranchDeleted, Elsewhere
  <2> QED BY <2>1, HeadsStay
<1>4. CASE UserPushes \/ UserDeletes \/ UserMerges \/ UserOpens \/ Generate
  <2>1. task' = task /\ UNCHANGED <<branch, tips>>
    BY <1>4 DEF UserPushes, UserDeletes, UserMerges, UserOpens, Generate, Elsewhere
  <2> QED BY <2>1, HeadsStay
<1>5. CASE UserCloses \/ UserReopens \/ UserDrafts
  <2>1. task' = task /\ UNCHANGED <<branch, tips>>
    BY <1>5 DEF UserCloses, UserReopens, UserDrafts, UserMovesPr, Elsewhere
  <2> QED BY <2>1, HeadsStay
<1> QED BY <1>1, <1>2, <1>3, <1>4, <1>5 DEF User

LEMMA NextHeads == ASSUME TypeOK, Heads, [Next]_vars PROVE Heads'
<1>1. CASE User BY <1>1, UserHeads
<1>2. CASE \E d \in Deliveries : Step(d) \/ Crash(d) BY <1>2, StepHeads
<1>3. CASE UNCHANGED vars \/ PullRequestEvent \/ DeleteEvent \/ PollSnapshot \/ PollApply
  <2>1. task' = task /\ UNCHANGED <<branch, tips>>
    BY <1>3 DEF vars, PullRequestEvent, DeleteEvent, PollSnapshot, PollApply, EventOnly
  <2> QED BY <2>1, HeadsStay
<1> QED BY <1>1, <1>2, <1>3 DEF Next

(* A delivery without force overwrites no commit of a user that was on the  *)
(* branch when it looked.                                                   *)
THEOREM SeenWorkStays == Spec => WorkSeenIsKept
<1>1. Init => Heads BY InitHeads
<1>2. TypeOK /\ Heads /\ [Next]_vars => Heads' BY NextHeads
<1>3. Heads => \A d \in Deliveries :
                 (At(d, "checked") /\ task'[d].stage = "pushed" /\ branch.user /\ ~task[d].force)
                    => branch.tip # task[d].tip
  BY DEF Heads, SeenHead
<1> QED BY <1>1, <1>2, <1>3, RealAlways, PTL DEF Spec, WorkSeenIsKept

-----------------------------------------------------------------------------
(* The changes of users, when the rewrite keeps what it was made of *)

(* Every content on the base branch was pushed there before, a rewrite is   *)
(* made of a pushed content, and a delivery that found the base as its      *)
(* rewrite expects it carries the rewrite of that base commit.              *)
Pushed == base <= versions /\ fix <= versions /\ fix >= 0

BranchKept ==
    /\ branch.on <= versions /\ branch.from >= 0
    /\ ChangesAreKept

(* What a delivery holds of it. *)
TaskKept(d) ==
    /\ task[d].from >= 0 /\ task[d].sha <= versions
    /\ task[d].stage \in {"loaded", "based"} =>
         task[d].expected = task[d].from /\ task[d].from # 0
    /\ (task[d].stage \in {"fresh", "listed", "checked"} /\ base = task[d].sha /\ base > 0)
         => base = task[d].from

Kept == Pushed /\ BranchKept /\ \A d \in Deliveries : TaskKept(d)

LEMMA InitKept == ASSUME Init PROVE Kept
BY DEF Init, Kept, Pushed, BranchKept, ChangesAreKept, TaskKept, NoBranch, Idle

(* The base branch stays as it is, or takes a content that no commit had.   *)
BaseMoves ==
    \/ base' = base /\ versions' = versions
    \/ base' \in Int /\ base' <= 0 /\ versions' = versions
    \/ base' = versions + 1 /\ versions' = versions + 1

LEMMA TaskStaysKept ==
    ASSUME TypeOK, Kept, BaseMoves, NEW d \in Deliveries, task'[d] = task[d] PROVE TaskKept(d)'
<1>1. TaskKept(d) /\ Pushed BY DEF Kept
<1> QED BY <1>1, Numbers DEF TaskKept, BaseMoves, Pushed

LEMMA BranchStaysKept ==
    ASSUME TypeOK, Kept, BaseMoves,
           branch'.on = branch.on /\ branch'.from = branch.from /\ (branch'.tip # 0 => branch.tip # 0)
    PROVE  BranchKept'
<1>1. BranchKept BY DEF Kept
<1> QED BY <1>1, Numbers DEF BranchKept, ChangesAreKept, BaseMoves

LEMMA ElsewhereKept ==
    ASSUME TypeOK, Kept, BaseMoves, fix' = fix, task' = task, BranchKept' PROVE Kept'
<1>1. Pushed'
  <2>1. Pushed BY DEF Kept
  <2>2. fix' <= versions' /\ fix' >= 0 BY <2>1, Numbers DEF Pushed, BaseMoves
  <2>3. base' <= versions' BY <2>1, Numbers DEF Pushed, BaseMoves
  <2> QED BY <2>2, <2>3 DEF Pushed
<1>2. \A d \in Deliveries : TaskKept(d)' BY TaskStaysKept
<1> QED BY <1>1, <1>2 DEF Kept

LEMMA UserKept == ASSUME TypeOK, Kept, User, Fetched = FALSE PROVE Kept'
<1>1. CASE UserPushes
  <2>1. BaseMoves /\ UNCHANGED <<fix, task, branch>>
    BY <1>1 DEF UserPushes, Elsewhere, BaseMoves
  <2> QED BY <2>1, BranchStaysKept, ElsewhereKept
<1>2. CASE UserDeletes
  <2>1. BaseMoves /\ UNCHANGED <<fix, task, branch>>
    BY <1>2 DEF UserDeletes, Elsewhere, BaseMoves
  <2> QED BY <2>1, BranchStaysKept, ElsewhereKept
<1>3. CASE UserMerges
  <2>1. base' = - branch.from /\ branch.from >= 0 /\ UNCHANGED <<fix, task, branch, versions>>
    BY <1>3 DEF UserMerges, Elsewhere, Rewrite, Kept, BranchKept
  <2>2. BaseMoves BY <2>1, Numbers DEF BaseMoves
  <2> QED BY <2>1, <2>2, BranchStaysKept, ElsewhereKept
<1>4. CASE UserCommits
  <2>1. BaseMoves /\ UNCHANGED <<fix, task>> /\ branch.tip # 0
        /\ branch' = [branch EXCEPT !.tip = tips', !.user = TRUE]
    BY <1>4 DEF UserCommits, Elsewhere, BaseMoves
  <2>2. branch'.on = branch.on /\ branch'.from = branch.from BY <2>1, Numbers DEF Branch
  <2> QED BY <2>1, <2>2, BranchStaysKept, ElsewhereKept
<1>5. CASE BranchDeleted
  <2>1. BaseMoves /\ UNCHANGED <<fix, task, versions>> /\ branch' = NoBranch
    BY <1>5 DEF BranchDeleted, Elsewhere, BaseMoves
  <2>2. BranchKept'
    <3>1. branch'.tip = 0 /\ branch'.on = 0 /\ branch'.from = 0 BY <2>1 DEF NoBranch
    <3> QED BY <2>1, <3>1, Numbers DEF BranchKept, ChangesAreKept
  <2> QED BY <2>1, <2>2, ElsewhereKept
<1>6. CASE UserOpens \/ UserCloses \/ UserReopens \/ UserDrafts
  <2>1. BaseMoves /\ UNCHANGED <<fix, task, branch>>
    BY <1>6 DEF UserOpens, UserCloses, UserReopens, UserDrafts, UserMovesPr, Elsewhere, BaseMoves
  <2> QED BY <2>1, BranchStaysKept, ElsewhereKept
<1>7. CASE Generate
  <2>1. BaseMoves /\ UNCHANGED <<base, versions, task, branch>> /\ fix' = base /\ base > 0
    BY <1>7 DEF Generate, BaseMoves
  <2>2. BranchKept' BY <2>1, BranchStaysKept
  <2>3. Pushed' BY <2>1, Numbers DEF Kept, Pushed
  <2> QED BY <2>1, <2>2, <2>3, TaskStaysKept DEF Kept
<1>8. CASE Deliver
  <2>1. PICK d \in Deliveries, force \in BOOLEAN :
          Goes(d, [Idle EXCEPT !.stage = "loaded", !.force = force, !.from = fix,
                               !.expected = IF Fetched THEN base ELSE fix])
    BY <1>8 DEF Deliver
  <2> DEFINE b == [Idle EXCEPT !.stage = "loaded", !.force = force, !.from = fix,
                               !.expected = IF Fetched THEN base ELSE fix]
  <2>2. b.from = fix /\ b.stage = "loaded" /\ b.expected = fix /\ b.sha = 0 BY DEF Idle
  <2>3. Goes(d, b) BY <2>1
  <2> HIDE DEF b
  <2>4. Others(d) /\ task'[d] = b BY <2>3, SlotTakes
  <2>5. UNCHANGED <<branch, base, versions, fix>> /\ BaseMoves /\ fix # 0
    BY <1>8 DEF Deliver, DeliveryOnly, BaseMoves
  <2>6. Pushed' /\ BranchKept' BY <2>5, BranchStaysKept DEF Kept, Pushed
  <2>7. TaskKept(d)' BY <2>2, <2>4, <2>5, Numbers DEF TaskKept, Kept, Pushed
  <2> QED BY <2>4, <2>5, <2>6, <2>7, TaskStaysKept DEF Kept, Others
<1> QED BY <1>1, <1>2, <1>3, <1>4, <1>5, <1>6, <1>7, <1>8 DEF User

LEMMA SlotKept ==
    ASSUME TypeOK, Kept, NEW d \in Deliveries, Others(d), UNCHANGED <<base, versions, fix>>,
           BranchKept', TaskKept(d)'
    PROVE  Kept'
<1>1. BaseMoves BY DEF BaseMoves
<1>2. Pushed' BY DEF Kept, Pushed
<1>3. \A e \in Deliveries : TaskKept(e)' BY <1>1, TaskStaysKept DEF Others
<1> QED BY <1>2, <1>3 DEF Kept

LEMMA StepKept ==
    ASSUME TypeOK, Kept, NEW d \in Deliveries, Step(d) \/ Crash(d) PROVE Kept'
<1>1. task[d] \in Task /\ Others(d) /\ TaskKept(d) /\ Pushed /\ BranchKept
  BY Numbers, SlotBecomes DEF Kept
<1>2. UNCHANGED <<base, versions, fix>>
  BY DEF Step, Crash, ReadBase, CheckFresh, ListPulls, RefuseToOverwrite, Rebase, KeepPull,
         UpdatePull, CreatePull, RecordPull, Errs, DeliveryOnly
<1>3. Idle.from = 0 /\ Idle.stage = "idle" /\ Idle.sha = 0 BY DEF Idle
<1>4. task'[d] = Idle => TaskKept(d)' BY <1>2, <1>3, Numbers DEF TaskKept
<1>5. CASE Rebase(d)
  <2>1. branch' = [tip |-> tips', user |-> FALSE, on |-> task[d].sha, from |-> task[d].from]
        /\ task[d].stage = "checked"
    BY <1>5 DEF Rebase, At
  <2>2. branch'.on = task[d].sha /\ branch'.from = task[d].from BY <2>1
  <2>3. BranchKept' BY <1>1, <1>2, <2>1, <2>2, Numbers DEF BranchKept, ChangesAreKept, TaskKept
  <2>4. task'[d] = [task[d] EXCEPT !.stage = "pushed"] BY <1>5, SlotBecomes
  <2>5. task'[d].stage = "pushed" /\ task'[d].from = task[d].from /\ task'[d].sha = task[d].sha
    BY <1>1, <2>4 DEF Task
  <2>6. TaskKept(d)' BY <1>1, <1>2, <2>5 DEF TaskKept
  <2> QED BY <1>1, <1>2, <2>3, <2>6, SlotKept
<1>6. CASE ~Rebase(d)
  <2>1. UNCHANGED branch
    BY <1>6 DEF Step, Crash, ReadBase, CheckFresh, ListPulls, RefuseToOverwrite, KeepPull,
                UpdatePull, CreatePull, RecordPull, Errs
  <2>2. BranchKept' BY <1>1, <1>2, <2>1 DEF BranchKept, ChangesAreKept
  <2>3. TaskKept(d)'
    <3>1. CASE ReadBase(d)
      <4>1. task'[d] = [task[d] EXCEPT !.stage = "based", !.sha = base] /\ task[d].stage = "loaded"
        BY <3>1, SlotBecomes DEF ReadBase, At
      <4>2. /\ task'[d].stage = "based" /\ task'[d].from = task[d].from /\ task'[d].sha = base
            /\ task'[d].expected = task[d].expected
        BY <1>1, <4>1 DEF Task
      <4> QED BY <1>1, <1>2, <4>1, <4>2 DEF TaskKept, Pushed
    <3>2. CASE CheckFresh(d)
      <4>1. CASE Stale(d) BY <1>4, <3>2, <4>1, SlotBecomes
      <4>2. CASE ~Stale(d)
        <5>1. task'[d] = [task[d] EXCEPT !.stage = "fresh"] /\ task[d].stage = "based"
          BY <3>2, <4>2, SlotBecomes DEF CheckFresh, At
        <5>2. task'[d].stage = "fresh" /\ task'[d].from = task[d].from /\ task'[d].sha = task[d].sha
          BY <1>1, <5>1 DEF Task
        <5>3. base = 0 \/ base = task[d].from BY <1>1, <4>2, <5>1 DEF Stale, TaskKept
        <5> QED BY <1>1, <1>2, <5>2, <5>3 DEF TaskKept
      <4> QED BY <4>1, <4>2
    <3>3. CASE ListPulls(d)
      <4>1. PICK n \in Nat : task'[d] \in {[task[d] EXCEPT !.stage = "listed", !.open = n],
                                           [task[d] EXCEPT !.stage = "listed"]}
        BY <3>3, SlotBecomes
      <4>2. task'[d].stage = "listed" /\ task'[d].from = task[d].from /\ task'[d].sha = task[d].sha
        BY <1>1, <4>1 DEF Task
      <4>3. task[d].stage = "fresh" BY <3>3 DEF ListPulls, At
      <4> QED BY <1>1, <1>2, <4>2, <4>3 DEF TaskKept
    <3>4. CASE RefuseToOverwrite(d)
      <4>1. CASE UserCommitsFound(d) BY <1>4, <3>4, <4>1, SlotBecomes
      <4>2. CASE ~UserCommitsFound(d)
        <5>1. task'[d] = [task[d] EXCEPT !.stage = "checked", !.tip = branch.tip]
              /\ task[d].stage = "listed"
          BY <3>4, <4>2, SlotBecomes DEF RefuseToOverwrite, At
        <5>2. task'[d].stage = "checked" /\ task'[d].from = task[d].from
              /\ task'[d].sha = task[d].sha
          BY <1>1, <5>1 DEF Task
        <5> QED BY <1>1, <1>2, <5>1, <5>2 DEF TaskKept
      <4> QED BY <4>1, <4>2
    <3>5. CASE KeepPull(d) \/ UpdatePull(d)
      <4>1. task'[d] \in {Idle, [task[d] EXCEPT !.stage = "opened"]} BY <3>5, SlotBecomes
      <4>2. CASE task'[d] = [task[d] EXCEPT !.stage = "opened"]
        <5>1. task'[d].stage = "opened" /\ task'[d].from = task[d].from
              /\ task'[d].sha = task[d].sha
          BY <1>1, <4>2 DEF Task
        <5> QED BY <1>1, <1>2, <5>1 DEF TaskKept
      <4> QED BY <1>4, <4>1, <4>2
    <3>6. CASE CreatePull(d)
      <4>1. PICK n \in Nat : task'[d] = [task[d] EXCEPT !.stage = "opened", !.open = n]
        BY <3>6, SlotBecomes
      <4>2. task'[d].stage = "opened" /\ task'[d].from = task[d].from /\ task'[d].sha = task[d].sha
        BY <1>1, <4>1 DEF Task
      <4> QED BY <1>1, <1>2, <4>2 DEF TaskKept
    <3>7. CASE RecordPull(d) \/ Errs(d) \/ Crash(d) BY <1>4, <3>7, SlotBecomes
    <3> QED BY <1>6, <3>1, <3>2, <3>3, <3>4, <3>5, <3>6, <3>7 DEF Step
  <2> QED BY <1>1, <1>2, <2>2, <2>3, SlotKept
<1> QED BY <1>5, <1>6

LEMMA NextKept == ASSUME TypeOK, Kept, [Next]_vars, Fetched = FALSE PROVE Kept'
<1>1. CASE User BY <1>1, UserKept
<1>2. CASE \E d \in Deliveries : Step(d) \/ Crash(d) BY <1>2, StepKept
<1>3. CASE UNCHANGED vars \/ PullRequestEvent \/ DeleteEvent \/ PollSnapshot \/ PollApply
  <2>1. BaseMoves /\ UNCHANGED <<fix, task, branch>>
    BY <1>3 DEF vars, PullRequestEvent, DeleteEvent, PollSnapshot, PollApply, EventOnly, BaseMoves
  <2> QED BY <2>1, BranchStaysKept, ElsewhereKept
<1> QED BY <1>1, <1>2, <1>3 DEF Next

(* Merging the branch of a workflow fix never undoes a change that was      *)
(* pushed to the file while the fix was generated, delivered or reviewed.   *)
THEOREM ChangesSurvive == ASSUME Fetched = FALSE PROVE Spec => []ChangesAreKept
<1>1. Init => Kept BY InitKept
<1>2. TypeOK /\ Kept /\ [Next]_vars => Kept' BY NextKept
<1>3. Kept => ChangesAreKept BY DEF Kept, BranchKept
<1> QED BY <1>1, <1>2, <1>3, RealAlways, PTL DEF Spec

-----------------------------------------------------------------------------
(* The mirror: what a poll read *)

CONSTANTS
    Prs, Hooks, Commented, Unreadable, Outcomes, Decisions, Verbs, Touched,
    MirrorOps, MaxMirrorOps  \* Ops and MaxOps of the mirror

VARIABLES
    head, pull, comments, record, polledHead, baseline, asked, muted, applied, events,
    polling, counted         \* poll and ops of the mirror

Mirror == INSTANCE PullRequestMirror WITH Ops <- MirrorOps, MaxOps <- MaxMirrorOps,
                                          poll <- polling, ops <- counted

Command == [pr : Prs, verb : Verbs]

PollFields == {"step", "now", "prs", "todo", "head", "seen"}

RowShape(row) == DOMAIN row = {"state", "head", "ci", "review", "cursor"} /\ row.cursor \in Nat

Rows == DOMAIN record = Prs /\ \A p \in Prs : RowShape(record[p])

(* A pull request the poll has read and not yet applied. *)
Read(p) ==
    \/ polling.step = "fetching" /\ p \in polling.prs \ polling.todo
    \/ polling.step = "saving" /\ p \in polling.prs
    \/ polling.step = "applying" /\ p \in polling.todo

(* Its commands begin where its cursor is, and go at least as far as the    *)
(* cursor is to be moved.                                                   *)
ReadWhole(p) ==
    LET seen == polling.seen[p] IN
    /\ seen.from = record[p].cursor /\ seen.to \in Nat /\ seen.to <= Len(comments)
    /\ p \notin Unreadable => polling.now <= seen.to

PollShape ==
    /\ DOMAIN polling = PollFields /\ polling.prs \in SUBSET Prs /\ DOMAIN polling.seen = Prs
    /\ polling.now \in Nat /\ polling.now <= Len(comments)

CursorInv ==
    /\ comments \in Seq(Command)
    /\ Rows /\ PollShape
    /\ \A p \in Prs : record[p].cursor <= Len(comments)
    /\ \A p \in Prs : Read(p) => ReadWhole(p)
    /\ Mirror!NoneMissed

(* Steps that leave rows, the poll and what was carried out alone. *)
Written ==
    /\ comments' = comments \/ \E c \in Command : comments' = Append(comments, c)
    /\ record' = record /\ polling' = polling /\ applied' = applied

LEMMA StartCursor == ASSUME Mirror!Init PROVE CursorInv
<1>1. comments = <<>> /\ applied = {} /\ comments \in Seq(Command) /\ Len(comments) = 0
  BY DEF Mirror!Init
<1>2. Rows /\ \A p \in Prs : record[p].cursor = 0 BY DEF Mirror!Init, Rows, RowShape
<1>3. PollShape /\ polling.step = "idle"
  BY <1>1 DEF Mirror!Init, Mirror!NoPoll, PollShape, PollFields
<1>4. \A p \in Prs : ~Read(p) BY <1>3 DEF Read
<1>5. Mirror!NoneMissed BY <1>1 DEF Mirror!NoneMissed
<1> QED BY <1>1, <1>2, <1>3, <1>4, <1>5 DEF CursorInv

LEMMA Longer ==
    ASSUME NEW T, NEW s \in Seq(T), NEW c \in T, NEW t, t = Append(s, c)
    PROVE  /\ t \in Seq(T) /\ Len(s) \in Nat /\ Len(t) >= Len(s)
           /\ \A i \in DOMAIN s : i \in DOMAIN t /\ t[i] = s[i]
           /\ \A i \in DOMAIN t : i \in Nat /\ (i <= Len(s) => i \in DOMAIN s)
           /\ \A i \in DOMAIN t : t[i] \in T
<1>1. t \in Seq(T) /\ Len(t) = Len(s) + 1 OBVIOUS
<1>2. Len(s) \in Nat /\ DOMAIN s = 1..Len(s) /\ DOMAIN t = 1..Len(t) BY <1>1
<1>3. \A i \in 1..Len(s) : t[i] = s[i] OBVIOUS
<1>4. \A i \in DOMAIN t : t[i] \in T BY <1>1
<1>5. \A i \in DOMAIN s : i \in DOMAIN t BY <1>1, <1>2
<1>6. \A i \in DOMAIN t : i \in Nat /\ (i <= Len(s) => i \in DOMAIN s) BY <1>1, <1>2
<1> QED BY <1>1, <1>2, <1>3, <1>4, <1>5, <1>6

LEMMA WrittenKeeps == ASSUME CursorInv, Written PROVE CursorInv'
<1>1. /\ comments' \in Seq(Command) /\ Len(comments) \in Nat /\ Len(comments') >= Len(comments)
      /\ \A i \in DOMAIN comments : i \in DOMAIN comments' /\ comments'[i] = comments[i]
      /\ \A i \in DOMAIN comments' : i \in Nat /\ (i <= Len(comments) => i \in DOMAIN comments)
      /\ \A i \in DOMAIN comments' : comments'[i].pr \in Prs
  <2>1. CASE comments' = comments
    <3>1. \A i \in DOMAIN comments : i \in Nat /\ comments[i] \in Command BY DEF CursorInv
    <3> QED BY <2>1, <3>1 DEF CursorInv, Command
  <2>2. ASSUME NEW c \in Command, comments' = Append(comments, c)
        PROVE  /\ comments' \in Seq(Command) /\ Len(comments) \in Nat
               /\ Len(comments') >= Len(comments)
               /\ \A i \in DOMAIN comments : i \in DOMAIN comments' /\ comments'[i] = comments[i]
               /\ \A i \in DOMAIN comments' :
                    i \in Nat /\ (i <= Len(comments) => i \in DOMAIN comments)
               /\ \A i \in DOMAIN comments' : comments'[i] \in Command
    BY <2>2, Longer DEF CursorInv
  <2> QED BY <2>1, <2>2 DEF Written, Command
<1>2. Rows' /\ \A p \in Prs : record'[p] = record[p] BY DEF CursorInv, Written, Rows
<1>3. \A p \in Prs : record[p].cursor \in Nat BY DEF CursorInv, Rows, RowShape
<1>4. \A p \in Prs : record'[p].cursor <= Len(comments') BY <1>1, <1>2, <1>3 DEF CursorInv
<1>5. PollShape'
  <2>1. polling' = polling /\ PollShape BY DEF CursorInv, Written
  <2> QED BY <1>1, <2>1 DEF PollShape
<1>6. \A p \in Prs : Read(p)' => ReadWhole(p)'
  <2> SUFFICES ASSUME NEW p \in Prs, Read(p)' PROVE ReadWhole(p)' OBVIOUS
  <2>1. polling' = polling /\ record'[p] = record[p] BY <1>2 DEF Written
  <2>2. Read(p) BY <2>1 DEF Read
  <2>3. ReadWhole(p) BY <2>2 DEF CursorInv
  <2>4. comments' \in Seq(Command) /\ Len(comments) \in Nat /\ Len(comments') >= Len(comments)
    BY <1>1
  <2>5. Len(comments') \in Nat BY <2>4
  <2>6. polling.seen[p].to <= Len(comments') BY <2>3, <2>4, <2>5 DEF ReadWhole
  <2>7. polling'.seen = polling.seen /\ polling'.now = polling.now BY <2>1
  <2>8. record'[p].cursor = record[p].cursor BY <2>1
  <2> QED BY <2>3, <2>6, <2>7, <2>8 DEF ReadWhole
<1>7. Mirror!NoneMissed'
  <2> SUFFICES ASSUME NEW i \in DOMAIN comments',
                      i <= record'[comments'[i].pr].cursor, comments'[i].pr \notin Unreadable
               PROVE  i \in applied'
    BY DEF Mirror!NoneMissed
  <2>1. i <= Len(comments) BY <1>1, <1>2, <1>3 DEF CursorInv
  <2>2. i \in DOMAIN comments /\ comments'[i] = comments[i] BY <1>1, <2>1
  <2>3. record'[comments'[i].pr] = record[comments[i].pr] BY <2>2, <1>1, <1>2
  <2> QED BY <2>2, <2>3 DEF CursorInv, Mirror!NoneMissed, Written
<1> QED BY <1>1, <1>2, <1>4, <1>5, <1>6, <1>7 DEF CursorInv

(* Steps that write rows but not their cursors, and drop no command. *)
Noted ==
    /\ comments' = comments /\ polling' = polling /\ applied \subseteq applied'
    /\ DOMAIN record' = Prs
    /\ \A p \in Prs : RowShape(record'[p]) /\ record'[p].cursor = record[p].cursor

LEMMA NotedKeeps == ASSUME CursorInv, Noted PROVE CursorInv'
<1>1. Rows' BY DEF Noted, Rows
<1>2. PollShape' BY DEF Noted, CursorInv, PollShape
<1>3. \A p \in Prs : record'[p].cursor <= Len(comments')
  <2>1. \A p \in Prs : record[p].cursor <= Len(comments) BY DEF CursorInv
  <2> QED BY <2>1 DEF Noted
<1>4. \A p \in Prs : Read(p)' => ReadWhole(p)'
  <2> SUFFICES ASSUME NEW p \in Prs, Read(p)' PROVE ReadWhole(p)' OBVIOUS
  <2>1. polling' = polling /\ comments' = comments /\ record'[p].cursor = record[p].cursor
    BY DEF Noted
  <2>2. Read(p) BY <2>1 DEF Read
  <2> QED BY <2>1, <2>2 DEF CursorInv, ReadWhole
<1>5. Mirror!NoneMissed'
  <2>0. comments \in Seq(Command) BY DEF CursorInv
  <2>2. \A i \in DOMAIN comments : comments[i] \in Command BY <2>0
  <2>1. \A i \in DOMAIN comments : comments[i].pr \in Prs BY <2>2 DEF Command
  <2> QED BY <2>1 DEF Noted, CursorInv, Mirror!NoneMissed
<1> QED BY <1>1, <1>2, <1>3, <1>4, <1>5 DEF CursorInv, Noted

Kinds == \A e \in events : e.kind \in Mirror!HookKinds /\ (e.kind = "comment" => "comment" \in Hooks)

LEMMA SentKinds ==
    ASSUME NEW e, Kinds, Mirror!Sent(e), e.kind \in Mirror!HookKinds
    PROVE  Kinds'
BY DEF Kinds, Mirror!Sent

LEMMA KindsStep == ASSUME Kinds, [Mirror!Next]_(Mirror!vars) PROVE Kinds'
<1>1. CASE Mirror!Push
  <2>1. PICK touched \in Touched :
          Mirror!Sent([kind |-> "push", head |-> head + 1, touched |-> touched])
    BY <1>1 DEF Mirror!Push
  <2> QED BY <2>1, SentKinds DEF Mirror!HookKinds
<1>2. ASSUME NEW p \in Prs, Mirror!Lifecycle(p) PROVE Kinds'
  <2>1. PICK e : Mirror!Sent([kind |-> "lifecycle", pr |-> p, event |-> e])
    BY <1>2 DEF Mirror!Lifecycle, Mirror!MovePull
  <2> QED BY <2>1, SentKinds DEF Mirror!HookKinds
<1>3. ASSUME NEW p \in Prs, Mirror!Synchronize(p) PROVE Kinds'
  <2>1. Mirror!Sent([kind |-> "synchronize", pr |-> p])
    BY <1>3 DEF Mirror!Synchronize, Mirror!MovePull
  <2> QED BY <2>1, SentKinds DEF Mirror!HookKinds
<1>4. ASSUME NEW p \in Prs, Mirror!CheckSuite(p) PROVE Kinds'
  <2>1. PICK ci : Mirror!Sent([kind |-> "check_suite", pr |-> p, ci |-> ci])
    BY <1>4 DEF Mirror!CheckSuite, Mirror!MovePull
  <2> QED BY <2>1, SentKinds DEF Mirror!HookKinds
<1>5. ASSUME NEW p \in Prs, Mirror!Review(p) PROVE Kinds'
  <2>1. PICK d : Mirror!Sent([kind |-> "review", pr |-> p, decision |-> d])
    BY <1>5 DEF Mirror!Review, Mirror!MovePull
  <2> QED BY <2>1, SentKinds DEF Mirror!HookKinds
<1>6. ASSUME NEW p \in Prs, Mirror!Comment(p) PROVE Kinds'
  <2>1. Mirror!Sent([kind |-> "comment", number |-> Len(comments) + 1])
    BY <1>6 DEF Mirror!Comment
  <2> QED BY <2>1, SentKinds DEF Mirror!HookKinds
<1>7. CASE Mirror!Webhook BY <1>7 DEF Mirror!Webhook, Kinds
<1>8. ASSUME events' = events PROVE Kinds' BY <1>8 DEF Kinds
<1>9. CASE Mirror!Crash BY <1>8, <1>9 DEF Mirror!Crash
<1>10. ASSUME NEW p \in Prs, NEW ok \in BOOLEAN, Mirror!FetchPr(p, ok) PROVE Kinds'
  BY <1>8, <1>10 DEF Mirror!FetchPr
<1>11. ASSUME NEW ok \in BOOLEAN, Mirror!StartPoll(ok) PROVE Kinds'
  BY <1>8, <1>11 DEF Mirror!StartPoll
<1>12. CASE Mirror!PollStep
  BY <1>8, <1>12 DEF Mirror!PollStep, Mirror!EnqueuePush, Mirror!SaveHead, Mirror!ApplyPr
<1>13. CASE UNCHANGED Mirror!vars BY <1>8, <1>13 DEF Mirror!vars
<1> QED
  BY <1>1, <1>2, <1>3, <1>4, <1>5, <1>6, <1>7, <1>9, <1>10, <1>11, <1>12, <1>13 DEF Mirror!Next

LEMMA RowMoves ==
    ASSUME NEW row, RowShape(row), NEW event, NEW row2, row2 = Mirror!Moved(row, event)
    PROVE  RowShape(row2) /\ row2.cursor = row.cursor
BY DEF Mirror!Moved, RowShape

LEMMA WebhookNotes == ASSUME CursorInv, Kinds, Mirror!Webhook PROVE Noted
<1>1. PICK e \in events :
        /\ CASE e.kind = "push" -> Mirror!HandlePush(e)
             [] e.kind = "lifecycle" -> Mirror!HandleLifecycle(e)
             [] e.kind = "synchronize" -> Mirror!HandleSync(e)
             [] e.kind = "check_suite" -> Mirror!HandleCiStatus(e)
             [] e.kind = "review" -> Mirror!HandleReview(e)
             [] e.kind = "comment" -> Mirror!HandleComment(e)
        /\ comments' = comments /\ polling' = polling
  BY DEF Mirror!Webhook
<1>2. \/ Mirror!HandlePush(e) \/ Mirror!HandleLifecycle(e) \/ Mirror!HandleSync(e)
      \/ Mirror!HandleCiStatus(e) \/ Mirror!HandleReview(e) \/ Mirror!HandleComment(e)
  BY <1>1 DEF Kinds, Mirror!HookKinds
<1>3. Rows BY DEF CursorInv
<1>4. applied \subseteq applied'
  BY <1>2 DEF Mirror!HandlePush, Mirror!HandleLifecycle, Mirror!HandleSync, Mirror!HandleCiStatus,
              Mirror!HandleReview, Mirror!HandleComment
<1>5. \/ record' = record
      \/ \E event : record' = [record EXCEPT ![e.pr] = Mirror!Moved(record[e.pr], event)]
      \/ record' = [record EXCEPT ![e.pr].ci = e.ci]
      \/ record' = [record EXCEPT ![e.pr].review = e.decision]
  BY <1>2 DEF Mirror!HandlePush, Mirror!HandleLifecycle, Mirror!HandleSync, Mirror!HandleCiStatus,
              Mirror!HandleReview, Mirror!HandleComment
<1>6. DOMAIN record' = Prs /\ \A p \in Prs : RowShape(record'[p]) /\ record'[p].cursor = record[p].cursor
  <2>1. CASE record' = record BY <1>3, <2>1 DEF Rows
  <2>2. ASSUME NEW event, record' = [record EXCEPT ![e.pr] = Mirror!Moved(record[e.pr], event)]
        PROVE  /\ DOMAIN record' = Prs
               /\ \A p \in Prs : RowShape(record'[p]) /\ record'[p].cursor = record[p].cursor
    <3>1. DOMAIN record' = Prs BY <1>3, <2>2 DEF Rows
    <3>2. ASSUME NEW p \in Prs PROVE RowShape(record'[p]) /\ record'[p].cursor = record[p].cursor
      <4>1. RowShape(record[p]) BY <1>3 DEF Rows
      <4>2. record'[p] = record[p] \/ record'[p] = Mirror!Moved(record[p], event)
        BY <1>3, <2>2 DEF Rows
      <4> QED BY <4>1, <4>2, RowMoves
    <3> QED BY <3>1, <3>2
  <2>3. CASE record' = [record EXCEPT ![e.pr].ci = e.ci] BY <1>3, <2>3 DEF Rows, RowShape
  <2>4. CASE record' = [record EXCEPT ![e.pr].review = e.decision]
    BY <1>3, <2>4 DEF Rows, RowShape
  <2> QED BY <1>5, <2>1, <2>2, <2>3, <2>4
<1> QED BY <1>1, <1>4, <1>6 DEF Noted

LEMMA WebhookCursor == ASSUME CursorInv, Kinds, Mirror!Webhook PROVE CursorInv'
BY WebhookNotes, NotedKeeps

(* Steps of the poll. *)
LEMMA PollKeeps ==
    ASSUME CursorInv, comments' = comments, record' = record, applied' = applied,
           PollShape', \A p \in Prs : Read(p)' => ReadWhole(p)'
    PROVE  CursorInv'
BY DEF CursorInv, Rows, Mirror!NoneMissed

LEMMA StartCursorPoll ==
    ASSUME CursorInv, NEW ok \in BOOLEAN, Mirror!StartPoll(ok) PROVE CursorInv'
<1>1. polling' = [Mirror!NoPoll EXCEPT !.step = "fetching", !.now = Len(comments),
                     !.prs = Mirror!Open, !.todo = Mirror!Open, !.head = IF ok THEN head ELSE 0]
  BY DEF Mirror!StartPoll
<1>2. Len(comments) \in Nat BY DEF CursorInv
<1>3. Mirror!Open \in SUBSET Prs BY DEF Mirror!Open
<1>4. /\ DOMAIN polling' = PollFields /\ polling'.now = Len(comments)
      /\ polling'.prs = Mirror!Open /\ polling'.todo = Mirror!Open /\ polling'.step = "fetching"
      /\ DOMAIN polling'.seen = Prs
  BY <1>1 DEF Mirror!NoPoll, PollFields
<1>5. comments' = comments /\ record' = record /\ applied' = applied BY DEF Mirror!StartPoll
<1>6. PollShape' BY <1>2, <1>3, <1>4, <1>5 DEF PollShape
<1>7. \A p \in Prs : ~Read(p)' BY <1>4 DEF Read
<1> QED BY <1>5, <1>6, <1>7, PollKeeps

LEMMA FetchCursor ==
    ASSUME CursorInv, NEW p \in Prs, NEW ok \in BOOLEAN, Mirror!FetchPr(p, ok) PROVE CursorInv'
<1>1. PICK readable \in BOOLEAN :
        /\ readable \/ p \in Unreadable
        /\ polling' = [polling EXCEPT !.todo = polling.todo \ {p}, !.seen[p] =
                 [snapshot |-> IF ok THEN <<pull[p]>> ELSE <<>>, from |-> record[p].cursor,
                  to |-> IF readable THEN Len(comments) ELSE record[p].cursor]]
  BY DEF Mirror!FetchPr
<1>2. PollShape /\ Rows /\ Len(comments) \in Nat BY DEF CursorInv
<1>3. comments' = comments /\ record' = record /\ applied' = applied /\ polling.step = "fetching"
  BY DEF Mirror!FetchPr
<1>4. /\ DOMAIN polling' = PollFields /\ polling'.now = polling.now /\ polling'.prs = polling.prs
      /\ polling'.todo = polling.todo \ {p} /\ polling'.step = "fetching"
      /\ DOMAIN polling'.seen = Prs
      /\ \A q \in Prs : q # p => polling'.seen[q] = polling.seen[q]
      /\ polling'.seen[p].from = record[p].cursor
      /\ polling'.seen[p].to = IF readable THEN Len(comments) ELSE record[p].cursor
  BY <1>1, <1>2, <1>3 DEF PollShape, PollFields
<1>5. PollShape' BY <1>2, <1>3, <1>4 DEF PollShape
<1>6. ASSUME NEW q \in Prs, Read(q)' PROVE ReadWhole(q)'
  <2>1. CASE q = p
    <3>1. record[p].cursor \in Nat /\ record[p].cursor <= Len(comments)
      BY DEF CursorInv, Rows, RowShape
    <3>2. polling.now \in Nat /\ polling.now <= Len(comments) BY <1>2 DEF PollShape
    <3> QED BY <1>1, <1>2, <1>3, <1>4, <2>1, <3>1, <3>2 DEF ReadWhole
  <2>2. CASE q # p
    <3>1. Read(q) BY <1>3, <1>4, <1>6, <2>2 DEF Read
    <3> QED BY <1>3, <1>4, <2>2, <3>1 DEF CursorInv, ReadWhole
  <2> QED BY <2>1, <2>2
<1> QED BY <1>3, <1>5, <1>6, PollKeeps

LEMMA EnqueueCursor == ASSUME CursorInv, Mirror!EnqueuePush PROVE CursorInv'
<1>1. /\ comments' = comments /\ record' = record /\ applied' = applied
      /\ polling.step = "fetching" /\ polling.todo = {}
      /\ polling' = [polling EXCEPT !.step = "saving"]
  BY DEF Mirror!EnqueuePush
<1>2. PollShape BY DEF CursorInv
<1>3. /\ DOMAIN polling' = PollFields /\ polling'.now = polling.now /\ polling'.prs = polling.prs
      /\ polling'.step = "saving" /\ polling'.seen = polling.seen
  BY <1>1, <1>2 DEF PollShape, PollFields
<1>4. PollShape' BY <1>1, <1>2, <1>3 DEF PollShape
<1>5. ASSUME NEW p \in Prs, Read(p)' PROVE ReadWhole(p)'
  <2>1. p \in polling.prs \ polling.todo BY <1>1, <1>3, <1>5 DEF Read
  <2>2. ReadWhole(p) BY <1>1, <2>1 DEF CursorInv, Read
  <2> QED BY <1>1, <1>3, <2>2 DEF ReadWhole
<1> QED BY <1>1, <1>4, <1>5, PollKeeps

LEMMA NoPollShape ==
    ASSUME CursorInv, polling' = Mirror!NoPoll, comments' = comments
    PROVE  PollShape' /\ polling'.step = "idle"
<1>1. Len(comments) \in Nat BY DEF CursorInv
<1> QED BY <1>1 DEF Mirror!NoPoll, PollShape, PollFields

LEMMA SaveCursor == ASSUME CursorInv, Mirror!SaveHead PROVE CursorInv'
<1>1. /\ comments' = comments /\ record' = record /\ applied' = applied
      /\ polling.step = "saving"
      /\ polling' = IF polling.prs = {} THEN Mirror!NoPoll
                    ELSE [polling EXCEPT !.step = "applying", !.todo = polling.prs, !.head = 0]
  BY DEF Mirror!SaveHead
<1>2. CASE polling.prs = {}
  <2>1. PollShape' /\ polling'.step = "idle" BY <1>1, <1>2, NoPollShape
  <2>2. \A p \in Prs : ~Read(p)' BY <2>1 DEF Read
  <2> QED BY <1>1, <2>1, <2>2, PollKeeps
<1>3. CASE polling.prs # {}
  <2>1. PollShape BY DEF CursorInv
  <2>2. /\ DOMAIN polling' = PollFields /\ polling'.now = polling.now
        /\ polling'.prs = polling.prs /\ polling'.todo = polling.prs
        /\ polling'.step = "applying" /\ polling'.seen = polling.seen
    BY <1>1, <1>3, <2>1 DEF PollShape, PollFields
  <2>3. PollShape' BY <1>1, <2>1, <2>2 DEF PollShape
  <2>4. ASSUME NEW p \in Prs, Read(p)' PROVE ReadWhole(p)'
    <3>1. p \in polling.prs BY <2>2, <2>4 DEF Read
    <3>2. ReadWhole(p) BY <1>1, <3>1 DEF CursorInv, Read
    <3> QED BY <1>1, <2>2, <3>2 DEF ReadWhole
  <2> QED BY <1>1, <2>3, <2>4, PollKeeps
<1> QED BY <1>2, <1>3

LEMMA ComparedRow ==
    ASSUME NEW row, RowShape(row), NEW snap, NEW row2, row2 = Mirror!Compared(row, snap)
    PROVE  RowShape(row2) /\ row2.cursor = row.cursor
<1> DEFINE event == Mirror!LifecycleEvent(row, snap)
           lived == Mirror!Told(row, event)
           toggled == Mirror!Told(lived, Mirror!DraftEvent(lived, snap))
<1>1. RowShape(lived) /\ lived.cursor = row.cursor BY RowMoves DEF Mirror!Told
<1>2. RowShape(toggled) /\ toggled.cursor = row.cursor
  <2> HIDE DEF lived
  <2> QED BY <1>1, RowMoves DEF Mirror!Told
<1>3. row2 = IF event \in {"merge", "close"} THEN lived
             ELSE [toggled EXCEPT !.head = snap.head, !.ci = Mirror!CiStatus(row, snap),
                       !.review = IF snap.review = "none" THEN toggled.review ELSE snap.review]
  BY DEF Mirror!Compared
<1> HIDE DEF event, lived, toggled
<1> QED BY <1>1, <1>2, <1>3 DEF RowShape

(* What applying a pull request does, without its snapshot. *)
LEMMA Applies ==
    ASSUME CursorInv, NEW p \in Prs, Mirror!ApplyPr(p)
    PROVE  /\ polling.step = "applying" /\ p \in polling.todo /\ comments' = comments
           /\ applied' = applied \cup Mirror!Commands(p)
           /\ muted' = Mirror!MutedBy(Mirror!Commands(p))
           /\ DOMAIN record' = Prs
           /\ RowShape(record'[p]) /\ record'[p].cursor = polling.now
           /\ \A q \in Prs : q # p => record'[q] = record[q]
           /\ polling' = IF polling.todo = {p} THEN Mirror!NoPoll
                         ELSE [polling EXCEPT !.todo = polling.todo \ {p}]
<1>1. PICK row : /\ row = (IF polling.seen[p].snapshot = <<>> THEN record[p]
                           ELSE Mirror!Compared(record[p], polling.seen[p].snapshot[1]))
                 /\ record' = [record EXCEPT ![p] = [row EXCEPT !.cursor = Mirror!Now]]
  BY DEF Mirror!ApplyPr
<1>2. RowShape(record[p]) /\ DOMAIN record = Prs /\ polling.now \in Nat
  BY DEF CursorInv, Rows, PollShape
<1>3. RowShape(row) BY <1>1, <1>2, ComparedRow
<1>4. record'[p] = [row EXCEPT !.cursor = polling.now] BY <1>1, <1>2 DEF Mirror!Now
<1>5. RowShape(record'[p]) /\ record'[p].cursor = polling.now BY <1>2, <1>3, <1>4 DEF RowShape
<1>6. DOMAIN record' = Prs /\ \A q \in Prs : q # p => record'[q] = record[q] BY <1>1, <1>2
<1> QED BY <1>5, <1>6 DEF Mirror!ApplyPr

LEMMA ApplyCursor ==
    ASSUME CursorInv, NEW p \in Prs, Mirror!ApplyPr(p) PROVE CursorInv'
<1>1. /\ polling.step = "applying" /\ p \in polling.todo /\ comments' = comments
      /\ applied' = applied \cup Mirror!Commands(p) /\ DOMAIN record' = Prs
      /\ RowShape(record'[p]) /\ record'[p].cursor = polling.now
      /\ \A q \in Prs : q # p => record'[q] = record[q]
      /\ polling' = IF polling.todo = {p} THEN Mirror!NoPoll
                    ELSE [polling EXCEPT !.todo = polling.todo \ {p}]
  BY Applies
<1>2. Rows /\ PollShape /\ comments \in Seq(Command) BY DEF CursorInv
<1>3. ReadWhole(p) BY <1>1 DEF CursorInv, Read
<1>4. Rows' BY <1>1, <1>2 DEF Rows
<1>5. \A q \in Prs : record'[q].cursor <= Len(comments')
  BY <1>1, <1>2 DEF CursorInv, PollShape
<1>6. PollShape' /\ \A q \in Prs : Read(q)' => ReadWhole(q)'
  <2>1. CASE polling.todo = {p}
    <3>1. PollShape' /\ polling'.step = "idle" BY <1>1, <2>1, NoPollShape
    <3> QED BY <3>1 DEF Read
  <2>2. CASE polling.todo # {p}
    <3>1. /\ DOMAIN polling' = PollFields /\ polling'.now = polling.now
          /\ polling'.prs = polling.prs /\ polling'.todo = polling.todo \ {p}
          /\ polling'.step = "applying" /\ polling'.seen = polling.seen
      BY <1>1, <1>2, <2>2 DEF PollShape, PollFields
    <3>2. PollShape' BY <1>1, <1>2, <3>1 DEF PollShape
    <3>3. ASSUME NEW q \in Prs, Read(q)' PROVE ReadWhole(q)'
      <4>1. q \in polling.todo /\ q # p BY <3>1, <3>3 DEF Read
      <4>2. ReadWhole(q) BY <1>1, <4>1 DEF CursorInv, Read
      <4> QED BY <1>1, <3>1, <4>1, <4>2 DEF ReadWhole
    <3> QED BY <3>2, <3>3
  <2> QED BY <2>1, <2>2
<1>7. Mirror!NoneMissed'
  <2> SUFFICES ASSUME NEW i \in DOMAIN comments,
                      i <= record'[comments[i].pr].cursor, comments[i].pr \notin Unreadable
               PROVE  i \in applied \cup Mirror!Commands(p)
    BY <1>1 DEF Mirror!NoneMissed
  <2>1. i \in Nat /\ i >= 1 /\ comments[i] \in Command BY <1>2
  <2>2. CASE comments[i].pr # p
    <3>1. record'[comments[i].pr] = record[comments[i].pr] BY <1>1, <2>1, <2>2 DEF Command
    <3> QED BY <3>1 DEF CursorInv, Mirror!NoneMissed
  <2>3. CASE comments[i].pr = p
    <3>1. i <= polling.seen[p].to /\ polling.seen[p].from = record[p].cursor
      BY <1>1, <1>2, <1>3, <2>1, <2>3 DEF ReadWhole, PollShape
    <3>2. CASE i <= record[p].cursor BY <2>3, <3>2 DEF CursorInv, Mirror!NoneMissed
    <3>3. CASE ~(i <= record[p].cursor)
      <4>1. record[p].cursor \in Nat /\ polling.seen[p].to \in Nat
        BY <1>2, <1>3 DEF Rows, RowShape, ReadWhole
      <4>2. i \in polling.seen[p].from + 1 .. polling.seen[p].to BY <2>1, <3>1, <3>3, <4>1
      <4> QED BY <2>3, <4>2 DEF Mirror!Commands
    <3> QED BY <3>2, <3>3
  <2> QED BY <2>2, <2>3
<1> QED BY <1>1, <1>2, <1>4, <1>5, <1>6, <1>7 DEF CursorInv

LEMMA CrashCursor == ASSUME CursorInv, Mirror!Crash PROVE CursorInv'
<1>1. comments' = comments /\ record' = record /\ applied' = applied /\ polling' = Mirror!NoPoll
  BY DEF Mirror!Crash
<1>2. PollShape' /\ polling'.step = "idle" BY <1>1, NoPollShape
<1>3. \A p \in Prs : ~Read(p)' BY <1>2 DEF Read
<1> QED BY <1>1, <1>2, <1>3, PollKeeps

LEMMA GitHubWrites ==
    ASSUME \/ Mirror!Push \/ UNCHANGED Mirror!vars
           \/ \E p \in Prs : Mirror!Lifecycle(p) \/ Mirror!Synchronize(p) \/ Mirror!CheckSuite(p)
                             \/ Mirror!Review(p)
    PROVE  Written /\ comments' = comments
BY DEF Mirror!Push, Mirror!Lifecycle, Mirror!Synchronize, Mirror!CheckSuite, Mirror!Review,
       Mirror!MovePull, Mirror!vars, Written

LEMMA CommentWrites == ASSUME NEW p \in Prs, Mirror!Comment(p) PROVE Written
<1>1. PICK v \in Verbs : comments' = Append(comments, [pr |-> p, verb |-> v])
  BY DEF Mirror!Comment
<1>2. [pr |-> p, verb |-> v] \in Command BY DEF Command
<1>3. record' = record /\ polling' = polling /\ applied' = applied BY DEF Mirror!Comment
<1> QED BY <1>1, <1>2, <1>3 DEF Written

LEMMA CursorStep == ASSUME CursorInv, Kinds, [Mirror!Next]_(Mirror!vars) PROVE CursorInv'
<1>1. CASE Mirror!Push \/ UNCHANGED Mirror!vars BY <1>1, GitHubWrites, WrittenKeeps
<1>2. ASSUME NEW p \in Prs, \/ Mirror!Lifecycle(p) \/ Mirror!Synchronize(p)
                            \/ Mirror!CheckSuite(p) \/ Mirror!Review(p)
      PROVE  CursorInv'
  BY <1>2, GitHubWrites, WrittenKeeps
<1>3. ASSUME NEW p \in Prs, Mirror!Comment(p) PROVE CursorInv'
  BY <1>3, CommentWrites, WrittenKeeps
<1>4. CASE Mirror!Webhook BY <1>4, WebhookCursor
<1>5. CASE Mirror!Crash BY <1>5, CrashCursor
<1>6. ASSUME NEW p \in Prs, NEW ok \in BOOLEAN, Mirror!FetchPr(p, ok) PROVE CursorInv'
  BY <1>6, FetchCursor
<1>7. ASSUME NEW ok \in BOOLEAN, Mirror!StartPoll(ok) PROVE CursorInv' BY <1>7, StartCursorPoll
<1>8. CASE Mirror!PollStep
  BY <1>8, EnqueueCursor, SaveCursor, ApplyCursor DEF Mirror!PollStep
<1> QED BY <1>1, <1>2, <1>3, <1>4, <1>5, <1>6, <1>7, <1>8 DEF Mirror!Next

(* No command on a pull request whose comments can be read is passed over by *)
(* its cursor before it was carried out, however webhooks are lost, delayed  *)
(* or reordered and whenever a poll dies: a poll moves the cursor to when it *)
(* began, and reads the comments no earlier.                                 *)
THEOREM NoCommandMissed == Mirror!Spec => []Mirror!NoneMissed
<1>1. Mirror!Init => CursorInv /\ Kinds BY StartCursor DEF Mirror!Init, Kinds
<1>2. CursorInv /\ Kinds /\ [Mirror!Next]_(Mirror!vars) => (CursorInv /\ Kinds)'
  BY CursorStep, KindsStep
<1>3. CursorInv => Mirror!NoneMissed BY DEF CursorInv
<1> QED BY <1>1, <1>2, <1>3, PTL DEF Mirror!Spec

-----------------------------------------------------------------------------
(* The last command *)

LEMMA Smallest ==
    ASSUME NEW X, IsFiniteSet(X), NEW B \in SUBSET SUBSET X, B # {}
    PROVE  \E u \in B : \A v \in SUBSET u : v # u => v \notin B
<1>1. IsWellFoundedOn(StrictSubsetOrdering(X), FiniteSubsetsOf(X))
  BY FS_StrictSubsetOrderingWellFounded
<1>2. FiniteSubsetsOf(X) = SUBSET X BY FS_FiniteSubsetsOfFinite
<1>3. PICK u \in B : \A v \in B : ~(<<v, u>> \in StrictSubsetOrdering(X))
  BY <1>1, <1>2, WFMin
<1>4. ASSUME NEW v \in SUBSET u, v # u, v \in B PROVE FALSE
  BY <1>3, <1>4 DEF StrictSubsetOrdering
<1> QED BY <1>4

(* The largest is the one with the fewest members not below it. *)
LEMMA Largest ==
    ASSUME NEW n \in Nat, NEW X \in SUBSET (1 .. n), X # {}
    PROVE  \E k \in X : \A j \in X : j <= k
<1> DEFINE Up(k) == {i \in X : i >= k}
           B == {Up(k) : k \in X}
<1>1. IsFiniteSet(X)
  <2>1. IsFiniteSet(1 .. n) BY FS_Interval
  <2> QED BY <2>1, FS_Subset
<1>2. B \in SUBSET SUBSET X /\ B # {} OBVIOUS
<1>3. \A u : u \in B <=> \E k \in X : u = Up(k) OBVIOUS
<1> HIDE DEF B
<1>4. PICK u \in B : \A v \in SUBSET u : v # u => v \notin B BY <1>1, <1>2, Smallest
<1>5. PICK k \in X : u = Up(k) BY <1>3
<1>6. ASSUME NEW j \in X, ~(j <= k) PROVE FALSE
  <2>1. j \in Nat /\ k \in Nat /\ j > k BY <1>6
  <2>2. \A i \in X : i \in Nat OBVIOUS
  <2>3. \A i \in X : i >= j => i >= k BY <2>1, <2>2
  <2>4. Up(j) \in SUBSET u BY <1>5, <2>3
  <2>5. k \in u /\ k \notin Up(j) BY <1>5, <2>1
  <2>6. Up(j) \in B BY <1>3
  <2> QED BY <1>4, <2>4, <2>5, <2>6
<1> QED BY <1>6

Orders(numbers) == {i \in numbers : comments[i].verb # "reanalyze"}

IsLast(k, X) == k \in X /\ \A j \in X : j <= k

LEMMA LastIs ==
    ASSUME NEW n \in Nat, NEW X \in SUBSET (1 .. n), NEW k, IsLast(k, X)
    PROVE  (CHOOSE i \in X : \A j \in X : j <= i) = k
<1>1. \A i \in X : (\A j \in X : j <= i) => i = k BY DEF IsLast
<1> QED BY <1>1 DEF IsLast

(* Either nothing muted or unmuted the finding, or the last that did says. *)
Effect ==
    \/ Orders(applied) = {} /\ muted = FALSE
    \/ \E k \in Orders(applied) :
          IsLast(k, Orders(applied)) /\ muted = (comments[k].verb = "ignore")

EffectInv(c) ==
    /\ \A i \in DOMAIN comments : comments[i].pr = c
    /\ applied \subseteq DOMAIN comments
    /\ c \in Prs /\ Read(c) =>
          \/ polling.seen[c].to = polling.seen[c].from
          \/ \A i \in applied : i <= polling.seen[c].to
    /\ Effect

LEMMA InEffect == ASSUME CursorInv, NEW c, EffectInv(c) PROVE Mirror!LastInEffect
<1>1. Len(comments) \in Nat /\ DOMAIN comments = 1 .. Len(comments) BY DEF CursorInv
<1>2. Orders(applied) \in SUBSET (1 .. Len(comments)) BY <1>1 DEF EffectInv, Orders
<1>3. CASE Orders(applied) = {} /\ muted = FALSE BY <1>3 DEF Orders, Mirror!LastInEffect
<1>4. ASSUME NEW k \in Orders(applied), IsLast(k, Orders(applied)),
             muted = (comments[k].verb = "ignore")
      PROVE  Mirror!LastInEffect
  <2>1. (CHOOSE i \in Orders(applied) : \A j \in Orders(applied) : j <= i) = k
    BY <1>1, <1>2, <1>4, LastIs
  <2>2. Mirror!LastInEffect = (muted = (Orders(applied) # {} /\
             comments[CHOOSE i \in Orders(applied) : \A j \in Orders(applied) : j <= i].verb
                = "ignore"))
    BY DEF Mirror!LastInEffect, Orders
  <2>3. Orders(applied) # {} BY <1>4
  <2> QED BY <1>4, <2>1, <2>2, <2>3
<1> QED BY <1>3, <1>4 DEF EffectInv, Effect

(* Steps that carry out no command. *)
LEMMA EffectKept ==
    ASSUME CursorInv, NEW c, EffectInv(c), applied' = applied, muted' = muted,
           \/ comments' = comments
           \/ \E new \in Command : new.pr = c /\ comments' = Append(comments, new),
           c \in Prs /\ Read(c)' =>
             \/ polling'.seen[c].to = polling'.seen[c].from
             \/ \A i \in applied : i <= polling'.seen[c].to
    PROVE  EffectInv(c)'
<1>1. /\ \A i \in DOMAIN comments : i \in DOMAIN comments' /\ comments'[i] = comments[i]
      /\ \A i \in DOMAIN comments' : comments'[i].pr = c
  <2>1. CASE comments' = comments BY <2>1 DEF EffectInv
  <2>2. ASSUME NEW new \in Command, new.pr = c, comments' = Append(comments, new)
        PROVE  /\ \A i \in DOMAIN comments : i \in DOMAIN comments' /\ comments'[i] = comments[i]
               /\ \A i \in DOMAIN comments' : comments'[i].pr = c
    <3>1. comments \in Seq(Command) BY DEF CursorInv
    <3>2. \A i \in DOMAIN comments : i \in DOMAIN comments' /\ comments'[i] = comments[i]
      BY <2>2, <3>1, Longer
    <3>3. ASSUME NEW i \in DOMAIN comments' PROVE comments'[i].pr = c
      <4>1. CASE i \in DOMAIN comments BY <3>2, <4>1 DEF EffectInv
      <4>2. CASE i \notin DOMAIN comments
        <5>1. i = Len(comments) + 1 BY <2>2, <3>1, <3>3, <4>2
        <5>2. comments'[i] = new BY <2>2, <3>1, <5>1
        <5> QED BY <2>2, <5>2
      <4> QED BY <4>1, <4>2
    <3> QED BY <3>2, <3>3
  <2> QED BY <2>1, <2>2
<1>2. applied' \subseteq DOMAIN comments' BY <1>1 DEF EffectInv
<1>3. Orders(applied)' = Orders(applied) BY <1>1 DEF EffectInv, Orders
<1>4. Effect'
  <2>1. CASE Orders(applied) = {} /\ muted = FALSE BY <1>3, <2>1 DEF Effect
  <2>2. ASSUME NEW k \in Orders(applied), IsLast(k, Orders(applied)),
               muted = (comments[k].verb = "ignore")
        PROVE  Effect'
    <3>1. k \in applied /\ comments'[k] = comments[k] BY <1>1, <2>2 DEF EffectInv, Orders
    <3>2. k \in Orders(applied)' /\ IsLast(k, Orders(applied))' BY <1>3, <2>2 DEF IsLast
    <3> QED BY <2>2, <3>1, <3>2 DEF Effect
  <2> QED BY <2>1, <2>2 DEF EffectInv, Effect
<1> QED BY <1>1, <1>2, <1>4 DEF EffectInv

LEMMA ApplyEffect ==
    ASSUME CursorInv, NEW c, EffectInv(c), NEW p \in Prs, Mirror!ApplyPr(p)
    PROVE  EffectInv(c)'
<1> DEFINE numbers == Mirror!Commands(p)
<1>1. /\ polling.step = "applying" /\ p \in polling.todo /\ comments' = comments
      /\ applied' = applied \cup numbers /\ muted' = Mirror!MutedBy(numbers)
      /\ polling' = IF polling.todo = {p} THEN Mirror!NoPoll
                    ELSE [polling EXCEPT !.todo = polling.todo \ {p}]
  BY Applies
<1>2. /\ comments \in Seq(Command) /\ DOMAIN comments = 1 .. Len(comments) /\ Len(comments) \in Nat
      /\ PollShape
      /\ record[p].cursor \in Nat /\ record[p].cursor <= Len(comments)
  BY DEF CursorInv, Rows, RowShape
<1>3. ReadWhole(p) BY <1>1 DEF CursorInv, Read
<1>4. polling.seen[p].from \in Nat /\ polling.seen[p].to \in Nat BY <1>2, <1>3 DEF ReadWhole
<1>5. c \in Prs /\ Read(c)' =>
         /\ c # p /\ Read(c) /\ polling'.seen = polling.seen
  <2> SUFFICES ASSUME c \in Prs, Read(c)' PROVE c # p /\ Read(c) /\ polling'.seen = polling.seen
    OBVIOUS
  <2>1. CASE polling.todo = {p}
    <3>1. polling'.step = "idle" BY <1>1, <2>1 DEF Mirror!NoPoll
    <3> QED BY <3>1 DEF Read
  <2>2. CASE polling.todo # {p}
    <3>1. /\ polling'.todo = polling.todo \ {p} /\ polling'.step = "applying"
          /\ polling'.seen = polling.seen
      BY <1>1, <1>2, <2>2 DEF PollShape, PollFields
    <3> QED BY <1>1, <3>1 DEF Read
  <2> QED BY <2>1, <2>2
<1>6. numbers \subseteq Nat BY <1>4 DEF Mirror!Commands
<1>7. CASE numbers = {}
  <2>1. muted' = muted BY <1>1, <1>7 DEF Mirror!MutedBy
  <2>2. applied' = applied BY <1>1, <1>7
  <2> QED BY <1>1, <1>5, <2>1, <2>2, EffectKept DEF EffectInv
<1>8. CASE numbers # {}
  <2>1. PICK i0 \in numbers : TRUE BY <1>8
  <2>2. /\ i0 \in polling.seen[p].from + 1 .. polling.seen[p].to /\ comments[i0].pr = p
        /\ polling.seen[p].to # polling.seen[p].from
    BY <1>4, <2>1 DEF Mirror!Commands
  <2>3. polling.seen[p].to <= Len(comments) BY <1>3 DEF ReadWhole
  <2>4. numbers \subseteq 1 .. Len(comments) BY <1>2, <1>4, <2>3 DEF Mirror!Commands
  <2>8. p = c BY <1>2, <2>1, <2>2, <2>4 DEF EffectInv
  <2>9. \A i \in applied : i <= polling.seen[p].to
    BY <1>1, <2>2, <2>8 DEF EffectInv, Read
  <2>5. applied' \subseteq DOMAIN comments' BY <1>1, <1>2, <2>4 DEF EffectInv
  <2>6. Orders(applied)' = Orders(applied) \cup Orders(numbers) BY <1>1 DEF Orders
  <2>7. Effect'
    <3>1. CASE Orders(numbers) = {}
      <4>1. muted' = muted BY <1>1, <3>1 DEF Mirror!MutedBy, Orders
      <4>2. Orders(applied)' = Orders(applied) BY <2>6, <3>1
      <4>3. Effect BY DEF EffectInv
      <4> QED BY <1>1, <4>1, <4>2, <4>3 DEF Effect, IsLast
    <3>2. CASE Orders(numbers) # {}
      <4>1. Orders(numbers) \in SUBSET (1 .. Len(comments)) BY <2>4 DEF Orders
      <4>2. PICK k \in Orders(numbers) : \A j \in Orders(numbers) : j <= k
        BY <1>2, <3>2, <4>1, Largest
      <4>3. (CHOOSE i \in Orders(numbers) : \A j \in Orders(numbers) : j <= i) = k
        BY <1>2, <4>1, <4>2, LastIs DEF IsLast
      <4>4. muted' = (comments[k].verb = "ignore")
        <5>1. muted' = Mirror!Muted(CHOOSE i \in Orders(numbers) : \A j \in Orders(numbers) : j <= i)
          BY <1>1, <3>2 DEF Mirror!MutedBy, Orders
        <5>2. comments[k].verb # "reanalyze" BY <4>2 DEF Orders
        <5> QED BY <4>3, <5>1, <5>2 DEF Mirror!Muted
      <4>5. ASSUME NEW j \in Orders(applied) PROVE j <= k
        <5>1. j \in applied /\ j \in 1 .. Len(comments) /\ comments[j].pr = c
          BY <1>2 DEF EffectInv, Orders
        <5>2. k \in numbers /\ k \in Nat /\ k >= polling.seen[p].from + 1
          BY <1>4, <4>2 DEF Orders, Mirror!Commands
        <5>3. CASE j <= polling.seen[p].from BY <1>4, <5>1, <5>2, <5>3
        <5>4. CASE ~(j <= polling.seen[p].from)
          <6>1. j <= polling.seen[p].to BY <2>9, <5>1
          <6>2. j \in polling.seen[p].from + 1 .. polling.seen[p].to BY <1>4, <5>1, <5>4, <6>1
          <6>3. j \in Orders(numbers) BY <2>8, <5>1, <6>2 DEF Mirror!Commands, Orders
          <6> QED BY <4>2, <6>3
        <5> QED BY <5>3, <5>4
      <4>6. IsLast(k, Orders(applied)') BY <2>6, <4>2, <4>5 DEF IsLast
      <4> QED BY <1>1, <4>4, <4>6 DEF Effect, IsLast
    <3> QED BY <3>1, <3>2
  <2> QED BY <1>1, <1>5, <2>8, <2>5, <2>7 DEF EffectInv
<1> QED BY <1>7, <1>8

LEMMA EffectStep ==
    ASSUME CursorInv, Kinds, "comment" \notin Hooks, NEW c, Commented \subseteq {c}, EffectInv(c),
           [Mirror!Next]_(Mirror!vars)
    PROVE  EffectInv(c)'
<1>0. comments \in Seq(Command) /\ Len(comments) \in Nat /\ PollShape
      /\ DOMAIN comments = 1 .. Len(comments)
  BY DEF CursorInv
<1>1. ASSUME applied' = applied, muted' = muted, comments' = comments, polling' = polling
      PROVE  EffectInv(c)'
  BY <1>1, EffectKept DEF EffectInv, Read
<1>2. CASE \/ Mirror!Push \/ UNCHANGED Mirror!vars
           \/ \E p \in Prs : Mirror!Lifecycle(p) \/ Mirror!Synchronize(p) \/ Mirror!CheckSuite(p)
                             \/ Mirror!Review(p)
  <2>1. muted' = muted
    BY <1>2 DEF Mirror!Push, Mirror!Lifecycle, Mirror!Synchronize, Mirror!CheckSuite,
                Mirror!Review, Mirror!MovePull, Mirror!vars
  <2> QED BY <1>1, <1>2, <2>1, GitHubWrites DEF Written
<1>3. ASSUME NEW p \in Prs, Mirror!Comment(p) PROVE EffectInv(c)'
  <2>1. PICK v \in Verbs : comments' = Append(comments, [pr |-> p, verb |-> v])
    BY <1>3 DEF Mirror!Comment
  <2>2. p = c /\ applied' = applied /\ muted' = muted /\ polling' = polling
    BY <1>3 DEF Mirror!Comment
  <2>3. PICK new : new = [pr |-> p, verb |-> v] OBVIOUS
  <2>4. new \in Command /\ new.pr = c /\ comments' = Append(comments, new)
    BY <2>1, <2>2, <2>3 DEF Command
  <2>5. c \in Prs /\ Read(c)' =>
             \/ polling'.seen[c].to = polling'.seen[c].from
             \/ \A i \in applied : i <= polling'.seen[c].to
    BY <2>2 DEF EffectInv, Read
  <2> QED BY <2>2, <2>4, <2>5, EffectKept
<1>4. CASE Mirror!Webhook
  <2>1. PICK e \in events :
          /\ CASE e.kind = "push" -> Mirror!HandlePush(e)
               [] e.kind = "lifecycle" -> Mirror!HandleLifecycle(e)
               [] e.kind = "synchronize" -> Mirror!HandleSync(e)
               [] e.kind = "check_suite" -> Mirror!HandleCiStatus(e)
               [] e.kind = "review" -> Mirror!HandleReview(e)
               [] e.kind = "comment" -> Mirror!HandleComment(e)
          /\ comments' = comments /\ polling' = polling
    BY <1>4 DEF Mirror!Webhook
  <2>2. \/ Mirror!HandlePush(e) \/ Mirror!HandleLifecycle(e) \/ Mirror!HandleSync(e)
        \/ Mirror!HandleCiStatus(e) \/ Mirror!HandleReview(e)
    BY <2>1 DEF Kinds, Mirror!HookKinds
  <2>3. applied' = applied /\ muted' = muted
    BY <2>2 DEF Mirror!HandlePush, Mirror!HandleLifecycle, Mirror!HandleSync,
                Mirror!HandleCiStatus, Mirror!HandleReview
  <2> QED BY <1>1, <2>1, <2>3
<1>5. ASSUME ~Read(c)', applied' = applied, muted' = muted, comments' = comments
      PROVE  EffectInv(c)'
  BY <1>5, EffectKept
<1>6. CASE Mirror!Crash
  <2>1. polling'.step = "idle" BY <1>6 DEF Mirror!Crash, Mirror!NoPoll
  <2> QED BY <1>5, <1>6, <2>1 DEF Mirror!Crash, Read
<1>7. ASSUME NEW ok \in BOOLEAN, Mirror!StartPoll(ok) PROVE EffectInv(c)'
  <2>1. polling'.step = "fetching" /\ polling'.prs = polling'.todo
    BY <1>7 DEF Mirror!StartPoll, Mirror!NoPoll
  <2> QED BY <1>5, <1>7, <2>1 DEF Mirror!StartPoll, Read
<1>8. ASSUME NEW p \in Prs, NEW ok \in BOOLEAN, Mirror!FetchPr(p, ok) PROVE EffectInv(c)'
  <2>1. PICK readable \in BOOLEAN :
          polling' = [polling EXCEPT !.todo = polling.todo \ {p}, !.seen[p] =
                 [snapshot |-> IF ok THEN <<pull[p]>> ELSE <<>>, from |-> record[p].cursor,
                  to |-> IF readable THEN Len(comments) ELSE record[p].cursor]]
    BY <1>8 DEF Mirror!FetchPr
  <2>2. /\ applied' = applied /\ muted' = muted /\ comments' = comments
        /\ polling.step = "fetching"
    BY <1>8 DEF Mirror!FetchPr
  <2>3. /\ polling'.step = "fetching" /\ polling'.prs = polling.prs
        /\ polling'.todo = polling.todo \ {p}
        /\ \A q \in Prs : q # p => polling'.seen[q] = polling.seen[q]
        /\ polling'.seen[p].from = record[p].cursor
        /\ polling'.seen[p].to = IF readable THEN Len(comments) ELSE record[p].cursor
    BY <1>0, <2>1, <2>2 DEF PollShape, PollFields
  <2>4. CASE c = p
    <3>1. \/ polling'.seen[c].to = polling'.seen[c].from
          \/ \A i \in applied : i <= polling'.seen[c].to
      BY <1>0, <2>2, <2>3, <2>4 DEF EffectInv
    <3> QED BY <2>2, <3>1, EffectKept
  <2>5. CASE c # p
    <3>1. c \in Prs /\ Read(c)' => Read(c) BY <2>2, <2>3, <2>5 DEF Read
    <3>2. c \in Prs => polling'.seen[c] = polling.seen[c] BY <2>3, <2>5
    <3>3. c \in Prs /\ Read(c)' =>
             \/ polling'.seen[c].to = polling'.seen[c].from
             \/ \A i \in applied : i <= polling'.seen[c].to
      BY <2>2, <3>1, <3>2 DEF EffectInv
    <3> QED BY <2>2, <3>3, EffectKept
  <2> QED BY <2>4, <2>5
<1>9. ASSUME Mirror!EnqueuePush \/ Mirror!SaveHead PROVE EffectInv(c)'
  <2>1. applied' = applied /\ muted' = muted /\ comments' = comments
    BY <1>9 DEF Mirror!EnqueuePush, Mirror!SaveHead
  <2>2. c \in Prs /\ Read(c)' => Read(c) /\ polling'.seen = polling.seen
    <3>1. CASE Mirror!EnqueuePush
      <4>1. /\ polling.step = "fetching" /\ polling.todo = {}
            /\ polling' = [polling EXCEPT !.step = "saving"]
        BY <3>1 DEF Mirror!EnqueuePush
      <4>2. polling'.prs = polling.prs /\ polling'.step = "saving" /\ polling'.seen = polling.seen
        BY <1>0, <4>1 DEF PollShape, PollFields
      <4> QED BY <4>1, <4>2 DEF Read
    <3>2. CASE Mirror!SaveHead
      <4>1. /\ polling.step = "saving"
            /\ polling' = IF polling.prs = {} THEN Mirror!NoPoll
                  ELSE [polling EXCEPT !.step = "applying", !.todo = polling.prs, !.head = 0]
        BY <3>2 DEF Mirror!SaveHead
      <4>2. CASE polling.prs = {}
        <5>1. polling'.step = "idle" BY <4>1, <4>2 DEF Mirror!NoPoll
        <5> QED BY <5>1 DEF Read
      <4>3. CASE polling.prs # {}
        <5>1. /\ polling'.todo = polling.prs /\ polling'.step = "applying"
              /\ polling'.seen = polling.seen
          BY <1>0, <4>1, <4>3 DEF PollShape, PollFields
        <5> QED BY <4>1, <5>1 DEF Read
      <4> QED BY <4>2, <4>3
    <3> QED BY <1>9, <3>1, <3>2
  <2>3. c \in Prs /\ Read(c)' =>
             \/ polling'.seen[c].to = polling'.seen[c].from
             \/ \A i \in applied : i <= polling'.seen[c].to
    BY <2>1, <2>2 DEF EffectInv
  <2> QED BY <2>1, <2>3, EffectKept
<1>10. ASSUME NEW p \in Prs, Mirror!ApplyPr(p) PROVE EffectInv(c)' BY <1>10, ApplyEffect
<1> QED
  BY <1>2, <1>3, <1>4, <1>6, <1>7, <1>8, <1>9, <1>10 DEF Mirror!Next, Mirror!PollStep

LEMMA StartEffect == ASSUME NEW c, Mirror!Init PROVE EffectInv(c)
<1>1. comments = <<>> /\ applied = {} /\ muted = FALSE /\ polling.step = "idle"
  BY DEF Mirror!Init, Mirror!NoPoll
<1>2. ~Read(c) BY <1>1 DEF Read
<1>3. DOMAIN comments = {} BY <1>1
<1>4. Effect BY <1>1 DEF Effect, Orders
<1> QED BY <1>1, <1>2, <1>3, <1>4 DEF EffectInv

(* While only polls tell the app of commands, and they are written on one     *)
(* pull request, the last of those it carried out is in effect: a poll takes *)
(* them in turn, and never one older than what an earlier poll took.         *)
THEOREM PolledCommandsObeyed ==
    ASSUME "comment" \notin Hooks, NEW CONSTANT c, Commented \subseteq {c}
    PROVE  Mirror!Spec => []Mirror!CommandsObeyed
<1> DEFINE Inv == CursorInv /\ Kinds /\ EffectInv(c)
<1>1. Mirror!Init => Inv BY StartCursor, StartEffect DEF Mirror!Init, Kinds
<1>2. Inv /\ [Mirror!Next]_(Mirror!vars) => Inv' BY CursorStep, KindsStep, EffectStep
<1>3. Inv => Mirror!CommandsObeyed BY InEffect DEF CursorInv, Mirror!CommandsObeyed
<1> QED BY <1>1, <1>2, <1>3, PTL DEF Mirror!Spec


-----------------------------------------------------------------------------
(* The mirror: types, and that it is never ahead of GitHub *)

(* Constants as PollAssumption of PullRequestMirror has them. *)
MirrorConstants ==
    /\ Outcomes \subseteq {"pending", "success", "failure"}
    /\ Decisions \subseteq {"approved", "changes_requested"}
    /\ Touched \subseteq SUBSET Mirror!Engines /\ MaxMirrorOps \in Nat

(* What became of a pull request: a merge is final, and heads only grow. *)
Since(old, new) == (old.state = "merged" => new.state = "merged") /\ old.head <= new.head

(* No row says of its pull request what is not yet true at GitHub. *)
NeverAhead == \A p \in Prs : Since(record[p], pull[p])

(* A webhook under way tells what happened. *)
Heard(e) ==
    CASE e.kind = "push" -> e.head \in 1 .. head /\ e.touched \in SUBSET Mirror!Engines
      [] e.kind = "lifecycle" ->
           e.pr \in Prs /\ e.event \in Moves /\ (e.event = "merge" => pull[e.pr].state = "merged")
      [] e.kind = "synchronize" -> e.pr \in Prs
      [] e.kind = "check_suite" -> e.pr \in Prs /\ e.ci \in Mirror!CI
      [] e.kind = "review" -> e.pr \in Prs /\ e.decision \in Mirror!Reviews
      [] e.kind = "comment" -> e.number \in DOMAIN comments
      [] OTHER -> FALSE

Snapshots == {<<>>} \cup {<<x>> : x \in Mirror!Pull}

Seen == [snapshot : Snapshots, from : Nat, to : Nat]

Polling == [step : {"idle", "fetching", "saving", "applying"}, now : Nat, prs : SUBSET Prs,
            todo : SUBSET Prs, head : Nat, seen : [Prs -> Seen]]

PollOK ==
    /\ polling \in Polling /\ polling.head <= head
    /\ \A p \in Prs : LET seen == polling.seen[p] IN
         /\ seen.to <= Len(comments)
         /\ seen.snapshot # <<>> => Since(seen.snapshot[1], pull[p])

MirrorInv ==
    /\ Mirror!TypeOK /\ head <= counted + 1
    /\ \A e \in events : Heard(e)
    /\ PollOK /\ NeverAhead

LEMMA Transitions ==
    /\ Mirror!PullRequestMachine["external_update"] = [s \in {"open", "draft"} |-> s]
    /\ Mirror!PullRequestMachine["convert_to_draft"] = [s \in {"open"} |-> "draft"]
    /\ Mirror!PullRequestMachine["mark_ready_for_review"] = [s \in {"draft"} |-> "open"]
    /\ Mirror!PullRequestMachine["merge"] = [s \in {"open", "draft"} |-> "merged"]
    /\ Mirror!PullRequestMachine["close"] = [s \in {"open", "draft"} |-> "closed"]
    /\ Mirror!PullRequestMachine["reopen"] = [s \in {"closed"} |-> "open"]
BY DEF Mirror!PullRequestMachine

(* What an event makes of a row. *)
LEMMA RowGoes ==
    ASSUME NEW row \in Mirror!Record, NEW event \in Moves \cup {"external_update"},
           NEW new, new = Mirror!Moved(row, event)
    PROVE  /\ new \in Mirror!Record /\ new.head = row.head
           /\ new.state = "merged" => row.state = "merged" \/ event = "merge"
<1> DEFINE s == Mirror!TryAdvance(Mirror!PullRequestMachine, event, row.state)
<1>1. row.state \in Mirror!PrState BY DEF Mirror!Record
<1>2. s \in Mirror!PrState /\ (s = "merged" => row.state = "merged" \/ event = "merge")
  <2>1. CASE event = "merge"
    BY <1>1, <2>1, Transitions DEF Mirror!TryAdvance, Mirror!Can, Mirror!Advance, Mirror!PrState
  <2>2. CASE event = "close"
    BY <1>1, <2>2, Transitions DEF Mirror!TryAdvance, Mirror!Can, Mirror!Advance, Mirror!PrState
  <2>3. CASE event = "reopen"
    BY <1>1, <2>3, Transitions DEF Mirror!TryAdvance, Mirror!Can, Mirror!Advance, Mirror!PrState
  <2>4. CASE event = "convert_to_draft"
    BY <1>1, <2>4, Transitions DEF Mirror!TryAdvance, Mirror!Can, Mirror!Advance, Mirror!PrState
  <2>5. CASE event = "mark_ready_for_review"
    BY <1>1, <2>5, Transitions DEF Mirror!TryAdvance, Mirror!Can, Mirror!Advance, Mirror!PrState
  <2>6. CASE event = "external_update"
    BY <1>1, <2>6, Transitions DEF Mirror!TryAdvance, Mirror!Can, Mirror!Advance, Mirror!PrState
  <2> QED BY <2>1, <2>2, <2>3, <2>4, <2>5, <2>6 DEF Moves
<1>3. new = [row EXCEPT !.state = s] BY DEF Mirror!Moved
<1> HIDE DEF s
<1> QED BY <1>2, <1>3 DEF Mirror!Record

(* What a snapshot makes of it. *)
LEMMA RowCompared ==
    ASSUME NEW row \in Mirror!Record, NEW snap \in Mirror!Pull,
           NEW new, new = Mirror!Compared(row, snap)
    PROVE  /\ new \in Mirror!Record /\ new.head \in {row.head, snap.head}
           /\ new.state = "merged" => row.state = "merged" \/ snap.state = "merged"
<1> DEFINE event == Mirror!LifecycleEvent(row, snap)
           lived == Mirror!Told(row, event)
           draft == Mirror!DraftEvent(lived, snap)
           toggled == Mirror!Told(lived, draft)
<1>1. /\ event \in {"none"} \cup Moves
      /\ event = "merge" => snap.state = "merged"
  BY DEF Mirror!LifecycleEvent, Moves
<1>2. draft \in {"none", "convert_to_draft", "mark_ready_for_review"}
  <2> HIDE DEF lived
  <2> QED BY DEF Mirror!DraftEvent
<1>3. /\ lived \in Mirror!Record /\ lived.head = row.head
      /\ lived.state = "merged" => row.state = "merged" \/ snap.state = "merged"
  <2> HIDE DEF event
  <2> QED BY <1>1, RowGoes DEF Mirror!Told
<1>4. /\ toggled \in Mirror!Record /\ toggled.head = row.head
      /\ toggled.state = "merged" => row.state = "merged" \/ snap.state = "merged"
  <2> HIDE DEF lived, draft
  <2>1. draft # "none" => draft \in Moves /\ draft # "merge" BY <1>2 DEF Moves
  <2> QED BY <1>3, <2>1, RowGoes DEF Mirror!Told
<1>5. new = IF event \in {"merge", "close"} THEN lived
             ELSE [toggled EXCEPT !.head = snap.head, !.ci = Mirror!CiStatus(row, snap),
                       !.review = IF snap.review = "none" THEN toggled.review ELSE snap.review]
  BY DEF Mirror!Compared
<1>6. /\ Mirror!CiStatus(row, snap) \in Mirror!CI /\ snap.head \in Nat
      /\ snap.review \in Mirror!Reviews
  BY DEF Mirror!CiStatus, Mirror!Pull
<1> HIDE DEF event, lived, toggled
<1> QED BY <1>3, <1>4, <1>5, <1>6 DEF Mirror!Record

(* GitHub goes on. *)
LEMMA HeardOn ==
    ASSUME MirrorInv, NEW e, Heard(e), head \in Nat, head' \in Nat, head <= head',
           \A p \in Prs : Since(pull[p], pull'[p]),
           \A i \in DOMAIN comments : i \in DOMAIN comments'
    PROVE  Heard(e)'
<1>1. \A n \in 1 .. head : n \in 1 .. head' OBVIOUS
<1>2. CASE e.kind = "push" BY <1>1, <1>2 DEF Heard
<1>3. CASE e.kind = "lifecycle" BY <1>3 DEF Heard, Since
<1>4. CASE e.kind = "synchronize" BY <1>4 DEF Heard
<1>5. CASE e.kind = "check_suite" BY <1>5 DEF Heard
<1>6. CASE e.kind = "review" BY <1>6 DEF Heard
<1>7. CASE e.kind = "comment" BY <1>7 DEF Heard
<1> QED BY <1>2, <1>3, <1>4, <1>5, <1>6, <1>7 DEF Heard

LEMMA SinceOn ==
    ASSUME NEW a, NEW b, NEW c, a.head \in Nat, b.head \in Nat, c.head \in Nat,
           Since(a, b), Since(b, c)
    PROVE  Since(a, c)
BY DEF Since

LEMMA PullsTyped ==
    ASSUME MirrorInv, NEW p \in Prs
    PROVE  /\ pull[p] \in Mirror!Pull /\ record[p] \in Mirror!Record
           /\ pull[p].head \in Nat /\ record[p].head \in Nat
           /\ polling.seen[p] \in Seen
           /\ polling.seen[p].snapshot # <<>> =>
                /\ polling.seen[p].snapshot[1] \in Mirror!Pull
                /\ polling.seen[p].snapshot[1].head \in Nat
<1>1. pull[p] \in Mirror!Pull /\ record[p] \in Mirror!Record BY DEF MirrorInv, Mirror!TypeOK
<1>2. pull[p].head \in Nat /\ record[p].head \in Nat BY <1>1 DEF Mirror!Pull, Mirror!Record
<1>3. polling.seen[p] \in Seen BY DEF MirrorInv, PollOK, Polling
<1>4. ASSUME polling.seen[p].snapshot # <<>> PROVE polling.seen[p].snapshot[1] \in Mirror!Pull
  <2>1. PICK x \in Mirror!Pull : polling.seen[p].snapshot = <<x>>
    BY <1>3, <1>4 DEF Seen, Snapshots
  <2> QED BY <2>1
<1>5. polling.seen[p].snapshot # <<>> => polling.seen[p].snapshot[1].head \in Nat
  BY <1>4 DEF Mirror!Pull
<1> QED BY <1>1, <1>2, <1>3, <1>4, <1>5

(* Steps of GitHub: what the app knows stays as true as it was. *)
LEMMA WorldMoves ==
    ASSUME MirrorInv, head \in Nat, head' \in Nat, head <= head',
           \A p \in Prs : pull'[p] \in Mirror!Pull /\ Since(pull[p], pull'[p]),
           Len(comments) \in Nat, Len(comments') \in Nat, Len(comments) <= Len(comments'),
           \A i \in DOMAIN comments : i \in DOMAIN comments',
           NEW e, Heard(e)', Mirror!Sent(e), record' = record, polling' = polling
    PROVE  (\A f \in events : Heard(f))' /\ PollOK' /\ NeverAhead'
<1>1. ASSUME NEW f \in events' PROVE Heard(f)'
  <2>1. f = e \/ f \in events BY DEF Mirror!Sent
  <2>2. ASSUME f \in events PROVE Heard(f)'
    <3>1. Heard(f) BY <2>2 DEF MirrorInv
    <3> QED BY <3>1, HeardOn
  <2> QED BY <2>1, <2>2
<1>2. NeverAhead'
  <2> SUFFICES ASSUME NEW p \in Prs PROVE Since(record[p], pull'[p]) BY DEF NeverAhead
  <2>1. Since(record[p], pull[p]) BY DEF MirrorInv, NeverAhead
  <2>2. pull'[p].head \in Nat BY DEF Mirror!Pull
  <2> QED BY <2>1, <2>2, PullsTyped, SinceOn
<1>3. PollOK'
  <2>1. polling \in Polling /\ polling.head <= head BY DEF MirrorInv, PollOK
  <2>2. polling.head <= head' BY <2>1 DEF Polling
  <2>3. ASSUME NEW p \in Prs
        PROVE  /\ polling.seen[p].to <= Len(comments')
               /\ polling.seen[p].snapshot # <<>> => Since(polling.seen[p].snapshot[1], pull'[p])
    <3>1. /\ polling.seen[p].to <= Len(comments)
          /\ polling.seen[p].snapshot # <<>> => Since(polling.seen[p].snapshot[1], pull[p])
      BY DEF MirrorInv, PollOK
    <3>2. pull'[p].head \in Nat BY DEF Mirror!Pull
    <3>3. polling.seen[p].to \in Nat BY PullsTyped DEF Seen
    <3> QED BY <3>1, <3>2, <3>3, PullsTyped, SinceOn
  <2> QED BY <2>1, <2>2, <2>3 DEF PollOK
<1> QED BY <1>1, <1>2, <1>3

LEMMA MirrorNumbers ==
    ASSUME MirrorInv, MirrorConstants
    PROVE  /\ head \in Nat /\ head >= 1 /\ counted \in Nat /\ counted <= MaxMirrorOps
           /\ MaxMirrorOps \in Nat /\ head <= counted + 1
           /\ polledHead \in Nat /\ polledHead <= head
           /\ baseline \in Nat /\ baseline <= head
           /\ comments \in Seq(Command) /\ Len(comments) \in Nat
           /\ DOMAIN comments = 1 .. Len(comments)
<1>1. MaxMirrorOps \in Nat /\ counted \in 0 .. MaxMirrorOps BY DEF MirrorInv, MirrorConstants, Mirror!TypeOK
<1>2. head \in 1 .. MaxMirrorOps + 1 BY DEF MirrorInv, Mirror!TypeOK
<1>3. polledHead \in 0 .. head /\ baseline \in 0 .. head BY DEF MirrorInv, Mirror!TypeOK
<1>4. comments \in Seq(Command) BY DEF MirrorInv, Mirror!TypeOK, Command
<1>5. Len(comments) \in Nat /\ DOMAIN comments = 1 .. Len(comments) BY <1>4
<1> QED BY <1>1, <1>2, <1>3, <1>5, <1>4 DEF MirrorInv

LEMMA MirrorCounts ==
    ASSUME MirrorInv, MirrorConstants, NEW kind, Mirror!Counted(kind)
    PROVE  counted' = counted + 1 /\ counted' \in 0 .. MaxMirrorOps
BY MirrorNumbers DEF Mirror!Counted

LEMMA PushMirror == ASSUME MirrorInv, MirrorConstants, Mirror!Push PROVE MirrorInv'
<1>1. PICK touched \in Touched :
        Mirror!Sent([kind |-> "push", head |-> head + 1, touched |-> touched])
  BY DEF Mirror!Push
<1>e. PICK e : e = [kind |-> "push", head |-> head + 1, touched |-> touched] OBVIOUS
<1>2. head' = head + 1 /\ head \in Nat /\ head' \in Nat BY MirrorNumbers DEF Mirror!Push
<1>3. Heard(e)'
  <2>1. head + 1 \in 1 .. head' BY <1>2
  <2>2. e.kind = "push" /\ e.head = head + 1 /\ e.touched \in SUBSET Mirror!Engines
    BY <1>e DEF MirrorConstants
  <2> QED BY <2>1, <2>2 DEF Heard
<1>4. /\ pull' = pull /\ comments' = comments /\ record' = record /\ polling' = polling
      /\ polledHead' = polledHead /\ baseline' = baseline /\ asked' = asked /\ muted' = muted
      /\ applied' = applied
  BY DEF Mirror!Push
<1>5. \A p \in Prs : pull'[p] \in Mirror!Pull /\ Since(pull[p], pull'[p])
  BY <1>4, PullsTyped DEF Since
<1>6. (\A f \in events : Heard(f))' /\ PollOK' /\ NeverAhead'
  <2>1. Len(comments) \in Nat /\ head <= head' BY <1>2, MirrorNumbers
  <2>2. Mirror!Sent(e) BY <1>1, <1>e
  <2> QED BY <1>2, <1>3, <1>4, <1>5, <2>1, <2>2, WorldMoves
<1>7. counted' = counted + 1 /\ counted' \in 0 .. MaxMirrorOps
  BY MirrorCounts DEF Mirror!Push
<1>8. head' \in 1 .. MaxMirrorOps + 1 /\ head' <= counted' + 1 BY <1>2, <1>7, MirrorNumbers
<1>9. Mirror!TypeOK'
  <2>1. polledHead' \in 0 .. head' /\ baseline' \in 0 .. head' BY <1>2, <1>4, MirrorNumbers
  <2>2. asked' \subseteq Mirror!Engines \X (1 .. head')
    <3>1. asked \subseteq Mirror!Engines \X (1 .. head) BY DEF MirrorInv, Mirror!TypeOK
    <3>2. 1 .. head \subseteq 1 .. head' BY <1>2
    <3> QED BY <1>4, <3>1, <3>2
  <2> QED BY <1>4, <1>7, <1>8, <2>1, <2>2 DEF MirrorInv, Mirror!TypeOK
<1> QED BY <1>6, <1>8, <1>9 DEF MirrorInv

LEMMA MoveMirror ==
    ASSUME MirrorInv, MirrorConstants, NEW p \in Prs, NEW kind, NEW next \in Mirror!Pull,
           Since(pull[p], next), NEW e, pull'[p] = next => Heard(e)', Mirror!MovePull(p, kind, next, e)
    PROVE  MirrorInv'
<1>1. /\ pull' = [pull EXCEPT ![p] = next] /\ Mirror!Sent(e)
      /\ head' = head /\ comments' = comments /\ record' = record /\ polledHead' = polledHead
      /\ baseline' = baseline /\ asked' = asked /\ muted' = muted /\ applied' = applied
      /\ polling' = polling
  BY DEF Mirror!MovePull
<1>2. pull \in [Prs -> Mirror!Pull] BY DEF MirrorInv, Mirror!TypeOK
<1>3. /\ pull' \in [Prs -> Mirror!Pull] /\ pull'[p] = next
      /\ \A q \in Prs : pull'[q] \in Mirror!Pull /\ Since(pull[q], pull'[q])
  <2>1. pull' \in [Prs -> Mirror!Pull] /\ pull'[p] = next BY <1>1, <1>2
  <2>2. ASSUME NEW q \in Prs PROVE Since(pull[q], pull'[q])
    <3>1. CASE q = p BY <2>1, <3>1
    <3>2. CASE q # p
      <4>1. pull'[q] = pull[q] BY <1>1, <1>2, <3>2
      <4> QED BY <4>1, PullsTyped DEF Since
    <3> QED BY <3>1, <3>2
  <2> QED BY <2>1, <2>2
<1>4. (\A f \in events : Heard(f))' /\ PollOK' /\ NeverAhead'
  <2>1. Len(comments) \in Nat /\ head \in Nat BY MirrorNumbers
  <2> QED BY <1>1, <1>3, <2>1, WorldMoves
<1>5. counted' = counted + 1 /\ counted' \in 0 .. MaxMirrorOps
  BY MirrorCounts DEF Mirror!MovePull
<1>6. head' <= counted' + 1 BY <1>1, <1>5, MirrorNumbers
<1>7. Mirror!TypeOK' BY <1>1, <1>3, <1>5 DEF MirrorInv, Mirror!TypeOK
<1> QED BY <1>4, <1>6, <1>7 DEF MirrorInv

LEMMA PullSteps ==
    ASSUME NEW old \in Mirror!Pull
    PROVE  /\ old.head \in Nat
           /\ \A s \in {"open", "closed", "merged"} : [old EXCEPT !.state = s] \in Mirror!Pull
           /\ [old EXCEPT !.draft = ~old.draft] \in Mirror!Pull
           /\ [old EXCEPT !.head = old.head + 1, !.ci = "none"] \in Mirror!Pull
           /\ \A ci \in Mirror!CI : [old EXCEPT !.ci = ci] \in Mirror!Pull
           /\ \A d \in Mirror!Reviews \ {"review_required"} :
                [old EXCEPT !.review = d] \in Mirror!Pull
<1>1. old.head \in Nat /\ old.draft \in BOOLEAN BY DEF Mirror!Pull
<1>2. \A s \in {"open", "closed", "merged"} : [old EXCEPT !.state = s] \in Mirror!Pull
  BY DEF Mirror!Pull
<1>3. [old EXCEPT !.draft = ~old.draft] \in Mirror!Pull
  <2>1. PICK b \in BOOLEAN : b = ~old.draft BY <1>1
  <2>2. [old EXCEPT !.draft = b] \in Mirror!Pull BY DEF Mirror!Pull
  <2> QED BY <2>1, <2>2
<1>4. [old EXCEPT !.head = old.head + 1, !.ci = "none"] \in Mirror!Pull
  <2>1. PICK n \in Nat : n = old.head + 1 BY <1>1
  <2>2. "none" \in Mirror!CI BY DEF Mirror!CI
  <2>3. [old EXCEPT !.head = n, !.ci = "none"] \in Mirror!Pull BY <2>2 DEF Mirror!Pull
  <2> QED BY <2>1, <2>3
<1>5. \A ci \in Mirror!CI : [old EXCEPT !.ci = ci] \in Mirror!Pull BY DEF Mirror!Pull
<1>6. \A d \in Mirror!Reviews \ {"review_required"} : [old EXCEPT !.review = d] \in Mirror!Pull
  BY DEF Mirror!Pull
<1> QED BY <1>1, <1>2, <1>3, <1>4, <1>5, <1>6

LEMMA LifecycleMirror ==
    ASSUME MirrorInv, MirrorConstants, NEW p \in Prs, Mirror!Lifecycle(p) PROVE MirrorInv'
<1>1. PICK event \in Moves :
        /\ pull[p].state = IF event = "reopen" THEN "closed" ELSE "open"
        /\ Mirror!MovePull(p, "lifecycle",
               CASE event = "merge" -> [pull[p] EXCEPT !.state = "merged"]
                 [] event = "close" -> [pull[p] EXCEPT !.state = "closed"]
                 [] event = "reopen" -> [pull[p] EXCEPT !.state = "open"]
                 [] OTHER -> [pull[p] EXCEPT !.draft = ~pull[p].draft],
               [kind |-> "lifecycle", pr |-> p, event |-> event])
  BY DEF Mirror!Lifecycle, Moves
<1>2. PICK next :
        /\ next = CASE event = "merge" -> [pull[p] EXCEPT !.state = "merged"]
                    [] event = "close" -> [pull[p] EXCEPT !.state = "closed"]
                    [] event = "reopen" -> [pull[p] EXCEPT !.state = "open"]
                    [] OTHER -> [pull[p] EXCEPT !.draft = ~pull[p].draft]
        /\ Mirror!MovePull(p, "lifecycle", next, [kind |-> "lifecycle", pr |-> p, event |-> event])
  BY <1>1
<1>3. pull[p] \in Mirror!Pull /\ pull[p].head \in Nat BY PullsTyped
<1>4. /\ next \in Mirror!Pull /\ next.head = pull[p].head
      /\ event = "merge" => next.state = "merged"
  <2>1. \/ next = [pull[p] EXCEPT !.state = "merged"]
        \/ event # "merge" /\ next = [pull[p] EXCEPT !.state = "closed"]
        \/ event # "merge" /\ next = [pull[p] EXCEPT !.state = "open"]
        \/ event # "merge" /\ next = [pull[p] EXCEPT !.draft = ~pull[p].draft]
    BY <1>2
  <2>2. next \in Mirror!Pull BY <1>3, <2>1, PullSteps
  <2>3. next.head = pull[p].head /\ (event = "merge" => next.state = "merged")
    BY <1>3, <2>1 DEF Mirror!Pull
  <2> QED BY <2>2, <2>3
<1>5. Since(pull[p], next)
  <2>1. pull[p].state # "merged" BY <1>1
  <2> QED BY <1>3, <1>4, <2>1 DEF Since
<1> DEFINE e == [kind |-> "lifecycle", pr |-> p, event |-> event]
<1>6. pull'[p] = next => Heard(e)' BY <1>4 DEF Heard
<1>7. Mirror!MovePull(p, "lifecycle", next, e) BY <1>2
<1> HIDE DEF e
<1> QED BY <1>4, <1>5, <1>6, <1>7, MoveMirror

LEMMA SynchronizeMirror ==
    ASSUME MirrorInv, MirrorConstants, NEW p \in Prs, Mirror!Synchronize(p) PROVE MirrorInv'
<1> DEFINE next == [pull[p] EXCEPT !.head = pull[p].head + 1, !.ci = "none"]
           e == [kind |-> "synchronize", pr |-> p]
<1>1. pull[p] \in Mirror!Pull /\ pull[p].head \in Nat BY PullsTyped
<1>2. next \in Mirror!Pull BY <1>1, PullSteps
<1>3. next.head = pull[p].head + 1 /\ next.state = pull[p].state BY <1>1 DEF Mirror!Pull
<1>4. Mirror!MovePull(p, "synchronize", next, e) BY DEF Mirror!Synchronize
<1>5. Heard(e)' BY DEF Heard
<1> HIDE DEF next, e
<1>6. Since(pull[p], next) BY <1>1, <1>3 DEF Since
<1> QED BY <1>2, <1>4, <1>5, <1>6, MoveMirror

LEMMA CheckMirror ==
    ASSUME MirrorInv, MirrorConstants, NEW p \in Prs, Mirror!CheckSuite(p) PROVE MirrorInv'
<1>1. PICK ci \in Outcomes :
        Mirror!MovePull(p, "check_suite", [pull[p] EXCEPT !.ci = ci],
                        [kind |-> "check_suite", pr |-> p, ci |-> ci])
  BY DEF Mirror!CheckSuite
<1> DEFINE next == [pull[p] EXCEPT !.ci = ci]
           e == [kind |-> "check_suite", pr |-> p, ci |-> ci]
<1>2. pull[p] \in Mirror!Pull /\ pull[p].head \in Nat /\ ci \in Mirror!CI
  BY PullsTyped DEF MirrorConstants, Mirror!CI
<1>3. next \in Mirror!Pull BY <1>2, PullSteps
<1>4. next.head = pull[p].head /\ next.state = pull[p].state BY <1>2 DEF Mirror!Pull
<1>5. Mirror!MovePull(p, "check_suite", next, e) BY <1>1
<1>6. Heard(e)' BY <1>2 DEF Heard
<1> HIDE DEF next, e
<1>7. Since(pull[p], next) BY <1>2, <1>4 DEF Since
<1> QED BY <1>3, <1>5, <1>6, <1>7, MoveMirror

LEMMA ReviewMirror ==
    ASSUME MirrorInv, MirrorConstants, NEW p \in Prs, Mirror!Review(p) PROVE MirrorInv'
<1>1. PICK d \in Decisions :
        Mirror!MovePull(p, "review", [pull[p] EXCEPT !.review = d],
                        [kind |-> "review", pr |-> p, decision |-> d])
  BY DEF Mirror!Review
<1> DEFINE next == [pull[p] EXCEPT !.review = d]
           e == [kind |-> "review", pr |-> p, decision |-> d]
<1>2. pull[p] \in Mirror!Pull /\ pull[p].head \in Nat /\ d \in Mirror!Reviews \ {"review_required"}
  BY PullsTyped DEF MirrorConstants, Mirror!Reviews
<1>3. next \in Mirror!Pull BY <1>2, PullSteps
<1>4. next.head = pull[p].head /\ next.state = pull[p].state BY <1>2 DEF Mirror!Pull
<1>5. Mirror!MovePull(p, "review", next, e) BY <1>1
<1>6. Heard(e)' BY <1>2 DEF Heard
<1> HIDE DEF next, e
<1>7. Since(pull[p], next) BY <1>2, <1>4 DEF Since
<1> QED BY <1>3, <1>5, <1>6, <1>7, MoveMirror

LEMMA CommentMirror ==
    ASSUME MirrorInv, MirrorConstants, NEW p \in Prs, Mirror!Comment(p) PROVE MirrorInv'
<1>1. PICK c \in Command : comments' = Append(comments, c)
  <2>1. PICK v \in Verbs : comments' = Append(comments, [pr |-> p, verb |-> v])
    BY DEF Mirror!Comment
  <2>2. [pr |-> p, verb |-> v] \in Command BY DEF Command
  <2> QED BY <2>1, <2>2
<1>e. PICK e : e = [kind |-> "comment", number |-> Len(comments) + 1] OBVIOUS
<1>2. /\ Mirror!Sent(e) /\ head' = head /\ pull' = pull /\ record' = record
      /\ polledHead' = polledHead /\ baseline' = baseline /\ asked' = asked /\ muted' = muted
      /\ applied' = applied /\ polling' = polling
  BY <1>e DEF Mirror!Comment
<1>3. comments \in Seq(Command) /\ Len(comments) \in Nat BY MirrorNumbers
<1>4. comments' \in Seq(Command) /\ Len(comments') = Len(comments) + 1 BY <1>1, <1>3
<1>5. DOMAIN comments = 1 .. Len(comments) /\ DOMAIN comments' = 1 .. (Len(comments) + 1)
  BY <1>3, <1>4
<1>6. \A i \in DOMAIN comments : i \in DOMAIN comments' BY <1>3, <1>5
<1>7. Heard(e)'
  <2>1. Len(comments) + 1 \in DOMAIN comments' BY <1>3, <1>5
  <2>2. e.kind = "comment" /\ e.number = Len(comments) + 1 BY <1>e
  <2> QED BY <2>1, <2>2 DEF Heard
<1>8. (\A f \in events : Heard(f))' /\ PollOK' /\ NeverAhead'
  <2>1. head \in Nat BY MirrorNumbers
  <2>2. \A q \in Prs : pull'[q] \in Mirror!Pull /\ Since(pull[q], pull'[q])
    BY <1>2, PullsTyped DEF Since
  <2>3. Len(comments') \in Nat /\ Len(comments) <= Len(comments') BY <1>3, <1>4
  <2> QED BY <1>2, <1>3, <1>6, <1>7, <2>1, <2>2, <2>3, WorldMoves
<1>9. counted' = counted + 1 /\ counted' \in 0 .. MaxMirrorOps
  BY MirrorCounts DEF Mirror!Comment
<1>10. head' <= counted' + 1 BY <1>2, <1>9, MirrorNumbers
<1>11. Mirror!TypeOK'
  <2>1. applied' \subseteq DOMAIN comments' BY <1>2, <1>6 DEF MirrorInv, Mirror!TypeOK
  <2> QED BY <1>2, <1>4, <1>9, <2>1 DEF MirrorInv, Mirror!TypeOK, Command
<1> QED BY <1>8, <1>10, <1>11 DEF MirrorInv
(* The app works: GitHub stays as it is. *)
LEMMA AppMoves ==
    ASSUME MirrorInv, head' = head, pull' = pull, comments' = comments, events' \subseteq events
    PROVE  /\ (\A f \in events : Heard(f))'
           /\ polling' = polling => PollOK'
           /\ record' = record => NeverAhead'
<1>1. ASSUME NEW f \in events' PROVE Heard(f)'
  <2>1. Heard(f) BY DEF MirrorInv
  <2> QED BY <2>1 DEF Heard
<1>2. ASSUME polling' = polling PROVE PollOK'
  <2>1. PollOK BY DEF MirrorInv
  <2> QED BY <1>2, <2>1 DEF PollOK
<1>3. ASSUME record' = record PROVE NeverAhead' BY <1>3 DEF MirrorInv, NeverAhead
<1> QED BY <1>1, <1>2, <1>3

LEMMA RowsWritten ==
    ASSUME MirrorInv, pull' = pull, NEW p \in Prs, NEW row \in Mirror!Record,
           record' = [record EXCEPT ![p] = row],
           row.head <= pull[p].head, row.state = "merged" => pull[p].state = "merged"
    PROVE  record' \in [Prs -> Mirror!Record] /\ NeverAhead'
<1>1. record \in [Prs -> Mirror!Record] BY DEF MirrorInv, Mirror!TypeOK
<1>2. record'[p] = row /\ \A q \in Prs : q # p => record'[q] = record[q] BY <1>1
<1>3. \A q \in Prs : Since(record'[q], pull'[q]) BY <1>2 DEF MirrorInv, NeverAhead, Since
<1> QED BY <1>1, <1>3 DEF NeverAhead

LEMMA RowFields ==
    ASSUME NEW row \in Mirror!Record
    PROVE  /\ \A ci \in Mirror!CI : /\ [row EXCEPT !.ci = ci] \in Mirror!Record
                                   /\ [row EXCEPT !.ci = ci].head = row.head
                                   /\ [row EXCEPT !.ci = ci].state = row.state
           /\ \A d \in Mirror!Reviews : /\ [row EXCEPT !.review = d] \in Mirror!Record
                                       /\ [row EXCEPT !.review = d].head = row.head
                                       /\ [row EXCEPT !.review = d].state = row.state
           /\ \A n \in Nat : /\ [row EXCEPT !.cursor = n] \in Mirror!Record
                             /\ [row EXCEPT !.cursor = n].head = row.head
                             /\ [row EXCEPT !.cursor = n].state = row.state
BY DEF Mirror!Record

(* Scans are asked for of heads there are. *)
LEMMA ScansAsked ==
    ASSUME MirrorInv, NEW what \in SUBSET Mirror!Engines, NEW n \in 1 .. head
    PROVE  asked \cup Mirror!Scans(what, n) \subseteq Mirror!Engines \X (1 .. head)
<1>1. asked \subseteq Mirror!Engines \X (1 .. head) BY DEF MirrorInv, Mirror!TypeOK
<1> QED BY <1>1 DEF Mirror!Scans

LEMMA WebhookMirror ==
    ASSUME MirrorInv, MirrorConstants, Mirror!Webhook PROVE MirrorInv'
<1>1. PICK e \in events :
        /\ events' = events \ {e}
        /\ CASE e.kind = "push" -> Mirror!HandlePush(e)
             [] e.kind = "lifecycle" -> Mirror!HandleLifecycle(e)
             [] e.kind = "synchronize" -> Mirror!HandleSync(e)
             [] e.kind = "check_suite" -> Mirror!HandleCiStatus(e)
             [] e.kind = "review" -> Mirror!HandleReview(e)
             [] e.kind = "comment" -> Mirror!HandleComment(e)
  BY DEF Mirror!Webhook
<1>2. /\ head' = head /\ pull' = pull /\ comments' = comments /\ polledHead' = polledHead
      /\ baseline' = baseline /\ polling' = polling /\ counted' = counted
  BY DEF Mirror!Webhook
<1>3. (\A f \in events : Heard(f))' /\ PollOK' /\ (record' = record => NeverAhead')
  BY <1>1, <1>2, AppMoves
<1>4. Heard(e) BY <1>1 DEF MirrorInv
<1>5. /\ record' \in [Prs -> Mirror!Record] /\ NeverAhead'
      /\ asked' \subseteq Mirror!Engines \X (1 .. head)
      /\ muted' \in BOOLEAN /\ applied' \subseteq DOMAIN comments
  <2>1. /\ record \in [Prs -> Mirror!Record] /\ asked \subseteq Mirror!Engines \X (1 .. head)
        /\ muted \in BOOLEAN /\ applied \subseteq DOMAIN comments
    BY DEF MirrorInv, Mirror!TypeOK
  <2>2. CASE e.kind = "push"
    <3>1. Mirror!HandlePush(e) BY <1>1, <2>2
    <3>2. e.touched \in SUBSET Mirror!Engines /\ e.head \in 1 .. head BY <1>4, <2>2 DEF Heard
    <3>3. asked' \subseteq Mirror!Engines \X (1 .. head)
      BY <3>1, <3>2, ScansAsked DEF Mirror!HandlePush
    <3> QED BY <1>3, <2>1, <3>1, <3>3 DEF Mirror!HandlePush
  <2>3. CASE e.kind = "lifecycle"
    <3>1. Mirror!HandleLifecycle(e) BY <1>1, <2>3
    <3>2. e.pr \in Prs /\ e.event \in Moves /\ (e.event = "merge" => pull[e.pr].state = "merged")
      BY <1>4, <2>3 DEF Heard
    <3> DEFINE row == Mirror!Moved(record[e.pr], e.event)
    <3>3. record' = [record EXCEPT ![e.pr] = row] BY <3>1 DEF Mirror!HandleLifecycle
    <3>4. /\ row \in Mirror!Record /\ row.head = record[e.pr].head
          /\ row.state = "merged" => record[e.pr].state = "merged" \/ e.event = "merge"
      BY <2>1, <3>2, RowGoes
    <3> HIDE DEF row
    <3>5. Since(record[e.pr], pull[e.pr]) BY <3>2 DEF MirrorInv, NeverAhead
    <3>6. record' \in [Prs -> Mirror!Record] /\ NeverAhead'
      BY <1>2, <3>2, <3>3, <3>4, <3>5, RowsWritten DEF Since
    <3> QED BY <2>1, <3>1, <3>6 DEF Mirror!HandleLifecycle
  <2>4. CASE e.kind = "synchronize"
    <3>1. Mirror!HandleSync(e) BY <1>1, <2>4
    <3>2. e.pr \in Prs BY <1>4, <2>4 DEF Heard
    <3> DEFINE row == Mirror!Moved(record[e.pr], "external_update")
    <3>3. record' = [record EXCEPT ![e.pr] = row] BY <3>1 DEF Mirror!HandleSync
    <3>4. /\ row \in Mirror!Record /\ row.head = record[e.pr].head
          /\ row.state = "merged" => record[e.pr].state = "merged"
      BY <2>1, <3>2, RowGoes
    <3> HIDE DEF row
    <3>5. Since(record[e.pr], pull[e.pr]) BY <3>2 DEF MirrorInv, NeverAhead
    <3>6. record' \in [Prs -> Mirror!Record] /\ NeverAhead'
      BY <1>2, <3>2, <3>3, <3>4, <3>5, RowsWritten DEF Since
    <3> QED BY <2>1, <3>1, <3>6 DEF Mirror!HandleSync
  <2>5. CASE e.kind = "check_suite"
    <3>1. Mirror!HandleCiStatus(e) BY <1>1, <2>5
    <3>2. e.pr \in Prs /\ e.ci \in Mirror!CI BY <1>4, <2>5 DEF Heard
    <3>3. PICK row \in Mirror!Record :
            /\ record' = [record EXCEPT ![e.pr] = row]
            /\ row.head = record[e.pr].head /\ row.state = record[e.pr].state
      BY <2>1, <3>1, <3>2, RowFields DEF Mirror!HandleCiStatus
    <3>4. Since(record[e.pr], pull[e.pr]) BY <3>2 DEF MirrorInv, NeverAhead
    <3>5. record' \in [Prs -> Mirror!Record] /\ NeverAhead'
      BY <1>2, <3>2, <3>3, <3>4, RowsWritten DEF Since
    <3> QED BY <2>1, <3>1, <3>5 DEF Mirror!HandleCiStatus
  <2>6. CASE e.kind = "review"
    <3>1. Mirror!HandleReview(e) BY <1>1, <2>6
    <3>2. e.pr \in Prs /\ e.decision \in Mirror!Reviews BY <1>4, <2>6 DEF Heard
    <3>3. PICK row \in Mirror!Record :
            /\ record' = [record EXCEPT ![e.pr] = row]
            /\ row.head = record[e.pr].head /\ row.state = record[e.pr].state
      BY <2>1, <3>1, <3>2, RowFields DEF Mirror!HandleReview
    <3>4. Since(record[e.pr], pull[e.pr]) BY <3>2 DEF MirrorInv, NeverAhead
    <3>5. record' \in [Prs -> Mirror!Record] /\ NeverAhead'
      BY <1>2, <3>2, <3>3, <3>4, RowsWritten DEF Since
    <3> QED BY <2>1, <3>1, <3>5 DEF Mirror!HandleReview
  <2>7. CASE e.kind = "comment"
    <3>1. Mirror!HandleComment(e) BY <1>1, <2>7
    <3>2. e.number \in DOMAIN comments BY <1>4, <2>7 DEF Heard
    <3>3. asked' \subseteq Mirror!Engines \X (1 .. head)
      <4>1. head \in 1 .. head /\ {"workflow"} \in SUBSET Mirror!Engines
        BY MirrorNumbers DEF Mirror!Engines
      <4> QED BY <2>1, <3>1, <4>1, ScansAsked DEF Mirror!HandleComment
    <3>4. muted' \in BOOLEAN BY <2>1, <3>1 DEF Mirror!HandleComment, Mirror!Muted
    <3>5. record' = record /\ applied' \subseteq DOMAIN comments
      BY <2>1, <3>1, <3>2 DEF Mirror!HandleComment
    <3> QED BY <1>3, <2>1, <3>3, <3>4, <3>5
  <2> QED BY <1>4, <2>2, <2>3, <2>4, <2>5, <2>6, <2>7 DEF Heard
<1>6. Mirror!TypeOK' BY <1>2, <1>5 DEF MirrorInv, Mirror!TypeOK
<1> QED BY <1>2, <1>3, <1>5, <1>6 DEF MirrorInv

(* Steps of the poll that write no row. *)
LEMMA PollMirror ==
    ASSUME MirrorInv, head' = head, pull' = pull, comments' = comments, record' = record,
           muted' = muted, applied' = applied, events' = events, counted' \in 0 .. MaxMirrorOps,
           head' <= counted' + 1, polledHead' \in 0 .. head, baseline' \in 0 .. head,
           asked' \subseteq Mirror!Engines \X (1 .. head), PollOK'
    PROVE  MirrorInv'
<1>1. (\A f \in events : Heard(f))' /\ NeverAhead' BY AppMoves
<1>2. Mirror!TypeOK' BY DEF MirrorInv, Mirror!TypeOK
<1> QED BY <1>1, <1>2 DEF MirrorInv

LEMMA NoPollOK ==
    ASSUME MirrorInv, MirrorConstants, polling' = Mirror!NoPoll, head' = head,
           comments' = comments
    PROVE  PollOK'
<1>1. Mirror!NotSeen \in Seen /\ Mirror!NotSeen.to = 0 /\ Mirror!NotSeen.snapshot = <<>>
  BY DEF Mirror!NotSeen, Seen, Snapshots
<1>2. Mirror!NoPoll \in Polling
  <2>1. [p \in Prs |-> Mirror!NotSeen] \in [Prs -> Seen] BY <1>1
  <2> QED BY <2>1 DEF Mirror!NoPoll, Polling
<1>3. Mirror!NoPoll.head = 0 /\ \A p \in Prs : Mirror!NoPoll.seen[p] = Mirror!NotSeen
  BY DEF Mirror!NoPoll
<1>4. 0 <= head /\ 0 <= Len(comments) BY MirrorNumbers
<1> QED BY <1>1, <1>2, <1>3, <1>4 DEF PollOK

(* A poll that goes on with what it has read. *)
LEMMA PollGoes ==
    ASSUME MirrorInv, polling' \in Polling, polling'.seen = polling.seen, polling'.head <= head,
           head' = head, pull' = pull, comments' = comments
    PROVE  PollOK'
BY DEF MirrorInv, PollOK

PollSteps == {"idle", "fetching", "saving", "applying"}

LEMMA PollStages ==
    ASSUME NEW a \in Polling, NEW s \in PollSteps, NEW b, b = [a EXCEPT !.step = s]
    PROVE  b \in Polling /\ b.seen = a.seen /\ b.head = a.head
BY DEF Polling, PollSteps

LEMMA PollShrinks ==
    ASSUME NEW a \in Polling, NEW todo \in SUBSET Prs, NEW b, b = [a EXCEPT !.todo = todo]
    PROVE  b \in Polling /\ b.seen = a.seen /\ b.head = a.head
BY DEF Polling

LEMMA PollingTyped ==
    ASSUME MirrorInv
    PROVE  /\ polling \in Polling /\ polling.head \in Nat /\ polling.head <= head
           /\ polling.prs \in SUBSET Prs /\ polling.todo \in SUBSET Prs /\ polling.now \in Nat
BY DEF MirrorInv, PollOK, Polling

LEMMA StartMirror ==
    ASSUME MirrorInv, MirrorConstants, NEW ok \in BOOLEAN, Mirror!StartPoll(ok)
    PROVE  MirrorInv'
<1>1. /\ head' = head /\ pull' = pull /\ comments' = comments /\ record' = record
      /\ muted' = muted /\ applied' = applied /\ events' = events /\ counted' = counted
      /\ polledHead' = polledHead /\ baseline' = baseline /\ asked' = asked
  BY DEF Mirror!StartPoll
<1>2. PICK n \in {0, head} : polling' = [Mirror!NoPoll EXCEPT !.step = "fetching",
          !.now = Len(comments), !.prs = Mirror!Open, !.todo = Mirror!Open, !.head = n]
  BY DEF Mirror!StartPoll
<1>3. /\ Mirror!Open \in SUBSET Prs /\ Len(comments) \in Nat /\ n \in Nat /\ n <= head
      /\ 0 <= Len(comments)
  BY MirrorNumbers DEF Mirror!Open
<1>4. Mirror!NotSeen \in Seen /\ Mirror!NotSeen.to = 0 /\ Mirror!NotSeen.snapshot = <<>>
  BY DEF Mirror!NotSeen, Seen, Snapshots
<1>5. /\ Mirror!NoPoll \in Polling
      /\ \A p \in Prs : Mirror!NoPoll.seen[p] = Mirror!NotSeen
  <2>1. [p \in Prs |-> Mirror!NotSeen] \in [Prs -> Seen] BY <1>4
  <2> QED BY <2>1 DEF Mirror!NoPoll, Polling
<1>6. polling' \in Polling /\ polling'.seen = Mirror!NoPoll.seen /\ polling'.head = n
  BY <1>2, <1>3, <1>5 DEF Polling
<1>7. PollOK'
  <2>1. polling'.head <= head' BY <1>1, <1>3, <1>6
  <2>2. \A p \in Prs : polling'.seen[p] = Mirror!NotSeen BY <1>5, <1>6
  <2>3. ASSUME NEW p \in Prs
        PROVE  /\ polling'.seen[p].to <= Len(comments')
               /\ polling'.seen[p].snapshot # <<>> => Since(polling'.seen[p].snapshot[1], pull'[p])
    BY <1>1, <1>3, <1>4, <2>2
  <2> QED BY <1>6, <2>1, <2>3 DEF PollOK
<1> QED BY <1>1, <1>7, PollMirror DEF MirrorInv, Mirror!TypeOK

LEMMA FetchMirror ==
    ASSUME MirrorInv, MirrorConstants, CursorInv, NEW p \in Prs, NEW ok \in BOOLEAN,
           Mirror!FetchPr(p, ok)
    PROVE  MirrorInv'
<1>1. /\ head' = head /\ pull' = pull /\ comments' = comments /\ record' = record
      /\ muted' = muted /\ applied' = applied /\ events' = events /\ counted' = counted
      /\ polledHead' = polledHead /\ baseline' = baseline /\ asked' = asked
  BY DEF Mirror!FetchPr
<1>2. PICK new :
        /\ polling' = [polling EXCEPT !.todo = polling.todo \ {p}, !.seen[p] = new]
        /\ \E readable \in BOOLEAN :
             new = [snapshot |-> IF ok THEN <<pull[p]>> ELSE <<>>, from |-> record[p].cursor,
                    to |-> IF readable THEN Len(comments) ELSE record[p].cursor]
  BY DEF Mirror!FetchPr
<1>3. /\ record[p].cursor \in Nat /\ record[p].cursor <= Len(comments)
      /\ Len(comments) \in Nat /\ pull[p] \in Mirror!Pull /\ pull[p].head \in Nat
  BY MirrorNumbers, PullsTyped DEF CursorInv, Rows, RowShape
<1>4. /\ new \in Seen /\ new.to <= Len(comments)
      /\ new.snapshot \in {<<>>, <<pull[p]>>}
  <2>1. (IF ok THEN <<pull[p]>> ELSE <<>>) \in Snapshots BY <1>3 DEF Snapshots
  <2> QED BY <1>2, <1>3, <2>1 DEF Seen
<1>5. polling \in Polling /\ polling.head <= head BY PollingTyped
<1>6. polling.seen \in [Prs -> Seen] BY <1>5 DEF Polling
<1>7. /\ polling' \in Polling /\ polling'.head = polling.head
      /\ polling'.seen[p] = new /\ \A q \in Prs : q # p => polling'.seen[q] = polling.seen[q]
  <2>1. [polling.seen EXCEPT ![p] = new] \in [Prs -> Seen] BY <1>4, <1>6
  <2>2. polling' = [polling EXCEPT !.todo = polling.todo \ {p},
                                   !.seen = [polling.seen EXCEPT ![p] = new]]
    BY <1>2, <1>5 DEF Polling
  <2> QED BY <1>5, <1>6, <2>1, <2>2 DEF Polling
<1>8. ASSUME NEW q \in Prs
      PROVE  /\ polling'.seen[q].to <= Len(comments')
             /\ polling'.seen[q].snapshot # <<>> => Since(polling'.seen[q].snapshot[1], pull'[q])
  <2>1. CASE q = p
    <3>1. Since(pull[p], pull[p]) BY <1>3 DEF Since
    <3> QED BY <1>1, <1>4, <1>7, <2>1, <3>1
  <2>2. CASE q # p BY <1>1, <1>7, <2>2 DEF MirrorInv, PollOK
  <2> QED BY <2>1, <2>2
<1>9. PollOK'
  <2>1. polling'.head <= head' BY <1>1, <1>5, <1>7
  <2> QED BY <1>7, <1>8, <2>1 DEF PollOK
<1> QED BY <1>1, <1>9, PollMirror DEF MirrorInv, Mirror!TypeOK

LEMMA EnqueueMirror ==
    ASSUME MirrorInv, MirrorConstants, Mirror!EnqueuePush PROVE MirrorInv'
<1>1. /\ head' = head /\ pull' = pull /\ comments' = comments /\ record' = record
      /\ muted' = muted /\ applied' = applied /\ events' = events /\ counted' = counted
      /\ polledHead' = polledHead /\ baseline' = baseline
      /\ polling' = [polling EXCEPT !.step = "saving"]
      /\ asked' = IF polling.head \in {0, polledHead} \/ polledHead = 0 THEN asked
                  ELSE asked \cup Mirror!Scans(Mirror!Engines, polling.head)
  BY DEF Mirror!EnqueuePush
<1>2. polling \in Polling /\ polling.head \in Nat /\ polling.head <= head BY PollingTyped
<1>3. asked' \subseteq Mirror!Engines \X (1 .. head)
  <2>1. CASE asked' = asked BY <2>1 DEF MirrorInv, Mirror!TypeOK
  <2>2. CASE polling.head # 0 /\ asked' = asked \cup Mirror!Scans(Mirror!Engines, polling.head)
    <3>1. polling.head \in 1 .. head BY <1>2, <2>2, MirrorNumbers
    <3>2. PICK what \in SUBSET Mirror!Engines : what = Mirror!Engines OBVIOUS
    <3> QED BY <2>2, <3>1, <3>2, ScansAsked
  <2> QED BY <1>1, <2>1, <2>2
<1>4. polling' \in Polling /\ polling'.seen = polling.seen /\ polling'.head = polling.head
  BY <1>1, <1>2, PollStages DEF PollSteps
<1>5. PollOK' BY <1>1, <1>2, <1>4, PollGoes
<1> QED BY <1>1, <1>3, <1>5, PollMirror DEF MirrorInv, Mirror!TypeOK

LEMMA SaveMirror == ASSUME MirrorInv, MirrorConstants, Mirror!SaveHead PROVE MirrorInv'
<1>1. /\ head' = head /\ pull' = pull /\ comments' = comments /\ record' = record
      /\ muted' = muted /\ applied' = applied /\ events' = events /\ counted' = counted
      /\ asked' = asked
      /\ polledHead' \in {polledHead, polling.head} /\ baseline' \in {baseline, polling.head}
      /\ polling' = IF polling.prs = {} THEN Mirror!NoPoll
                    ELSE [polling EXCEPT !.step = "applying", !.todo = polling.prs, !.head = 0]
  BY DEF Mirror!SaveHead, Mirror!HeadPolled
<1>2. /\ polling \in Polling /\ polling.head \in Nat /\ polling.head <= head
      /\ polling.prs \in SUBSET Prs
  BY PollingTyped
<1>3. polledHead' \in 0 .. head /\ baseline' \in 0 .. head BY <1>1, <1>2, MirrorNumbers
<1>4. PollOK'
  <2>1. CASE polling.prs = {} BY <1>1, <2>1, NoPollOK
  <2>2. CASE polling.prs # {}
    <3>1. polling' \in Polling /\ polling'.seen = polling.seen /\ polling'.head = 0
      BY <1>1, <1>2, <2>2 DEF Polling
    <3>2. polling'.head <= head BY <3>1, MirrorNumbers
    <3> QED BY <1>1, <3>1, <3>2, PollGoes
  <2> QED BY <2>1, <2>2
<1> QED BY <1>1, <1>3, <1>4, PollMirror DEF MirrorInv, Mirror!TypeOK

LEMMA ApplyMirror ==
    ASSUME MirrorInv, MirrorConstants, NEW p \in Prs, Mirror!ApplyPr(p) PROVE MirrorInv'
<1>1. PICK row : /\ row = (IF polling.seen[p].snapshot = <<>> THEN record[p]
                           ELSE Mirror!Compared(record[p], polling.seen[p].snapshot[1]))
                 /\ record' = [record EXCEPT ![p] = [row EXCEPT !.cursor = polling.now]]
  BY DEF Mirror!ApplyPr, Mirror!Now
<1>2. /\ head' = head /\ pull' = pull /\ comments' = comments /\ events' = events
      /\ counted' = counted /\ polledHead' = polledHead /\ baseline' = baseline
      /\ applied' = applied \cup Mirror!Commands(p) /\ muted' = Mirror!MutedBy(Mirror!Commands(p))
      /\ asked' \in {asked, asked \cup Mirror!Scans({"workflow"}, head)}
      /\ polling' = IF polling.todo = {p} THEN Mirror!NoPoll
                    ELSE [polling EXCEPT !.todo = polling.todo \ {p}]
  BY DEF Mirror!ApplyPr
<1>3. /\ record[p] \in Mirror!Record /\ pull[p].head \in Nat /\ record[p].head \in Nat
      /\ polling.seen[p] \in Seen
      /\ polling.seen[p].snapshot # <<>> => polling.seen[p].snapshot[1] \in Mirror!Pull
  BY PullsTyped
<1>4. Since(record[p], pull[p]) BY DEF MirrorInv, NeverAhead
<1>5. row \in Mirror!Record /\ Since(row, pull[p])
  <2>1. CASE polling.seen[p].snapshot = <<>> BY <1>1, <1>3, <1>4, <2>1
  <2>2. CASE polling.seen[p].snapshot # <<>>
    <3>1. PICK snap \in Mirror!Pull : snap = polling.seen[p].snapshot[1] BY <1>3, <2>2
    <3>2. /\ row \in Mirror!Record /\ row.head \in {record[p].head, snap.head}
          /\ row.state = "merged" => record[p].state = "merged" \/ snap.state = "merged"
      BY <1>1, <1>3, <2>2, <3>1, RowCompared
    <3>3. Since(snap, pull[p]) BY <2>2, <3>1 DEF MirrorInv, PollOK
    <3> QED BY <1>4, <3>2, <3>3 DEF Since
  <2> QED BY <2>1, <2>2
<1>6. record' \in [Prs -> Mirror!Record] /\ NeverAhead'
  <2>1. polling.now \in Nat BY PollingTyped
  <2>2. PICK new \in Mirror!Record : /\ record' = [record EXCEPT ![p] = new]
                                     /\ new.head = row.head /\ new.state = row.state
    BY <1>1, <1>5, <2>1, RowFields
  <2> QED BY <1>2, <1>5, <2>2, RowsWritten DEF Since
<1>7. asked' \subseteq Mirror!Engines \X (1 .. head)
  <2>1. head \in 1 .. head /\ {"workflow"} \in SUBSET Mirror!Engines
    BY MirrorNumbers DEF Mirror!Engines
  <2>2. asked \subseteq Mirror!Engines \X (1 .. head) BY DEF MirrorInv, Mirror!TypeOK
  <2> QED BY <1>2, <2>1, <2>2, ScansAsked
<1>8. muted' \in BOOLEAN
  <2>1. muted \in BOOLEAN BY DEF MirrorInv, Mirror!TypeOK
  <2>2. \A i : Mirror!Muted(i) \in BOOLEAN BY <2>1 DEF Mirror!Muted
  <2>3. Mirror!MutedBy(Mirror!Commands(p)) = muted
        \/ \E i : Mirror!MutedBy(Mirror!Commands(p)) = Mirror!Muted(i)
    BY DEF Mirror!MutedBy
  <2> QED BY <1>2, <2>1, <2>2, <2>3
<1>9. applied' \subseteq DOMAIN comments
  <2>1. polling.seen[p].from \in Nat /\ polling.seen[p].to \in Nat BY <1>3 DEF Seen
  <2>2. polling.seen[p].to <= Len(comments) BY DEF MirrorInv, PollOK
  <2>3. Len(comments) \in Nat /\ DOMAIN comments = 1 .. Len(comments) BY MirrorNumbers
  <2>4. Mirror!Commands(p) \subseteq 1 .. Len(comments) BY <2>1, <2>2, <2>3 DEF Mirror!Commands
  <2>5. applied \subseteq DOMAIN comments BY DEF MirrorInv, Mirror!TypeOK
  <2> QED BY <1>2, <2>3, <2>4, <2>5
<1>10. PollOK'
  <2>1. CASE polling.todo = {p} BY <1>2, <2>1, NoPollOK
  <2>2. CASE polling.todo # {p}
    <3>1. polling \in Polling /\ polling.head <= head /\ polling.todo \ {p} \in SUBSET Prs
      BY PollingTyped
    <3>2. polling' = [polling EXCEPT !.todo = polling.todo \ {p}] BY <1>2, <2>2
    <3>3. polling' \in Polling /\ polling'.seen = polling.seen /\ polling'.head = polling.head
      BY <3>1, <3>2, PollShrinks
    <3> QED BY <1>2, <3>1, <3>3, PollGoes
  <2> QED BY <2>1, <2>2
<1>11. (\A f \in events : Heard(f))' BY <1>2, AppMoves
<1>12. Mirror!TypeOK' BY <1>2, <1>6, <1>7, <1>8, <1>9 DEF MirrorInv, Mirror!TypeOK
<1> QED BY <1>2, <1>6, <1>10, <1>11, <1>12 DEF MirrorInv

LEMMA CrashMirror == ASSUME MirrorInv, MirrorConstants, Mirror!Crash PROVE MirrorInv'
<1>1. /\ head' = head /\ pull' = pull /\ comments' = comments /\ record' = record
      /\ muted' = muted /\ applied' = applied /\ events' = events
      /\ polledHead' = polledHead /\ baseline' = baseline /\ asked' = asked
      /\ polling' = Mirror!NoPoll
  BY DEF Mirror!Crash
<1>2. counted' = counted + 1 /\ counted' \in 0 .. MaxMirrorOps
  BY MirrorCounts DEF Mirror!Crash
<1>3. PollOK' BY <1>1, NoPollOK
<1>4. head' <= counted' + 1 BY <1>1, <1>2, MirrorNumbers
<1> QED BY <1>1, <1>2, <1>3, <1>4, PollMirror DEF MirrorInv, Mirror!TypeOK

LEMMA MirrorStep ==
    ASSUME MirrorInv, MirrorConstants, CursorInv, [Mirror!Next]_(Mirror!vars) PROVE MirrorInv'
<1>1. CASE UNCHANGED Mirror!vars
  <2>1. /\ head' = head /\ pull' = pull /\ comments' = comments /\ record' = record
        /\ muted' = muted /\ applied' = applied /\ events' = events /\ counted' = counted
        /\ polledHead' = polledHead /\ baseline' = baseline /\ asked' = asked
        /\ polling' = polling
    BY <1>1 DEF Mirror!vars
  <2>2. PollOK' BY <2>1, AppMoves
  <2> QED BY <2>1, <2>2, PollMirror DEF MirrorInv, Mirror!TypeOK
<1>2. CASE Mirror!Push BY <1>2, PushMirror
<1>3. CASE Mirror!Webhook BY <1>3, WebhookMirror
<1>4. CASE Mirror!Crash BY <1>4, CrashMirror
<1>5. ASSUME NEW p \in Prs,
             \/ Mirror!Lifecycle(p) \/ Mirror!Synchronize(p) \/ Mirror!CheckSuite(p)
             \/ Mirror!Review(p) \/ Mirror!Comment(p)
      PROVE  MirrorInv'
  BY <1>5, LifecycleMirror, SynchronizeMirror, CheckMirror, ReviewMirror, CommentMirror
<1>6. ASSUME NEW p \in Prs, NEW ok \in BOOLEAN, Mirror!FetchPr(p, ok) PROVE MirrorInv'
  BY <1>6, FetchMirror
<1>7. ASSUME NEW ok \in BOOLEAN, Mirror!StartPoll(ok) PROVE MirrorInv' BY <1>7, StartMirror
<1>8. CASE Mirror!PollStep BY <1>8, EnqueueMirror, SaveMirror, ApplyMirror DEF Mirror!PollStep
<1> QED BY <1>1, <1>2, <1>3, <1>4, <1>5, <1>6, <1>7, <1>8 DEF Mirror!Next

LEMMA StartOfMirror == ASSUME MirrorConstants, Mirror!Init PROVE MirrorInv
<1>1. /\ head = 1 /\ comments = <<>> /\ polledHead = 0 /\ baseline = 0 /\ asked = {}
      /\ muted = FALSE /\ applied = {} /\ events = {} /\ polling = Mirror!NoPoll /\ counted = 0
  BY DEF Mirror!Init
<1>2. /\ pull \in [Prs -> Mirror!Pull] /\ record \in [Prs -> Mirror!Record]
      /\ \A p \in Prs : pull[p].head = 1 /\ record[p].head = 0 /\ record[p].state = "open"
  BY DEF Mirror!Init, Mirror!Pull, Mirror!Record, Mirror!CI, Mirror!Reviews, Mirror!PrState
<1>3. /\ MaxMirrorOps \in Nat /\ comments \in Seq(Command) /\ Len(comments) = 0
      /\ DOMAIN comments = {}
  BY <1>1 DEF MirrorConstants
<1>4. head \in 1 .. MaxMirrorOps + 1 /\ 0 \in 0 .. head /\ 0 \in 0 .. MaxMirrorOps
  BY <1>1, <1>3
<1>5. Mirror!TypeOK BY <1>1, <1>2, <1>3, <1>4 DEF Mirror!TypeOK, Command
<1>6. NeverAhead BY <1>2 DEF NeverAhead, Since
<1>7. PollOK
  <2>1. Mirror!NotSeen \in Seen /\ Mirror!NotSeen.to = 0 /\ Mirror!NotSeen.snapshot = <<>>
    BY DEF Mirror!NotSeen, Seen, Snapshots
  <2>2. [p \in Prs |-> Mirror!NotSeen] \in [Prs -> Seen] BY <2>1
  <2>3. /\ polling \in Polling /\ polling.head = 0
        /\ \A p \in Prs : polling.seen[p] = Mirror!NotSeen
    BY <1>1, <2>2 DEF Mirror!NoPoll, Polling
  <2> QED BY <1>1, <1>3, <2>1, <2>3 DEF PollOK
<1>8. head <= counted + 1 /\ \A e \in events : Heard(e) BY <1>1
<1> QED BY <1>5, <1>6, <1>7, <1>8 DEF MirrorInv

LEMMA MirrorAlways ==
    ASSUME MirrorConstants PROVE Mirror!Spec => [](MirrorInv /\ CursorInv)
<1> DEFINE Inv == MirrorInv /\ CursorInv /\ Kinds
<1>1. Mirror!Init => Inv BY StartOfMirror, StartCursor DEF Mirror!Init, Kinds
<1>2. Inv /\ [Mirror!Next]_(Mirror!vars) => Inv' BY MirrorStep, CursorStep, KindsStep
<1>3. Inv => MirrorInv /\ CursorInv OBVIOUS
<1> QED BY <1>1, <1>2, <1>3, PTL DEF Mirror!Spec

(* Every variable of the mirror has its type: scans are asked for of heads   *)
(* there are, and only commands that were written are carried out.           *)
THEOREM MirrorTypes == ASSUME MirrorConstants PROVE Mirror!Spec => []Mirror!TypeOK
<1>1. MirrorInv => Mirror!TypeOK BY DEF MirrorInv
<1> QED BY <1>1, MirrorAlways, PTL

(* A record says merged, or names a head, only after GitHub did, whatever     *)
(* webhooks are lost, delayed or reordered and whatever a poll read before.   *)
THEOREM RecordNotAhead == ASSUME MirrorConstants PROVE Mirror!Spec => []NeverAhead
<1>1. MirrorInv => NeverAhead BY DEF MirrorInv
<1> QED BY <1>1, MirrorAlways, PTL

(* While a poll is under way no cursor is beyond the time it began. *)
PollIsLast == polling.step # "idle" => \A p \in Prs : record[p].cursor <= polling.now

CursorsGrow == \A p \in Prs : record[p].cursor <= record'[p].cursor

CursorsAdvance == [][CursorsGrow]_(Mirror!vars)

LEMMA CursorKept ==
    ASSUME CursorInv, \A p \in Prs : record'[p].cursor = record[p].cursor,
           PollIsLast, polling'.step = "idle" \/ (polling.step # "idle" /\ polling'.now = polling.now)
    PROVE  PollIsLast' /\ CursorsGrow
BY DEF PollIsLast, CursorsGrow, CursorInv, Rows, RowShape

LEMMA CursorGrows ==
    ASSUME CursorInv, Kinds, PollIsLast, [Mirror!Next]_(Mirror!vars)
    PROVE  PollIsLast' /\ CursorsGrow
<1>1. ASSUME record' = record, polling' = polling PROVE PollIsLast' /\ CursorsGrow
  BY <1>1 DEF PollIsLast, CursorsGrow, CursorInv, Rows, RowShape
<1>2. CASE Mirror!Push \/ UNCHANGED Mirror!vars BY <1>1, <1>2, GitHubWrites DEF Written
<1>3. ASSUME NEW p \in Prs, \/ Mirror!Lifecycle(p) \/ Mirror!Synchronize(p)
                            \/ Mirror!CheckSuite(p) \/ Mirror!Review(p)
      PROVE  PollIsLast' /\ CursorsGrow
  BY <1>1, <1>3, GitHubWrites DEF Written
<1>4. ASSUME NEW p \in Prs, Mirror!Comment(p) PROVE PollIsLast' /\ CursorsGrow
  BY <1>1, <1>4, CommentWrites DEF Written
<1>5. CASE Mirror!Webhook
  <2>1. Noted BY <1>5, WebhookNotes
  <2>2. polling' = polling /\ \A p \in Prs : record'[p].cursor = record[p].cursor
    BY <2>1 DEF Noted
  <2> QED BY <2>2 DEF PollIsLast, CursorsGrow, CursorInv, Rows, RowShape
<1>6. CASE Mirror!Crash
  <2>1. record' = record /\ polling'.step = "idle" BY <1>6 DEF Mirror!Crash, Mirror!NoPoll
  <2> QED BY <2>1, CursorKept
<1>7. ASSUME NEW p \in Prs, NEW ok \in BOOLEAN, Mirror!FetchPr(p, ok)
      PROVE  PollIsLast' /\ CursorsGrow
  <2>1. record' = record /\ polling.step = "fetching" BY <1>7 DEF Mirror!FetchPr
  <2>2. polling'.now = polling.now BY <1>7 DEF Mirror!FetchPr, CursorInv, PollShape, PollFields
  <2> QED BY <2>1, <2>2, CursorKept
<1>8. ASSUME NEW ok \in BOOLEAN, Mirror!StartPoll(ok) PROVE PollIsLast' /\ CursorsGrow
  <2>1. record' = record /\ polling'.now = Len(comments)
    BY <1>8 DEF Mirror!StartPoll, Mirror!NoPoll
  <2>2. \A p \in Prs : record[p].cursor \in Nat /\ record[p].cursor <= Len(comments)
    BY DEF CursorInv, Rows, RowShape
  <2> QED BY <2>1, <2>2 DEF PollIsLast, CursorsGrow
<1>9. CASE Mirror!EnqueuePush
  <2>1. record' = record /\ polling.step = "fetching" BY <1>9 DEF Mirror!EnqueuePush
  <2>2. polling'.now = polling.now BY <1>9 DEF Mirror!EnqueuePush, CursorInv, PollShape, PollFields
  <2> QED BY <2>1, <2>2, CursorKept
<1>10. CASE Mirror!SaveHead
  <2>1. record' = record /\ polling.step = "saving" BY <1>10 DEF Mirror!SaveHead
  <2>2. polling'.step = "idle" \/ polling'.now = polling.now
    BY <1>10 DEF Mirror!SaveHead, Mirror!NoPoll, CursorInv, PollShape, PollFields
  <2> QED BY <2>1, <2>2, CursorKept
<1>11. ASSUME NEW p \in Prs, Mirror!ApplyPr(p) PROVE PollIsLast' /\ CursorsGrow
  <2>1. /\ polling.step = "applying"
        /\ record'[p].cursor = polling.now
        /\ \A q \in Prs : q # p => record'[q] = record[q]
        /\ polling' = IF polling.todo = {p} THEN Mirror!NoPoll
                      ELSE [polling EXCEPT !.todo = polling.todo \ {p}]
    BY <1>11, Applies
  <2>2. polling'.step = "idle" \/ polling'.now = polling.now
    BY <2>1 DEF Mirror!NoPoll, CursorInv, PollShape, PollFields
  <2>3. polling.now \in Nat /\ \A q \in Prs : record[q].cursor \in Nat /\ record[q].cursor <= polling.now
    BY <2>1 DEF PollIsLast, CursorInv, PollShape, Rows, RowShape
  <2>4. \A q \in Prs : /\ record'[q].cursor \in {record[q].cursor, polling.now}
                       /\ record'[q].cursor <= polling.now
    BY <2>1, <2>3
  <2>5. CursorsGrow BY <2>3, <2>4 DEF CursorsGrow
  <2> QED BY <2>2, <2>4, <2>5 DEF PollIsLast
<1> QED
  BY <1>2, <1>3, <1>4, <1>5, <1>6, <1>7, <1>8, <1>9, <1>10, <1>11 DEF Mirror!Next, Mirror!PollStep

(* The time up to which the comments of a pull request were read never goes  *)
(* back, whenever a poll dies between two pull requests: what it was moved   *)
(* past is not read again.                                                   *)
THEOREM CursorsNeverRewind == Mirror!Spec => CursorsAdvance
<1> DEFINE Inv == CursorInv /\ Kinds /\ PollIsLast
<1>1. Mirror!Init => Inv
  <2>1. Mirror!Init => PollIsLast BY DEF Mirror!Init, Mirror!NoPoll, PollIsLast
  <2> QED BY <2>1, StartCursor DEF Mirror!Init, Kinds
<1>2. Inv /\ [Mirror!Next]_(Mirror!vars) => Inv' /\ CursorsGrow
  BY CursorStep, KindsStep, CursorGrows
<1> QED BY <1>1, <1>2, PTL DEF Mirror!Spec, CursorsAdvance
=============================================================================
