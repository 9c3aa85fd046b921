----------------------------- MODULE FixBranch -----------------------------
(***************************************************************************)
(* A fix branch at GitHub: one file of the base branch, the branch the bot *)
(* rebuilds on every delivery, its pull requests, and the one record of    *)
(* them, which deliveries, webhooks and the poller write.  Users push,     *)
(* delete, merge, close and reopen at any moment between the calls.        *)
(*                                                                         *)
(* A content is an integer: 0 is no file, each push of a user makes a new  *)
(* positive one, and -v is what the generator made of v.                   *)
(***************************************************************************)
EXTENDS Integers, Sequences, FiniteSets

CONSTANTS
    Deliveries,   \* delivery tasks that may run at once
    Fetched,      \* the base is fetched at delivery (file engines), not kept
                  \* with the rewrite (workflow fixes)
    Ops,          \* the kinds of event this instance allows
    MaxOps        \* how many of them may happen

OpKinds == {"push", "delete", "generate", "deliver", "commit", "unbranch",
            "merge", "close", "reopen", "draft", "open", "crash"}

ASSUME BoundsAssumption == Fetched \in BOOLEAN /\ Ops \subseteq OpKinds /\ MaxOps \in Nat

S == INSTANCE StateMachines

VARIABLES
    base,      \* the file's content on the base branch
    versions,  \* contents pushed by users so far
    fix,       \* the content the ready rewrite was made of; 0 without one
    branch,    \* the fix branch
    tips,      \* commits pushed to the fix branch so far
    gh,        \* the pull requests opened from it, oldest first
    told,      \* what webhooks have to tell
    rec,       \* the PullRequest record
    poll,      \* what the poller has fetched and not yet applied
    task,      \* task[d]: the delivery in slot d
    ops        \* counted events so far

vars == <<base, versions, fix, branch, tips, gh, told, rec, poll, task, ops>>

Rewrite(v) == -v

-----------------------------------------------------------------------------
(* GitHub *)

(* on: the content on the commit the branch was built on.  from: what the   *)
(* delivered rewrite was made of.  tip: the head commit, 0 without a branch. *)
Branch == [tip : Nat, user : BOOLEAN, on : Int, from : Int]

NoBranch == [tip |-> 0, user |-> FALSE, on |-> 0, from |-> 0]

PrState == S!PrState

Live == {"open", "draft"}

OpenPr == {n \in DOMAIN gh : gh[n].state \in Live}

NewPr == [state |-> "open", past |-> {"open"}]

Become(n, s) == [gh EXCEPT ![n] = [state |-> s, past |-> @.past \cup {s}]]

Counted(kind) == kind \in Ops /\ ops < MaxOps /\ ops' = ops + 1

Elsewhere == UNCHANGED <<fix, rec, poll, task>>

UserPushes ==
    /\ Counted("push")
    /\ versions' = versions + 1
    /\ base' = versions'
    /\ Elsewhere /\ UNCHANGED <<branch, tips, gh, told>>

UserDeletes ==
    /\ Counted("delete") /\ base # 0
    /\ base' = 0
    /\ Elsewhere /\ UNCHANGED <<versions, branch, tips, gh, told>>

UserCommits ==
    /\ Counted("commit") /\ branch.tip # 0
    /\ tips' = tips + 1
    /\ branch' = [branch EXCEPT !.tip = tips', !.user = TRUE]
    /\ Elsewhere /\ UNCHANGED <<base, versions, gh, told>>

(* GitHub closes the pull request of a branch that goes, and tells of both. *)
BranchDeleted ==
    /\ Counted("unbranch") /\ branch.tip # 0
    /\ branch' = NoBranch
    /\ IF OpenPr = {} THEN gh' = gh /\ told' = told \cup {<<"delete", 0>>}
       ELSE \E n \in OpenPr : /\ gh' = Become(n, "closed")
                              /\ told' = told \cup {<<"delete", 0>>, <<"close", n>>}
    /\ Elsewhere /\ UNCHANGED <<base, versions, tips>>

(* A merge is clean when the base did not move under the branch. *)
UserMerges ==
    /\ Counted("merge") /\ branch.tip # 0 /\ base = branch.on
    /\ \E n \in OpenPr :
          /\ gh[n].state = "open"
          /\ gh' = Become(n, "merged") /\ told' = told \cup {<<"merge", n>>}
    /\ base' = Rewrite(branch.from)
    /\ Elsewhere /\ UNCHANGED <<versions, branch, tips>>

UserMovesPr(kind, event, states) ==
    /\ Counted(kind)
    /\ \E n \in DOMAIN gh :
          /\ gh[n].state \in states /\ S!Can(S!PullRequestMachine, event, gh[n].state)
          /\ gh' = Become(n, S!Advance(S!PullRequestMachine, event, gh[n].state))
          /\ told' = told \cup {<<event, n>>}
    /\ Elsewhere /\ UNCHANGED <<base, versions, branch, tips>>

UserCloses == UserMovesPr("close", "close", Live)

UserReopens == OpenPr = {} /\ branch.tip # 0 /\ UserMovesPr("reopen", "reopen", {"closed"})

UserDrafts == \/ UserMovesPr("draft", "convert_to_draft", Live)
              \/ UserMovesPr("draft", "mark_ready_for_review", Live)

(* By hand, from a branch the bot has pushed. *)
UserOpens ==
    /\ Counted("open") /\ OpenPr = {} /\ branch.tip # 0
    /\ gh' = Append(gh, NewPr) /\ told' = told \cup {<<"opened", Len(gh) + 1>>}
    /\ Elsewhere /\ UNCHANGED <<base, versions, branch, tips>>

-----------------------------------------------------------------------------
(* The record: pr_url names the pull request num *)

Record == [num : Nat, state : PrState]

NoRecord == [num |-> 0, state |-> "open"]

CloseIsMerge(event) == IF event = "close" THEN "merge" ELSE event

Event(event) == event

Moved(event) == [rec EXCEPT !.state = S!TryAdvance(S!PullRequestMachine, Event(event), @)]

EventOnly == UNCHANGED <<base, versions, fix, branch, tips, gh, told, poll, task, ops>>

(* A webhook, which may come late, twice, out of order, or never.  One that *)
(* names another pull request than the record's finds no record.            *)
PullRequestEvent ==
    /\ \E m \in told :
         \/ /\ m[1] = "opened"
            /\ rec' = IF rec.num = 0 THEN [num |-> m[2], state |-> "open"] ELSE Moved("reopen")
         \/ m[1] \notin {"opened", "delete"} /\ rec.num = m[2] /\ rec' = Moved(m[1])
    /\ EventOnly

(* A deletion names the branch, and closes its record whatever has become   *)
(* of the pull request.                                                     *)
DeleteEvent ==
    /\ <<"delete", 0>> \in told /\ rec.num # 0
    /\ rec' = Moved("close")
    /\ EventOnly

NoPoll == [num |-> 0, state |-> "open"]

(* The poller asks GitHub about a record that is open or a draft ... *)
PollSnapshot ==
    /\ poll = NoPoll /\ rec.num # 0 /\ rec.state \in Live
    /\ poll' = [num |-> rec.num, state |-> gh[rec.num].state]
    /\ UNCHANGED <<base, versions, fix, branch, tips, gh, told, rec, task, ops>>

LifecycleEvent ==
    CASE poll.state = "merged" /\ rec.state # "merged" -> {"merge"}
      [] poll.state = "closed" /\ rec.state \in Live -> {"close"}
      [] poll.state \in Live /\ rec.state = "closed" -> {"reopen"}
      [] poll.state = "draft" /\ rec.state = "open" -> {"convert_to_draft"}
      [] poll.state = "open" /\ rec.state = "draft" -> {"mark_ready_for_review"}
      [] OTHER -> {}

(* ... and applies the answer to the record as it is by then. *)
PollApply ==
    /\ poll # NoPoll
    /\ poll' = NoPoll
    /\ IF LifecycleEvent = {} THEN UNCHANGED rec
       ELSE \E event \in LifecycleEvent : rec' = Moved(event)
    /\ UNCHANGED <<base, versions, fix, branch, tips, gh, told, task, ops>>

-----------------------------------------------------------------------------
(* Generation and delivery *)

(* The file is read, and the rewrite stored with what it was made of. *)
Generate ==
    /\ Counted("generate") /\ base > 0
    /\ fix' = base
    /\ UNCHANGED <<base, versions, branch, tips, gh, told, rec, poll, task>>

(* from: the rewrite to push.  expected: what the file should still hold, 0 *)
(* for no expectation.  sha: the content on the base commit.  open: the     *)
(* open pull request found, 0 for none.  tip: the branch's head found.      *)
Task == [stage : {"idle", "loaded", "based", "fresh", "listed", "checked", "pushed", "opened"},
         force : BOOLEAN, from : Int, expected : Int, sha : Int, open : Nat, tip : Nat]

Idle == [stage |-> "idle", force |-> FALSE, from |-> 0, expected |-> 0, sha |-> 0,
         open |-> 0, tip |-> 0]

At(d, stage) == task[d].stage = stage

Goes(d, next) == task' = [task EXCEPT ![d] = next]

Ends(d) == Goes(d, Idle)

DeliveryOnly == UNCHANGED <<base, versions, fix, poll>>

(* A closed pull request is a rejection, unless the user forces it. *)
Deliver ==
    /\ Counted("deliver") /\ fix # 0
    /\ \E d \in Deliveries, force \in BOOLEAN :
         /\ At(d, "idle") /\ (force \/ rec.num = 0 \/ rec.state # "closed")
         /\ Goes(d, [Idle EXCEPT !.stage = "loaded", !.force = force, !.from = fix,
                                 !.expected = IF Fetched THEN base ELSE fix])
    /\ DeliveryOnly /\ UNCHANGED <<branch, tips, gh, told, rec>>

ReadBase(d) ==
    /\ At(d, "loaded")
    /\ Goes(d, [task[d] EXCEPT !.stage = "based", !.sha = base])
    /\ DeliveryOnly /\ UNCHANGED <<branch, tips, gh, told, rec, ops>>

NeverStale(d) == FALSE

Stale(d) == task[d].expected # 0 /\ base # 0 /\ base # task[d].expected

CheckFresh(d) ==
    /\ At(d, "based")
    /\ Goes(d, IF Stale(d) THEN Idle ELSE [task[d] EXCEPT !.stage = "fresh"])
    /\ DeliveryOnly /\ UNCHANGED <<branch, tips, gh, told, rec, ops>>

ListPulls(d) ==
    /\ At(d, "fresh")
    /\ \/ \E n \in OpenPr : Goes(d, [task[d] EXCEPT !.stage = "listed", !.open = n])
       \/ OpenPr = {} /\ Goes(d, [task[d] EXCEPT !.stage = "listed"])
    /\ DeliveryOnly /\ UNCHANGED <<branch, tips, gh, told, rec, ops>>

NobodysCommits(d) == FALSE

UserCommitsFound(d) == branch.user /\ ~task[d].force

RefuseToOverwrite(d) ==
    /\ At(d, "listed")
    /\ Goes(d, IF UserCommitsFound(d) THEN Idle
               ELSE [task[d] EXCEPT !.stage = "checked", !.tip = branch.tip])
    /\ DeliveryOnly /\ UNCHANGED <<branch, tips, gh, told, rec, ops>>

(* The rewrite is what the base commit holds already. *)
NothingToDeliver(d) == task[d].sha = Rewrite(task[d].from)

(* A branch that was not there is created, one that was is moved. *)
RefMoves(d) == (task[d].tip = 0) = (branch.tip = 0)

(* The new history is built on the base commit, then the ref moves once. *)
Rebase(d) ==
    /\ At(d, "checked") /\ ~NothingToDeliver(d) /\ RefMoves(d)
    /\ tips' = tips + 1
    /\ branch' = [tip |-> tips', user |-> FALSE, on |-> task[d].sha, from |-> task[d].from]
    /\ Goes(d, [task[d] EXCEPT !.stage = "pushed"])
    /\ DeliveryOnly /\ UNCHANGED <<gh, told, rec, ops>>

(* An open pull request is left as it is. *)
KeepPull(d) ==
    /\ At(d, "checked") /\ NothingToDeliver(d)
    /\ Goes(d, IF task[d].open = 0 THEN Idle ELSE [task[d] EXCEPT !.stage = "opened"])
    /\ DeliveryOnly /\ UNCHANGED <<branch, tips, gh, told, rec, ops>>

UpdatePull(d) ==
    /\ At(d, "pushed") /\ task[d].open # 0
    /\ Goes(d, [task[d] EXCEPT !.stage = "opened"])
    /\ DeliveryOnly /\ UNCHANGED <<branch, tips, gh, told, rec, ops>>

(* GitHub refuses a second open pull request from a branch, or one from no  *)
(* branch.                                                                  *)
CreatePull(d) ==
    /\ At(d, "pushed") /\ task[d].open = 0
    /\ OpenPr = {} /\ branch.tip # 0
    /\ gh' = Append(gh, NewPr) /\ told' = told \cup {<<"opened", Len(gh) + 1>>}
    /\ Goes(d, [task[d] EXCEPT !.stage = "opened", !.open = Len(gh) + 1])
    /\ DeliveryOnly /\ UNCHANGED <<branch, tips, rec, ops>>

(* record_pull_request, with the outcome of the fix rows. *)
RecordPull(d) ==
    /\ At(d, "opened")
    /\ rec' = IF rec.num = 0 THEN [num |-> task[d].open, state |-> "open"]
              ELSE [num |-> task[d].open,
                    state |-> S!TryAdvance(S!PullRequestMachine, "reopen", rec.state)]
    /\ Ends(d)
    /\ DeliveryOnly /\ UNCHANGED <<branch, tips, gh, told, ops>>

(* The ref is not as it was read, or GitHub refuses or cannot be reached. *)
Errs(d) ==
    /\ task[d].stage \notin {"idle", "opened"}
    /\ Ends(d)
    /\ DeliveryOnly /\ UNCHANGED <<branch, tips, gh, told, rec, ops>>

(* The worker dies before it has recorded what it did at GitHub. *)
Crash(d) ==
    /\ Counted("crash") /\ At(d, "opened")
    /\ Ends(d)
    /\ DeliveryOnly /\ UNCHANGED <<branch, tips, gh, told, rec>>

-----------------------------------------------------------------------------

Init ==
    /\ base = 1 /\ versions = 1 /\ fix = 0
    /\ branch = NoBranch /\ tips = 0
    /\ gh = <<>> /\ told = {} /\ rec = NoRecord /\ poll = NoPoll
    /\ task = [d \in Deliveries |-> Idle]
    /\ ops = 0

User ==
    \/ UserPushes \/ UserDeletes \/ UserCommits \/ BranchDeleted \/ UserMerges
    \/ UserCloses \/ UserReopens \/ UserDrafts \/ UserOpens
    \/ Generate \/ Deliver

Step(d) ==
    \/ ReadBase(d) \/ CheckFresh(d) \/ ListPulls(d) \/ RefuseToOverwrite(d)
    \/ Rebase(d) \/ KeepPull(d) \/ UpdatePull(d) \/ CreatePull(d) \/ RecordPull(d)
    \/ Errs(d)

Next ==
    \/ User
    \/ PullRequestEvent \/ DeleteEvent \/ PollSnapshot \/ PollApply
    \/ \E d \in Deliveries : Step(d) \/ Crash(d)

Spec == Init /\ [][Next]_vars

-----------------------------------------------------------------------------
(* Properties *)

(* Every variable has its type. *)
TypeOK ==
    /\ {base, fix} \subseteq Int /\ {versions, tips, ops} \subseteq Nat
    /\ branch \in Branch
    /\ gh \in Seq([state : PrState, past : SUBSET PrState])
    /\ told \subseteq {"opened", "delete", "merge", "close", "reopen", "convert_to_draft",
                       "mark_ready_for_review"} \X Nat
    /\ rec \in Record
    /\ poll \in Record
    /\ task \in [Deliveries -> Task]

(* Merging the branch never undoes a change a user pushed to the file: a    *)
(* branch that merges cleanly over a content from users replaces the one    *)
(* its rewrite was made of, whatever was pushed while it was generated and  *)
(* delivered.  A file that was deleted may come back.                       *)
ChangesAreKept == (branch.tip # 0 /\ base = branch.on /\ base > 0) => base = branch.from

(* A delivery that is not forced overwrites a user's commit only if it was  *)
(* pushed after the delivery looked at the branch.                          *)
WorkSeenIsKept ==
    [][\A d \in Deliveries :
          (At(d, "checked") /\ task'[d].stage = "pushed" /\ branch.user /\ ~task[d].force)
              => branch.tip # task[d].tip]_vars

(* The record says merged, or closed, only if a pull request of the branch  *)
(* was, or the branch was deleted, in spite of late, repeated and reordered *)
(* webhooks, of snapshots that are applied late, and of deliveries that     *)
(* rewrite it meanwhile.                                                    *)
RecordIsReal ==
    rec.num # 0 =>
        /\ rec.num \in DOMAIN gh
        /\ \/ \E n \in DOMAIN gh : rec.state \in gh[n].past
           \/ rec.state = "closed" /\ <<"delete", 0>> \in told
=============================================================================
