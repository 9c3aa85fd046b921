----------------------------- MODULE RepoAccess -----------------------------
(***************************************************************************)
(* What the program believes it may do with a repository: the organisation *)
(* and installation it belongs to, its accessibility, the switch of its    *)
(* users, and who pays for it.  GitHub tells of every change once, in any  *)
(* order or never; installation syncs, the users' requests and deletions   *)
(* run between the webhooks.                                               *)
(***************************************************************************)
EXTENDS Integers, Sequences, FiniteSets, SequencesExt

CONSTANTS
    Users, Accounts, Repos,
    Home,         \* Home[r]: the account a repository starts in
    Installed,    \* accounts with the app installed at the start
    Stored,       \* repositories it may read there, all synced
    Founder,      \* the user who linked them
    Requests,     \* PATCH requests served at once
    Syncs,        \* installation syncs waiting or running at once
    RepoLimit,    \* repositories a plan lets its payer switch on
    External,     \* the organisation of repositories added without the app
    Nobody,       \* no user
    Ops,          \* the kinds of event this instance allows
    MaxOps        \* how many of them may happen

OpKinds == {"install", "uninstall", "suspend", "unsuspend", "add", "remove", "archive",
            "unarchive", "gone", "transfer", "link", "leave", "external", "fail", "crash"}

ASSUME HomeAssumption == Home \in [Repos -> Accounts]
ASSUME InstalledAssumption == Installed \subseteq Accounts /\ Cardinality(Installed) <= 1
ASSUME StoredAssumption == Stored \subseteq {r \in Repos : Home[r] \in Installed}
ASSUME NamesAssumption == External \notin Accounts /\ Nobody \notin Users /\ Founder \in Users
ASSUME FiniteAssumption == IsFiniteSet(Repos) /\ IsFiniteSet(Requests) /\ Requests # {}
ASSUME BoundsAssumption == RepoLimit \in Nat /\ MaxOps \in Nat /\ Ops \subseteq OpKinds

S == INSTANCE StateMachines

VARIABLES
    inst,        \* inst[a]: the installation in account a at GitHub; 0 for none
    issued,      \* issued[a]: every installation there has been in a
    suspended,   \* accounts whose installation is suspended
    granted,     \* repositories the installation of their account may read
    archived,    \* repositories archived at GitHub
    home,        \* home[r]: the account that has repository r
    unarchivals, \* repositories unarchived so far
    told,        \* webhooks on their way
    org,         \* org[a]: installation_id of a's Organization; 0 for no row
    owners,      \* owners[a]: its owner members, by joined_at
    repo,        \* repo[r]: the Repository row
    paid,        \* paid[r]: its payer, if it was switched on against their allowance
    revived,     \* rows switched on by a webhook so far
    request,     \* request[q]: the PATCH in slot q
    sync,        \* sync[t]: the installation sync in slot t
    syncKey,     \* installations with a queued:installation_sync key
    scanKey,     \* repositories with a queued:static_analysis key
    waiting,     \* waiting[r]: initial scans sent and not yet run
    ops          \* counted events so far

github == <<inst, issued, suspended, granted, archived, home, unarchivals>>
scans == <<scanKey, waiting>>
rows == <<org, owners, repo, paid, revived>>
vars == <<github, told, rows, request, sync, syncKey, scans, ops>>

Row == [org : Accounts \cup {External}, inst : Nat, enabled : BOOLEAN,
        status : S!RepositoryStatus, accessible : BOOLEAN, scanned : BOOLEAN]

NoRow == [org |-> External, inst |-> -1, enabled |-> FALSE, status |-> "active",
          accessible |-> TRUE, scanned |-> FALSE]

Rows == {r \in Repos : repo[r] # NoRow}

RowsOf(i) == {r \in Rows : repo[r].inst = i}

Counted(kind) == kind \in Ops /\ ops < MaxOps /\ ops' = ops + 1

-----------------------------------------------------------------------------
(* GitHub.  n tells two webhooks with the same content apart. *)

Webhook(kind, a, i, rs) == [kind |-> kind, acct |-> a, inst |-> i, repos |-> rs, n |-> ops]

Tells(kind, a, i, rs) == told' = told \cup {Webhook(kind, a, i, rs)}

GitHubOnly == UNCHANGED <<rows, request, sync, syncKey, scans>>

NextInst == 1 + Cardinality(UNION {issued[a] : a \in Accounts})

(* The app is installed on every repository the account has. *)
Install(a) ==
    /\ Counted("install") /\ inst[a] = 0
    /\ LET i == NextInst
           rs == {r \in Repos : home[r] = a} IN
         /\ inst' = [inst EXCEPT ![a] = i]
         /\ issued' = [issued EXCEPT ![a] = @ \cup {i}]
         /\ granted' = granted \cup rs
         /\ told' = told \cup {Webhook("created", a, i, {}), Webhook("added", a, i, rs)}
    /\ GitHubOnly /\ UNCHANGED <<suspended, archived, home, unarchivals>>

Uninstall(a) ==
    /\ Counted("uninstall") /\ inst[a] # 0
    /\ inst' = [inst EXCEPT ![a] = 0]
    /\ suspended' = suspended \ {a}
    /\ granted' = {r \in granted : home[r] # a}
    /\ Tells("deleted", a, inst[a], {})
    /\ GitHubOnly /\ UNCHANGED <<issued, archived, home, unarchivals>>

Suspend(a) ==
    /\ Counted("suspend") /\ inst[a] # 0 /\ a \notin suspended
    /\ suspended' = suspended \cup {a}
    /\ Tells("suspend", a, inst[a], {})
    /\ GitHubOnly /\ UNCHANGED <<inst, issued, granted, archived, home, unarchivals>>

Unsuspend(a) ==
    /\ Counted("unsuspend") /\ a \in suspended
    /\ suspended' = suspended \ {a}
    /\ Tells("unsuspend", a, inst[a], {})
    /\ GitHubOnly /\ UNCHANGED <<inst, issued, granted, archived, home, unarchivals>>

Grants(kind, event, r, becomes) ==
    /\ Counted(kind) /\ inst[home[r]] # 0 /\ granted # becomes
    /\ granted' = becomes
    /\ Tells(event, home[r], inst[home[r]], {r})
    /\ GitHubOnly /\ UNCHANGED <<inst, issued, suspended, archived, home, unarchivals>>

AddRepo(r) == Grants("add", "added", r, granted \cup {r})

RemoveRepo(r) == Grants("remove", "removed", r, granted \ {r})

(* GitHub keeps a deleted repository for a while: adding it restores it. *)
DeleteRepo(r) == Grants("gone", "gone", r, granted \ {r})

Archive(r) ==
    /\ Counted("archive") /\ r \notin archived /\ r \in granted
    /\ archived' = archived \cup {r}
    /\ Tells("archived", home[r], inst[home[r]], {r})
    /\ GitHubOnly /\ UNCHANGED <<inst, issued, suspended, granted, home, unarchivals>>

Unarchive(r) ==
    /\ Counted("unarchive") /\ r \in archived /\ r \in granted
    /\ archived' = archived \ {r}
    /\ unarchivals' = unarchivals + 1
    /\ Tells("unarchived", home[r], inst[home[r]], {r})
    /\ GitHubOnly /\ UNCHANGED <<inst, issued, suspended, granted, home>>

(* The old installation loses the repository, the new one may have it; the *)
(* webhook itself only renames the row.                                    *)
Transfer(r, a) ==
    /\ Counted("transfer") /\ home[r] # a
    /\ home' = [home EXCEPT ![r] = a]
    /\ granted' = IF inst[a] = 0 THEN granted \ {r} ELSE granted \cup {r}
    /\ told' = told \cup
         (IF r \in granted THEN {Webhook("removed", home[r], inst[home[r]], {r})} ELSE {}) \cup
         (IF inst[a] # 0 THEN {Webhook("added", a, inst[a], {r})} ELSE {})
    /\ GitHubOnly /\ UNCHANGED <<inst, issued, suspended, archived, unarchivals>>

GitHub ==
    \/ \E a \in Accounts : Install(a) \/ Uninstall(a) \/ Suspend(a) \/ Unsuspend(a)
    \/ \E r \in Repos : AddRepo(r) \/ RemoveRepo(r) \/ DeleteRepo(r) \/ Archive(r) \/ Unarchive(r)
    \/ \E r \in Repos, a \in Accounts : Transfer(r, a)

-----------------------------------------------------------------------------
(* Rows *)

UpsertOrganization(a, i) == [org EXCEPT ![a] = i]

FlagForgotten(row) == row

SyncAccessFlag(row) == [row EXCEPT !.accessible = (row.status = "active")]

Fired(row, event) ==
    SyncAccessFlag([row EXCEPT !.status = S!TryAdvance(S!RepositoryMachine, event, @)])

SwitchedOff(row) == [row EXCEPT !.enabled = FALSE]

RestoreEvent(row) ==
    IF S!Can(S!RepositoryMachine, "unsuspend", row.status) THEN "unsuspend" ELSE "regain_access"

(* The rows in rs become F of what they were. *)
Rewritten(rs, F(_)) == [r \in Repos |-> IF r \in rs THEN F(repo[r]) ELSE repo[r]]

SwitchedBy(next) ==
    /\ repo' = next
    /\ paid' = [r \in Repos |-> IF next[r].enabled THEN paid[r] ELSE Nobody]

-----------------------------------------------------------------------------
(* Webhooks *)

Idle == [stage |-> "idle", inst |-> 0, acct |-> External, rs |-> {}]

Queued(a, i) == [Idle EXCEPT !.stage = "queued", !.inst = i, !.acct = a]

(* The dedup key is set before the task is sent: a broker that fails here   *)
(* leaves the key.                                                          *)
EnqueueInstallationSync(a, i) ==
    \/ i \in syncKey /\ UNCHANGED <<sync, syncKey>>
    \/ /\ i \notin syncKey
       /\ syncKey' = syncKey \cup {i}
       /\ \/ \E t \in Syncs : /\ sync[t].stage = "idle"
                              /\ sync' = [sync EXCEPT ![t] = Queued(a, i)]
          \/ "fail" \in Ops /\ UNCHANGED sync

NoSync == UNCHANGED <<sync, syncKey>>

SeenButKept(m) == told' = told

(* The delivery is marked as seen, then handled. *)
Seen(m) == told' = told \ {m}

Handling == UNCHANGED <<github, owners, request, scans, ops>>

HandleInstalled(m) ==
    /\ m.kind \in {"created", "unsuspend"}
    /\ org' = UpsertOrganization(m.acct, m.inst)
    /\ LET Restored(row) == Fired(row, RestoreEvent(row)) IN
       SwitchedBy(IF m.kind = "unsuspend" THEN Rewritten(RowsOf(m.inst), Restored) ELSE repo)
    /\ EnqueueInstallationSync(m.acct, m.inst)
    /\ UNCHANGED revived

HandleUninstalled(m) ==
    /\ m.kind \in {"deleted", "suspend"}
    /\ LET event == IF m.kind = "suspend" THEN "suspend" ELSE "lose_access"
           Lost(row) == Fired(SwitchedOff(row), event) IN
       SwitchedBy(Rewritten(RowsOf(m.inst), Lost))
    /\ NoSync /\ UNCHANGED <<org, revived>>

HandleAdded(m) ==
    /\ m.kind = "added"
    /\ org' = UpsertOrganization(m.acct, m.inst)
    /\ LET Regained(row) == Fired(row, "regain_access") IN
       SwitchedBy(Rewritten(m.repos \cap Rows, Regained))
    /\ EnqueueInstallationSync(m.acct, m.inst)
    /\ UNCHANGED revived

HandleRemoved(m) ==
    /\ m.kind = "removed"
    /\ org' = UpsertOrganization(m.acct, m.inst)
    /\ LET Lost(row) == Fired(SwitchedOff(row), "lose_access") IN
       SwitchedBy(Rewritten(m.repos \cap Rows, Lost))
    /\ NoSync /\ UNCHANGED revived

HandleArchivedOrGone(m) ==
    /\ m.kind \in {"archived", "gone"}
    /\ LET event == IF m.kind = "archived" THEN "archive" ELSE "lose_access"
           Lost(row) == Fired(SwitchedOff(row), event) IN
       SwitchedBy(Rewritten(m.repos \cap Rows, Lost))
    /\ NoSync /\ UNCHANGED <<org, revived>>

(* Whatever the status is, and without a look at the allowance. *)
HandleUnarchived(m) ==
    /\ m.kind = "unarchived"
    /\ LET On(row) == Fired([row EXCEPT !.enabled = TRUE], "unarchive") IN
       SwitchedBy(Rewritten(m.repos \cap Rows, On))
    /\ revived' = revived + Cardinality({r \in m.repos \cap Rows : ~repo[r].enabled})
    /\ NoSync /\ UNCHANGED org

GitHubWebhook ==
    \E m \in told :
        /\ Seen(m) /\ Handling
        /\ \/ HandleInstalled(m) \/ HandleUninstalled(m) \/ HandleAdded(m)
           \/ HandleRemoved(m) \/ HandleArchivedOrGone(m) \/ HandleUnarchived(m)

-----------------------------------------------------------------------------
(* The installation sync *)

At(t, stage) == sync[t].stage = stage

Goes(t, next) == sync' = [sync EXCEPT ![t] = next]

Working == UNCHANGED <<github, told, org, owners, revived, request, syncKey>>

(* GitHub lists what the installation may read, or has no such installation. *)
FetchRepositories(t) ==
    /\ At(t, "queued")
    /\ LET a == sync[t].acct IN
       IF inst[a] = sync[t].inst /\ a \notin suspended
       THEN Goes(t, [sync[t] EXCEPT !.stage = "listed", !.rs = {r \in granted : home[r] = a}])
       ELSE Goes(t, Idle)
    /\ Working /\ UNCHANGED <<repo, paid, scans, ops>>

KeepsItsOrg(row, a, i) ==
    IF row = NoRow THEN [NoRow EXCEPT !.org = a, !.inst = i] ELSE [row EXCEPT !.inst = i]

Upserted(row, a, i) == [row EXCEPT !.org = a, !.inst = i]

(* Each row of the list is written in a transaction of its own; no property *)
(* relates two rows, so they go in one step.                                *)
UpsertRepositories(t) ==
    /\ At(t, "listed")
    /\ LET Synced(row) == Upserted(row, sync[t].acct, sync[t].inst) IN
       repo' = Rewritten(sync[t].rs, Synced)
    /\ paid' = [r \in Repos |-> IF repo'[r].org = repo[r].org THEN paid[r] ELSE Nobody]
    /\ Goes(t, [sync[t] EXCEPT !.stage = "stored", !.rs = {r \in @ : ~repo[r].scanned}])
    /\ Working /\ UNCHANGED <<scans, ops>>

NeverQueued(rs) == {}

AlreadyQueued(rs) == rs \cap scanKey

(* The initial scans of what was never analysed, one key each. *)
EnqueueInitialScans(t) ==
    /\ At(t, "stored")
    /\ LET rs == sync[t].rs \ AlreadyQueued(sync[t].rs) IN
         /\ scanKey' = scanKey \cup rs
         /\ waiting' = [r \in Repos |-> waiting[r] + IF r \in rs THEN 1 ELSE 0]
    /\ Goes(t, Idle)
    /\ Working /\ UNCHANGED <<repo, paid, ops>>

SyncFails(t) ==
    /\ ~At(t, "idle") /\ Counted("fail")
    /\ Goes(t, Idle)
    /\ Working /\ UNCHANGED <<repo, paid, scans>>

(* A dead worker's task is delivered again. *)
SyncCrashes(t) ==
    /\ sync[t].stage \in {"listed", "stored"} /\ Counted("crash")
    /\ Goes(t, Queued(sync[t].acct, sync[t].inst))
    /\ Working /\ UNCHANGED <<repo, paid, scans>>

(* A scan that finds workflow files leaves a WorkflowScan row. *)
RunInitialScan(r) ==
    /\ waiting[r] > 0
    /\ waiting' = [waiting EXCEPT ![r] = @ - 1]
    /\ \/ repo' = [repo EXCEPT ![r].scanned = TRUE]
       \/ repo' = repo
    /\ UNCHANGED <<github, told, org, owners, paid, revived, request, sync, syncKey, scanKey, ops>>

(* The keys have a time to live: 90 seconds for a sync, ten minutes for a   *)
(* scan, within which the initial scan is taken to have been started.       *)
Expire ==
    /\ \/ /\ \E i \in syncKey : syncKey' = syncKey \ {i}
          /\ UNCHANGED scanKey
       \/ /\ \E r \in scanKey : waiting[r] = 0 /\ scanKey' = scanKey \ {r}
          /\ UNCHANGED syncKey
    /\ UNCHANGED <<github, told, rows, request, sync, waiting, ops>>

SyncStep(t) ==
    \/ FetchRepositories(t) \/ UpsertRepositories(t) \/ EnqueueInitialScans(t)
    \/ SyncFails(t) \/ SyncCrashes(t)

-----------------------------------------------------------------------------
(* Users *)

LatestOwner(o) == IF o = External \/ owners[o] = <<>> THEN Nobody ELSE Last(owners[o])

(* The owner member that joined first pays. *)
OrgBillingOwner(o) == IF o = External \/ owners[o] = <<>> THEN Nobody ELSE Head(owners[o])

EnabledRepos(u) == {r \in Rows : repo[r].enabled /\ OrgBillingOwner(repo[r].org) = u}

AlwaysAllows(u) == TRUE

(* An organisation nobody pays for is not limited. *)
Allows(u) == u = Nobody \/ Cardinality(EnabledRepos(u)) < RepoLimit

(* POST /installations/sync, for one installation the user controls. *)
SyncInstallations(u, a) ==
    /\ Counted("link") /\ inst[a] # 0 /\ ~Contains(owners[a], u)
    /\ org' = UpsertOrganization(a, inst[a])
    /\ owners' = [owners EXCEPT ![a] = Append(@, u)]
    /\ EnqueueInstallationSync(a, inst[a])
    /\ UNCHANGED <<github, told, repo, paid, revived, request, scans>>

PlaceOf(s, u) == CHOOSE i \in DOMAIN s : s[i] = u

Without(s, u) == IF Contains(s, u) THEN RemoveAt(s, PlaceOf(s, u)) ELSE s

Unpaid(v, u) == IF v = u THEN Nobody ELSE v

(* Memberships go with the user, organisations and repositories stay.  Who  *)
(* logs in again under the name is another user, who has paid for nothing.  *)
DeleteUser(u) ==
    /\ Counted("leave")
    /\ \E a \in Accounts : Contains(owners[a], u)
    /\ owners' = [a \in Accounts |-> Without(owners[a], u)]
    /\ paid' = [r \in Repos |-> Unpaid(paid[r], u)]
    /\ request' = [q \in Requests |-> [request[q] EXCEPT !.payer = Unpaid(@, u)]]
    /\ UNCHANGED <<github, told, org, repo, revived, sync, syncKey, scans>>

(* A superuser adds a repository by name, without the app. *)
CreateExternalRepository(r) ==
    /\ Counted("external") /\ repo[r] = NoRow
    /\ repo' = [repo EXCEPT ![r] = [NoRow EXCEPT !.inst = 0]]
    /\ UNCHANGED <<github, told, org, owners, paid, revived, request, sync, syncKey, scans>>

NoRequest == [repo |-> Nobody, payer |-> Nobody]

UsersOnly == UNCHANGED <<github, told, org, owners, revived, sync, syncKey, scans, ops>>

(* PATCH enabled = true: the allowance is checked, ... *)
CheckQuota(q) ==
    /\ request[q] = NoRequest
    /\ \E r \in Rows :
         LET u == OrgBillingOwner(repo[r].org) IN
         /\ ~repo[r].enabled /\ Allows(u)
         /\ request' = [request EXCEPT ![q] = [repo |-> r, payer |-> u]]
    /\ UsersOnly /\ UNCHANGED <<repo, paid>>

(* ... then the row is written.  It may have moved to another payer. *)
EnableRepository(q) ==
    /\ request[q] # NoRequest
    /\ LET r == request[q].repo
           u == request[q].payer IN
         /\ repo' = [repo EXCEPT ![r].enabled = TRUE]
         /\ paid' = [paid EXCEPT ![r] = IF OrgBillingOwner(repo[r].org) = u THEN u ELSE Nobody]
    /\ request' = [request EXCEPT ![q] = NoRequest]
    /\ UsersOnly

DisableRepository(r) ==
    /\ repo[r].enabled
    /\ SwitchedBy([repo EXCEPT ![r].enabled = FALSE])
    /\ UsersOnly /\ UNCHANGED request

UserStep ==
    \/ \E u \in Users, a \in Accounts : SyncInstallations(u, a)
    \/ \E u \in Users : DeleteUser(u)
    \/ \E r \in Repos : CreateExternalRepository(r) \/ DisableRepository(r)
    \/ \E q \in Requests : CheckQuota(q) \/ EnableRepository(q)

-----------------------------------------------------------------------------

(* Installation 1 at GitHub, its repositories stored. *)
InitialInst(a) == IF a \in Installed THEN 1 ELSE 0

InitialRow(r) ==
    IF r \in Stored THEN [NoRow EXCEPT !.org = Home[r], !.inst = 1] ELSE NoRow

Init ==
    /\ inst = [a \in Accounts |-> InitialInst(a)]
    /\ issued = [a \in Accounts |-> {1} \cap {InitialInst(a)}]
    /\ suspended = {} /\ archived = {} /\ home = Home /\ unarchivals = 0
    /\ granted = Stored
    /\ told = {}
    /\ org = inst
    /\ owners = [a \in Accounts |-> IF a \in Installed THEN <<Founder>> ELSE <<>>]
    /\ repo = [r \in Repos |-> InitialRow(r)]
    /\ paid = [r \in Repos |-> Nobody] /\ revived = 0
    /\ request = [q \in Requests |-> NoRequest]
    /\ sync = [t \in Syncs |-> Idle] /\ syncKey = {}
    /\ scanKey = {} /\ waiting = [r \in Repos |-> 0]
    /\ ops = 0

Next ==
    \/ GitHub \/ GitHubWebhook
    \/ \E t \in Syncs : SyncStep(t)
    \/ \E r \in Repos : RunInitialScan(r)
    \/ Expire
    \/ UserStep

Spec == Init /\ [][Next]_vars

-----------------------------------------------------------------------------
(* Properties *)

(* Every variable has its type. *)
TypeOK ==
    /\ inst \in [Accounts -> Nat] /\ issued \in [Accounts -> SUBSET Nat]
    /\ suspended \subseteq Accounts /\ {granted, archived} \subseteq SUBSET Repos
    /\ home \in [Repos -> Accounts] /\ {unarchivals, revived, ops} \subseteq Nat
    /\ told \subseteq [kind : {"created", "added", "deleted", "suspend", "unsuspend", "removed",
                               "gone", "archived", "unarchived"},
                       acct : Accounts, inst : Nat, repos : SUBSET Repos, n : Nat]
    /\ org \in [Accounts -> Nat] /\ owners \in [Accounts -> Seq(Users)]
    /\ repo \in [Repos -> Row \cup {NoRow}] /\ paid \in [Repos -> Users \cup {Nobody}]
    /\ request \in [Requests -> [repo : Repos, payer : Users \cup {Nobody}] \cup {NoRequest}]
    /\ sync \in [Syncs -> [stage : {"idle", "queued", "listed", "stored"}, inst : Nat,
                           acct : Accounts \cup {External}, rs : SUBSET Repos]]
    /\ syncKey \subseteq Nat /\ scanKey \subseteq Repos /\ waiting \in [Repos -> Nat]

(* The write gate every fix and sync asks agrees with the lifecycle: no     *)
(* order of webhooks, syncs and requests leaves is_accessible behind.       *)
FlagFollowsStatus == \A r \in Rows : repo[r].accessible = (repo[r].status = "active")

(* A repository of an organisation is reached through an installation that  *)
(* was that organisation's account's, whatever moved, was reinstalled or    *)
(* was synced late: no organisation works with another one's token.         *)
OwnInstallation ==
    \A r \in Rows : repo[r].org # External => repo[r].inst \in issued[repo[r].org]

(* Two syncs of one installation, or of two that list the same repository,  *)
(* do not both start its first scan.                                        *)
OneInitialScan == \A r \in Repos : waiting[r] <= 1

(* A repository comes on without its user at most once per unarchival: a    *)
(* webhook that is delivered again does not undo a later switch-off.        *)
RevivedOnce == revived <= unarchivals

(* Requests that race through the allowance check overrun a plan by at most *)
(* one repository each but the first.                                       *)
SlotsBound ==
    \A u \in Users :
        Cardinality({r \in EnabledRepos(u) : paid[r] = u}) <= RepoLimit + Cardinality(Requests) - 1

(* Whoever links a shared organisation later never becomes its payer while  *)
(* the present one is there.                                                *)
PayerStays ==
    [][\A a \in Accounts :
          LET u == OrgBillingOwner(a) IN
          (u # Nobody /\ OrgBillingOwner(a)' # u) => ~Contains(owners'[a], u)]_vars
=============================================================================
