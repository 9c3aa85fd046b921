------------------------- MODULE RepoAccessProofs -------------------------
(***************************************************************************)
(* Proofs about RepoAccess: what every repository row says, whatever the   *)
(* order of webhooks, syncs and requests.  Everything that names an        *)
(* installation (a webhook, a sync, a row) names one its account has had,  *)
(* and a repository the program may read is in an account that has one.    *)
(* Whoever's allowance a repository was switched on against pays for it.   *)
(* Every scan, request and stored sync is of a repository with a row.      *)
(***************************************************************************)
EXTENDS RepoAccess, FiniteSetTheorems, SequenceTheorems, TLAPS

Orgs == Accounts \cup {External}

(* What a row may hold; the row of no repository included. *)
AnyRow == [org : Orgs, inst : Int, enabled : BOOLEAN, status : S!RepositoryStatus,
           accessible : BOOLEAN, scanned : BOOLEAN]

Flagged(row) == row.accessible = (row.status = "active")

Events == {"suspend", "unsuspend", "archive", "unarchive", "lose_access", "regain_access"}

Stages == {"idle", "queued", "listed", "stored"}

SyncTask == [stage : Stages, inst : Nat, acct : Orgs, rs : SUBSET Repos]

Kinds == {"created", "added", "deleted", "suspend", "unsuspend", "removed", "gone",
          "archived", "unarchived"}

Hook == [kind : Kinds, acct : Accounts, inst : Nat, repos : SUBSET Repos, n : Nat]

Issued == UNION {issued[a] : a \in Accounts}

(* What the moves below need of the types. *)
Types ==
    /\ inst \in [Accounts -> Nat]
    /\ issued \in [Accounts -> SUBSET Nat]
    /\ home \in [Repos -> Accounts]
    /\ granted \in SUBSET Repos
    /\ told \in SUBSET Hook
    /\ repo \in [Repos -> AnyRow]
    /\ sync \in [Syncs -> SyncTask]
    /\ scanKey \in SUBSET Repos
    /\ waiting \in [Repos -> Nat]
    /\ unarchivals \in Nat /\ revived \in Nat /\ ops \in Nat
    /\ IsFiniteSet(Issued)

(* Whatever names an installation names one that its account has had. *)
Named ==
    /\ \A a \in Accounts : inst[a] # 0 => inst[a] \in issued[a]
    /\ \A r \in granted : inst[home[r]] # 0
    /\ suspended \in SUBSET {a \in Accounts : inst[a] # 0}
    /\ \A m \in told : m.inst \in issued[m.acct]
    /\ \A t \in Syncs : sync[t].stage # "idle" =>
          sync[t].acct \in Accounts /\ sync[t].inst \in issued[sync[t].acct]

RowsOwned == \A r \in Repos : repo[r].org # External => repo[r].inst \in issued[repo[r].org]

AllFlagged == \A r \in Repos : Flagged(repo[r])

(* An initial scan is under way only while its key is held. *)
Keyed == \A r \in Repos : waiting[r] <= 1 /\ (waiting[r] > 0 => r \in scanKey)

Unarchivings == {m \in told : m.kind = "unarchived"}

(* Every unarchival is on its way, has switched its repository on, or found *)
(* it on.                                                                   *)
Accounted ==
    /\ \A m \in Unarchivings : \E r \in Repos : m.repos = {r}
    /\ IsFiniteSet(Unarchivings)
    /\ revived + Cardinality(Unarchivings) <= unarchivals

IInv == Types /\ Named /\ RowsOwned /\ AllFlagged /\ Keyed /\ Accounted

-----------------------------------------------------------------------------
(* Rows *)

RowFields == {"org", "inst", "enabled", "status", "accessible", "scanned"}

LEMMA RowByFields ==
    ASSUME NEW a
    PROVE  a \in AnyRow <=>
             /\ a = [x \in RowFields |-> a[x]]
             /\ a.org \in Orgs /\ a.inst \in Int /\ a.enabled \in BOOLEAN
             /\ a.status \in S!RepositoryStatus /\ a.accessible \in BOOLEAN
             /\ a.scanned \in BOOLEAN
BY DEF AnyRow, RowFields

ToEnabled(a, v) == [a EXCEPT !.enabled = v]

ToStatus(a, s) == [a EXCEPT !.status = s]

ToScanned(a) == [a EXCEPT !.scanned = TRUE]

(* b is a row of the same organisation and installation, flagged if a is. *)
SameOwner(a, b) ==
    /\ b \in AnyRow /\ b.org = a.org /\ b.inst = a.inst
    /\ Flagged(a) => Flagged(b)

LEMMA SelfOwner == ASSUME NEW a \in AnyRow PROVE SameOwner(a, a)
BY DEF SameOwner

LEMMA Switched == ASSUME NEW a \in AnyRow, NEW v \in BOOLEAN PROVE SameOwner(a, ToEnabled(a, v))
<1> DEFINE b == ToEnabled(a, v)
<1>1. a = [x \in RowFields |-> a[x]] BY RowByFields
<1>2. b = [x \in RowFields |-> CASE x = "enabled" -> v [] OTHER -> a[x]]
  BY <1>1 DEF RowFields, ToEnabled
<1> HIDE DEF b
<1>3. /\ b.org = a.org /\ b.inst = a.inst /\ b.enabled = v /\ b.status = a.status
      /\ b.accessible = a.accessible /\ b.scanned = a.scanned
  BY <1>2 DEF RowFields
<1>4. b = [x \in RowFields |-> b[x]] BY <1>2
<1>5. b \in AnyRow BY <1>3, <1>4, RowByFields
<1>6. SameOwner(a, b) BY <1>3, <1>5 DEF SameOwner, Flagged
<1> QED BY <1>6 DEF b

LEMMA Scanned == ASSUME NEW a \in AnyRow PROVE SameOwner(a, ToScanned(a))
<1> DEFINE b == ToScanned(a)
<1>1. a = [x \in RowFields |-> a[x]] BY RowByFields
<1>2. b = [x \in RowFields |-> CASE x = "scanned" -> TRUE [] OTHER -> a[x]]
  BY <1>1 DEF RowFields, ToScanned
<1> HIDE DEF b
<1>3. /\ b.org = a.org /\ b.inst = a.inst /\ b.enabled = a.enabled /\ b.status = a.status
      /\ b.accessible = a.accessible /\ b.scanned = TRUE
  BY <1>2 DEF RowFields
<1>4. b = [x \in RowFields |-> b[x]] BY <1>2
<1>5. b \in AnyRow BY <1>3, <1>4, RowByFields
<1>6. SameOwner(a, b) BY <1>3, <1>5 DEF SameOwner, Flagged
<1> QED BY <1>6 DEF b

LEMMA MachineStays ==
    ASSUME NEW e \in Events, NEW s \in S!RepositoryStatus
    PROVE  S!TryAdvance(S!RepositoryMachine, e, s) \in S!RepositoryStatus
BY DEF Events, S!RepositoryStatus, S!TryAdvance, S!Can, S!Advance, S!RepositoryMachine

(* Every event leaves the flag as the status says. *)
LEMMA Fires ==
    ASSUME NEW a \in AnyRow, NEW e \in Events
    PROVE  SameOwner(a, Fired(a, e))
<1> DEFINE s == S!TryAdvance(S!RepositoryMachine, e, a.status)
           b == ToStatus(a, s)
           c == SyncAccessFlag(b)
<1>1. a = [x \in RowFields |-> a[x]] /\ s \in S!RepositoryStatus
  BY RowByFields, MachineStays
<1> HIDE DEF s
<1>2. b = [x \in RowFields |-> CASE x = "status" -> s [] OTHER -> a[x]]
  BY <1>1 DEF RowFields, ToStatus
<1> HIDE DEF b
<1>3. /\ b.org = a.org /\ b.inst = a.inst /\ b.enabled = a.enabled /\ b.status = s
      /\ b.accessible = a.accessible /\ b.scanned = a.scanned
  BY <1>2 DEF RowFields
<1>4. c = [x \in RowFields |-> CASE x = "accessible" -> (b.status = "active") [] OTHER -> b[x]]
  BY <1>2 DEF RowFields, SyncAccessFlag
<1> HIDE DEF c
<1>5. /\ c.org = b.org /\ c.inst = b.inst /\ c.enabled = b.enabled /\ c.status = b.status
      /\ c.accessible = (b.status = "active") /\ c.scanned = b.scanned
  BY <1>4 DEF RowFields
<1>6. c = [x \in RowFields |-> c[x]] BY <1>4
<1>7. c \in AnyRow BY <1>1, <1>3, <1>5, <1>6, RowByFields
<1>8. SameOwner(a, c) BY <1>3, <1>5, <1>7 DEF SameOwner, Flagged
<1>9. Fired(a, e) = c BY DEF Fired, c, b, s, ToStatus
<1> QED BY <1>8, <1>9

(* A sync gives a row its organisation and installation and nothing else. *)
LEMMA Owned ==
    ASSUME NEW a \in AnyRow, NEW o \in Orgs, NEW i \in Nat
    PROVE  LET b == Upserted(a, o, i)
           IN  b \in AnyRow /\ b.org = o /\ b.inst = i /\ (Flagged(a) => Flagged(b))
<1> DEFINE b == Upserted(a, o, i)
<1>1. a = [x \in RowFields |-> a[x]] BY RowByFields
<1>2. b = [x \in RowFields |-> CASE x = "org" -> o [] x = "inst" -> i [] OTHER -> a[x]]
  BY <1>1 DEF RowFields, Upserted
<1> HIDE DEF b
<1>3. /\ b.org = o /\ b.inst = i /\ b.enabled = a.enabled /\ b.status = a.status
      /\ b.accessible = a.accessible /\ b.scanned = a.scanned
  BY <1>2 DEF RowFields
<1>4. b = [x \in RowFields |-> b[x]] BY <1>2
<1>5. b \in AnyRow BY <1>3, <1>4, RowByFields
<1>6. Flagged(a) => Flagged(b) BY <1>3 DEF Flagged
<1> HIDE DEF b
<1>7. b \in AnyRow /\ b.org = o /\ b.inst = i /\ (Flagged(a) => Flagged(b))
  BY <1>3, <1>5, <1>6
<1> QED BY <1>7 DEF b

LEMMA OwnerChain ==
    ASSUME NEW a, NEW b, NEW c, SameOwner(a, b), SameOwner(b, c)
    PROVE  SameOwner(a, c)
BY DEF SameOwner

LEMMA Loses ==
    ASSUME NEW a \in AnyRow, NEW e \in Events
    PROVE  SameOwner(a, Fired(SwitchedOff(a), e))
<1>1. SameOwner(a, SwitchedOff(a)) BY Switched DEF SwitchedOff, ToEnabled
<1>2. SwitchedOff(a) \in AnyRow BY <1>1 DEF SameOwner
<1>3. SameOwner(SwitchedOff(a), Fired(SwitchedOff(a), e)) BY <1>2, Fires
<1> QED BY <1>1, <1>3, OwnerChain

LEMMA Revives ==
    ASSUME NEW a \in AnyRow
    PROVE  SameOwner(a, Fired([a EXCEPT !.enabled = TRUE], "unarchive"))
<1> DEFINE b == ToEnabled(a, TRUE)
<1>1. SameOwner(a, b) BY Switched
<1>2. "unarchive" \in Events BY DEF Events
<1> HIDE DEF b
<1>3. b \in AnyRow BY <1>1 DEF SameOwner
<1>4. SameOwner(b, Fired(b, "unarchive")) BY <1>2, <1>3, Fires
<1>5. SameOwner(a, Fired(b, "unarchive")) BY <1>1, <1>4, OwnerChain
<1> QED BY <1>5 DEF b, ToEnabled

-----------------------------------------------------------------------------
(* Webhooks *)

(* The rows after a step are those before it, of the same owners. *)
RowsKept ==
    /\ repo' \in [Repos -> AnyRow]
    /\ \A r \in Repos : SameOwner(repo[r], repo'[r])

LEMMA RowsStay == ASSUME Types, repo' = repo PROVE RowsKept
BY SelfOwner DEF Types, RowsKept

(* A webhook changes rows by events alone. *)
LEMMA HandlerRows ==
    ASSUME Types, NEW m,
           \/ HandleInstalled(m) \/ HandleUninstalled(m) \/ HandleAdded(m)
           \/ HandleRemoved(m) \/ HandleArchivedOrGone(m) \/ HandleUnarchived(m)
    PROVE  RowsKept
<1>0. repo \in [Repos -> AnyRow] BY DEF Types
<1>2. repo' = [r \in Repos |-> repo'[r]]
  BY <1>0 DEF HandleInstalled, HandleUninstalled, HandleAdded, HandleRemoved,
              HandleArchivedOrGone, HandleUnarchived, SwitchedBy, Rewritten
<1>3. ASSUME NEW r \in Repos PROVE SameOwner(repo[r], repo'[r])
  <2>0. repo[r] \in AnyRow BY <1>0
  <2>e. /\ RestoreEvent(repo[r]) \in Events
        /\ "regain_access" \in Events /\ "lose_access" \in Events /\ "suspend" \in Events
        /\ "archive" \in Events
    BY DEF RestoreEvent, Events
  <2>1. CASE HandleInstalled(m)
    <3>1. repo'[r] = repo[r] \/ repo'[r] = Fired(repo[r], RestoreEvent(repo[r]))
      BY <1>0, <2>1 DEF HandleInstalled, SwitchedBy, Rewritten
    <3> QED BY <2>0, <2>e, <3>1, Fires, SelfOwner
  <2>2. CASE HandleUninstalled(m)
    <3>1. \/ repo'[r] = repo[r] \/ repo'[r] = Fired(SwitchedOff(repo[r]), "suspend")
          \/ repo'[r] = Fired(SwitchedOff(repo[r]), "lose_access")
      BY <1>0, <2>2 DEF HandleUninstalled, SwitchedBy, Rewritten
    <3> QED BY <2>0, <2>e, <3>1, Loses, SelfOwner
  <2>3. CASE HandleAdded(m)
    <3>1. repo'[r] = repo[r] \/ repo'[r] = Fired(repo[r], "regain_access")
      BY <1>0, <2>3 DEF HandleAdded, SwitchedBy, Rewritten
    <3> QED BY <2>0, <2>e, <3>1, Fires, SelfOwner
  <2>4. CASE HandleRemoved(m)
    <3>1. repo'[r] = repo[r] \/ repo'[r] = Fired(SwitchedOff(repo[r]), "lose_access")
      BY <1>0, <2>4 DEF HandleRemoved, SwitchedBy, Rewritten
    <3> QED BY <2>0, <2>e, <3>1, Loses, SelfOwner
  <2>5. CASE HandleArchivedOrGone(m)
    <3>1. \/ repo'[r] = repo[r] \/ repo'[r] = Fired(SwitchedOff(repo[r]), "archive")
          \/ repo'[r] = Fired(SwitchedOff(repo[r]), "lose_access")
      BY <1>0, <2>5 DEF HandleArchivedOrGone, SwitchedBy, Rewritten
    <3> QED BY <2>0, <2>e, <3>1, Loses, SelfOwner
  <2>6. CASE HandleUnarchived(m)
    <3>1. \/ repo'[r] = repo[r]
          \/ repo'[r] = Fired([repo[r] EXCEPT !.enabled = TRUE], "unarchive")
      BY <1>0, <2>6 DEF HandleUnarchived, SwitchedBy, Rewritten
    <3> QED BY <2>0, <3>1, Revives, SelfOwner
  <2> QED BY <2>1, <2>2, <2>3, <2>4, <2>5, <2>6
<1>4. \A r \in Repos : repo'[r] \in AnyRow BY <1>3 DEF SameOwner
<1>5. repo' \in [Repos -> AnyRow] BY <1>2, <1>4
<1> QED BY <1>3, <1>5 DEF RowsKept

SyncNamed(t) ==
    sync[t].stage # "idle" => sync[t].acct \in Accounts /\ sync[t].inst \in issued[sync[t].acct]

SyncFields == {"stage", "inst", "acct", "rs"}

LEMMA SyncByFields ==
    ASSUME NEW a
    PROVE  a \in SyncTask <=>
             /\ a = [x \in SyncFields |-> a[x]]
             /\ a.stage \in Stages /\ a.inst \in Nat /\ a.acct \in Orgs /\ a.rs \in SUBSET Repos
BY DEF SyncTask, SyncFields

LEMMA QueuedTask ==
    ASSUME NEW a \in Accounts, NEW i \in Nat
    PROVE  /\ Queued(a, i) \in SyncTask /\ Idle \in SyncTask /\ Idle.stage = "idle"
           /\ Queued(a, i).acct = a /\ Queued(a, i).inst = i
<1> DEFINE b == Queued(a, i)
<1>1. Idle = [x \in SyncFields |-> Idle[x]] /\ Idle.rs = {} /\ Idle.stage = "idle"
  BY DEF Idle, SyncFields
<1>2. b = [x \in SyncFields |-> CASE x = "stage" -> "queued" [] x = "inst" -> i
                                 [] x = "acct" -> a [] OTHER -> Idle[x]]
  BY <1>1 DEF Queued, SyncFields
<1> HIDE DEF b
<1>3. b.stage = "queued" /\ b.inst = i /\ b.acct = a /\ b.rs = {}
  BY <1>1, <1>2 DEF SyncFields
<1>4. b = [x \in SyncFields |-> b[x]] BY <1>2
<1>5. b \in SyncTask BY <1>3, <1>4, SyncByFields DEF Stages, Orgs
<1>6. Idle \in SyncTask BY DEF Idle, SyncTask, Stages, Orgs
<1> QED BY <1>1, <1>3, <1>5, <1>6 DEF b

(* A sync is queued for an installation its account has had. *)
LEMMA Enqueues ==
    ASSUME Types, Named, issued' = issued, NEW a \in Accounts, NEW i \in issued[a],
           EnqueueInstallationSync(a, i)
    PROVE  sync' \in [Syncs -> SyncTask] /\ \A t \in Syncs : SyncNamed(t)'
<1>1. i \in Nat BY DEF Types
<1>2. sync \in [Syncs -> SyncTask] /\ \A t \in Syncs : SyncNamed(t)
  BY DEF Types, Named, SyncNamed
<1>3. sync' = sync \/ \E t \in Syncs : sync' = [sync EXCEPT ![t] = Queued(a, i)]
  BY DEF EnqueueInstallationSync
<1>4. CASE sync' = sync BY <1>2, <1>4 DEF SyncNamed
<1>5. ASSUME NEW t \in Syncs, sync' = [sync EXCEPT ![t] = Queued(a, i)]
      PROVE  sync' \in [Syncs -> SyncTask] /\ \A u \in Syncs : SyncNamed(u)'
  <2>1. sync' \in [Syncs -> SyncTask] BY <1>1, <1>2, <1>5, QueuedTask
  <2>2. \A u \in Syncs \ {t} : sync'[u] = sync[u] BY <1>2, <1>5
  <2>3. sync'[t].acct = a /\ sync'[t].inst = i BY <1>1, <1>2, <1>5, QueuedTask
  <2>4. \A u \in Syncs : SyncNamed(u)' BY <1>2, <2>2, <2>3 DEF SyncNamed
  <2> QED BY <2>1, <2>4
<1> QED BY <1>3, <1>4, <1>5

LEMMA HandlerSyncs ==
    ASSUME Types, Named, issued' = issued, NEW m \in told,
           \/ HandleInstalled(m) \/ HandleUninstalled(m) \/ HandleAdded(m)
           \/ HandleRemoved(m) \/ HandleArchivedOrGone(m) \/ HandleUnarchived(m)
    PROVE  sync' \in [Syncs -> SyncTask] /\ \A t \in Syncs : SyncNamed(t)'
<1>1. m.acct \in Accounts /\ m.inst \in issued[m.acct] BY DEF Types, Named, Hook
<1>2. EnqueueInstallationSync(m.acct, m.inst) \/ sync' = sync
  BY DEF HandleInstalled, HandleUninstalled, HandleAdded, HandleRemoved, HandleArchivedOrGone,
         HandleUnarchived, NoSync
<1>3. CASE sync' = sync BY <1>3 DEF Types, Named, SyncNamed
<1> QED BY <1>1, <1>2, <1>3, Enqueues

(* Only an unarchival switches a repository on, and one at most. *)
LEMMA HandlerRevives ==
    ASSUME Types, Accounted, NEW m \in told, told' = told \ {m}, unarchivals' = unarchivals,
           \/ HandleInstalled(m) \/ HandleUninstalled(m) \/ HandleAdded(m)
           \/ HandleRemoved(m) \/ HandleArchivedOrGone(m) \/ HandleUnarchived(m)
    PROVE  Accounted' /\ revived' \in Nat
<1>0. revived \in Nat /\ unarchivals \in Nat BY DEF Types
<1>1. Unarchivings' = Unarchivings \ {m} BY DEF Unarchivings
<1>2. IsFiniteSet(Unarchivings) /\ Cardinality(Unarchivings) \in Nat
  BY FS_CardinalityType DEF Accounted
<1>3. /\ IsFiniteSet(Unarchivings')
      /\ Cardinality(Unarchivings') =
            IF m \in Unarchivings THEN Cardinality(Unarchivings) - 1
            ELSE Cardinality(Unarchivings)
  BY <1>1, <1>2, FS_RemoveElement
<1>4. \A h \in Unarchivings' : \E r \in Repos : h.repos = {r} BY <1>1 DEF Accounted
<1>5. revived + Cardinality(Unarchivings) <= unarchivals BY DEF Accounted
<1>6. CASE revived' = revived
  <2>1. Cardinality(Unarchivings') <= Cardinality(Unarchivings) /\ Cardinality(Unarchivings') \in Nat
    BY <1>2, <1>3, FS_CardinalityType
  <2>2. revived' + Cardinality(Unarchivings') <= unarchivals' BY <1>0, <1>2, <1>5, <1>6, <2>1
  <2> QED BY <1>0, <1>3, <1>4, <1>6, <2>2 DEF Accounted
<1>7. CASE revived' # revived
  <2>1. HandleUnarchived(m)
    BY <1>7 DEF HandleInstalled, HandleUninstalled, HandleAdded, HandleRemoved, HandleArchivedOrGone
  <2> DEFINE On == {r \in m.repos \cap Rows : ~repo[r].enabled}
  <2>2. m \in Unarchivings /\ revived' = revived + Cardinality(On)
    BY <2>1 DEF HandleUnarchived, Unarchivings
  <2>3. PICK r \in Repos : m.repos = {r} BY <2>2 DEF Accounted
  <2>4. On = {} \/ On = {r} BY <2>3
  <2> HIDE DEF On
  <2>5. Cardinality(On) \in Nat /\ Cardinality(On) <= 1
    <3>1. Cardinality({}) = 0 /\ Cardinality({r}) = 1 BY FS_EmptySet, FS_Singleton
    <3> QED BY <2>4, <3>1
  <2>6. Cardinality(Unarchivings') = Cardinality(Unarchivings) - 1 BY <1>3, <2>2
  <2>7. revived' \in Nat /\ revived' + Cardinality(Unarchivings') <= unarchivals'
    BY <1>0, <1>2, <1>5, <2>2, <2>5, <2>6
  <2> QED BY <1>3, <1>4, <2>7 DEF Accounted
<1> QED BY <1>6, <1>7

-----------------------------------------------------------------------------
(* GitHub *)

IssuedGrows == \A a \in Accounts : issued[a] \subseteq issued'[a]

LEMMA HookTyped ==
    ASSUME Types, NEW k \in Kinds, NEW a \in Accounts, NEW i \in Nat, NEW rs \in SUBSET Repos
    PROVE  /\ Webhook(k, a, i, rs) \in Hook
           /\ Webhook(k, a, i, rs).kind = k /\ Webhook(k, a, i, rs).acct = a
           /\ Webhook(k, a, i, rs).inst = i /\ Webhook(k, a, i, rs).repos = rs
BY DEF Types, Webhook, Hook, Kinds

(* What GitHub may say: it names an installation there has been. *)
Sayable(h) == h \in Hook /\ h.inst \in issued'[h.acct]

LEMMA Hears ==
    ASSUME Types, Named, Accounted, IssuedGrows, NEW hooks, \A h \in hooks : Sayable(h),
           \A h \in hooks : h.kind # "unarchived",
           told' = told \cup hooks, unarchivals' = unarchivals, revived' = revived
    PROVE  told' \in SUBSET Hook /\ (\A h \in told' : h.inst \in issued'[h.acct]) /\ Accounted'
<1>1. told \in SUBSET Hook /\ \A h \in told : h.acct \in Accounts /\ h.inst \in issued[h.acct]
  BY DEF Types, Named, Hook
<1>2. \A h \in told' : h \in Hook /\ h.inst \in issued'[h.acct]
  BY <1>1 DEF Sayable, IssuedGrows
<1>3. Unarchivings' = Unarchivings BY DEF Unarchivings
<1>4. Accounted' BY <1>3 DEF Accounted
<1> QED BY <1>2, <1>4

LEMMA OneMoreKind ==
    ASSUME NEW kind, Types, Counted(kind)
    PROVE  ops' \in Nat
BY DEF Counted, Types

(* Rows, syncs and scans do not move with GitHub. *)
RowsAlone == repo' = repo /\ revived' = revived /\ sync' = sync /\ scanKey' = scanKey
                 /\ waiting' = waiting

LEMMA SyncsStay ==
    ASSUME Types, Named, IssuedGrows, sync' = sync
    PROVE  \A t \in Syncs : SyncNamed(t)'
<1> SUFFICES ASSUME NEW t \in Syncs, sync[t].stage # "idle"
             PROVE  sync[t].acct \in Accounts /\ sync[t].inst \in issued'[sync[t].acct]
  BY DEF SyncNamed
<1>1. sync[t].acct \in Accounts /\ sync[t].inst \in issued[sync[t].acct] BY DEF Named
<1> QED BY <1>1 DEF IssuedGrows

LEMMA NextInstTyped == ASSUME Types PROVE NextInst \in Nat /\ NextInst # 0
<1>1. IsFiniteSet(Issued) BY DEF Types
<1>2. Cardinality(Issued) \in Nat BY <1>1, FS_CardinalityType
<1>3. NextInst = 1 + Cardinality(Issued) BY DEF NextInst, Issued
<1> QED BY <1>2, <1>3

LEMMA InstallKeeps ==
    ASSUME Types, Named, Accounted, NEW a \in Accounts, Install(a), RowsAlone
    PROVE  Types' /\ Named' /\ Accounted' /\ IssuedGrows
<1> DEFINE i == NextInst
           rs == {r \in Repos : home[r] = a}
           none == {}
           hooks == {Webhook("created", a, i, none), Webhook("added", a, i, rs)}
<1>1. i \in Nat /\ i # 0 BY NextInstTyped
<1>2. /\ inst' = [inst EXCEPT ![a] = i] /\ issued' = [issued EXCEPT ![a] = @ \cup {i}]
      /\ granted' = granted \cup rs /\ told' = told \cup hooks
      /\ home' = home /\ unarchivals' = unarchivals
  BY DEF Install, GitHubOnly
<1>3. ops' \in Nat BY OneMoreKind DEF Install
<1>t. "created" \in Kinds /\ "added" \in Kinds /\ none \in SUBSET Repos /\ rs \in SUBSET Repos
  BY DEF Kinds
<1> HIDE DEF i, none
<1>4. inst' \in [Accounts -> Nat] /\ issued' \in [Accounts -> SUBSET Nat]
  BY <1>1, <1>2 DEF Types
<1>5. IssuedGrows /\ i \in issued'[a] BY <1>2 DEF IssuedGrows, Types
<1>6. IsFiniteSet(Issued')
  <2>1. Issued' = Issued \cup {i} BY <1>2 DEF Issued, Types
  <2> QED BY <2>1, FS_AddElement DEF Types
<1>7. \A h \in hooks : Sayable(h) /\ h.kind # "unarchived"
  <2>1. /\ Webhook("created", a, i, none) \in Hook
        /\ Webhook("created", a, i, none).kind = "created"
        /\ Webhook("created", a, i, none).acct = a /\ Webhook("created", a, i, none).inst = i
    BY <1>1, <1>t, HookTyped
  <2>2. /\ Webhook("added", a, i, rs) \in Hook
        /\ Webhook("added", a, i, rs).kind = "added"
        /\ Webhook("added", a, i, rs).acct = a /\ Webhook("added", a, i, rs).inst = i
    BY <1>1, <1>t, HookTyped
  <2> QED BY <1>5, <2>1, <2>2 DEF Sayable
<1> HIDE DEF hooks
<1>8. told' \in SUBSET Hook /\ (\A h \in told' : h.inst \in issued'[h.acct]) /\ Accounted'
  BY <1>2, <1>5, <1>7, Hears DEF RowsAlone
<1>9. \A b \in Accounts : inst'[b] # 0 => inst'[b] \in issued'[b]
  BY <1>2, <1>5 DEF Types, Named, IssuedGrows
<1>10. \A r \in granted' : inst'[home'[r]] # 0
  BY <1>1, <1>2 DEF Types, Named
<1>11. \A t \in Syncs : SyncNamed(t)' BY <1>5, SyncsStay DEF RowsAlone
<1>s. suspended' \in SUBSET {b \in Accounts : inst'[b] # 0}
  BY <1>1, <1>2 DEF Install, Types, Named
<1>12. Named' BY <1>s, <1>8, <1>9, <1>10, <1>11 DEF Named, SyncNamed
<1>13. granted' \in SUBSET Repos /\ home' \in [Repos -> Accounts] /\ unarchivals' \in Nat
  BY <1>2 DEF Types
<1>14. Types' BY <1>3, <1>4, <1>6, <1>8, <1>13 DEF Types, RowsAlone
<1> QED BY <1>5, <1>8, <1>12, <1>14

(* A step of GitHub that adds no installation. *)
LEMMA OtherKeeps ==
    ASSUME Types, Named, Accounted, RowsAlone, issued' = issued,
           inst' \in [Accounts -> Nat], home' \in [Repos -> Accounts], granted' \in SUBSET Repos,
           ops' \in Nat, unarchivals' \in Nat,
           \A a \in Accounts : inst'[a] \in {0, inst[a]},
           \A r \in granted' : inst'[home'[r]] # 0,
           suspended' \in SUBSET {a \in Accounts : inst'[a] # 0},
           told' \in SUBSET Hook, \A h \in told' : h.inst \in issued'[h.acct]
    PROVE  Types' /\ Named' /\ IssuedGrows
<1>1. IssuedGrows BY DEF IssuedGrows
<1>2. \A t \in Syncs : SyncNamed(t)' BY <1>1, SyncsStay DEF RowsAlone
<1>3. \A a \in Accounts : inst'[a] # 0 => inst'[a] \in issued'[a] BY DEF Named
<1>4. Named' BY <1>2, <1>3 DEF Named, SyncNamed
<1>5. Issued' = Issued BY DEF Issued
<1>6. Types' BY <1>5 DEF Types, RowsAlone
<1> QED BY <1>1, <1>4, <1>6

(* It says one thing, of a repository's account that has an installation. *)
LEMMA Says ==
    ASSUME Types, Named, Accounted, issued' = issued, unarchivals' = unarchivals,
           revived' = revived,
           NEW k \in Kinds \ {"unarchived"}, NEW a \in Accounts, inst[a] # 0,
           NEW rs \in SUBSET Repos, Tells(k, a, inst[a], rs)
    PROVE  told' \in SUBSET Hook /\ (\A h \in told' : h.inst \in issued'[h.acct]) /\ Accounted'
<1> DEFINE h == Webhook(k, a, inst[a], rs)
<1>1. inst[a] \in Nat /\ inst[a] \in issued[a] BY DEF Types, Named
<1>2. h \in Hook /\ h.kind = k /\ h.acct = a /\ h.inst = inst[a] BY <1>1, HookTyped
<1>3. told' = told \cup {h} BY DEF Tells
<1> HIDE DEF h
<1>4. Sayable(h) BY <1>1, <1>2 DEF Sayable
<1>5. IssuedGrows BY DEF IssuedGrows
<1> DEFINE hooks == {h}
<1>6. (\A x \in hooks : Sayable(x)) /\ (\A x \in hooks : x.kind # "unarchived")
  BY <1>2, <1>4 DEF Kinds
<1>7. told' = told \cup hooks BY <1>3
<1> HIDE DEF hooks
<1> QED BY <1>7, <1>5, <1>6, Hears

LEMMA UninstallKeeps ==
    ASSUME Types, Named, Accounted, NEW a \in Accounts, Uninstall(a), RowsAlone
    PROVE  Types' /\ Named' /\ Accounted' /\ IssuedGrows
<1>1. /\ inst[a] # 0 /\ inst' = [inst EXCEPT ![a] = 0] /\ issued' = issued /\ home' = home
      /\ granted' = {r \in granted : home[r] # a} /\ unarchivals' = unarchivals
      /\ Tells("deleted", a, inst[a], {})
  BY DEF Uninstall
<1>2. ops' \in Nat BY OneMoreKind DEF Uninstall
<1>3. told' \in SUBSET Hook /\ (\A h \in told' : h.inst \in issued'[h.acct]) /\ Accounted'
  <2>1. "deleted" \in Kinds \ {"unarchived"} /\ {} \in SUBSET Repos BY DEF Kinds
  <2> QED BY <1>1, <2>1, Says DEF RowsAlone
<1>4. inst' \in [Accounts -> Nat] /\ \A b \in Accounts : inst'[b] \in {0, inst[b]}
  BY <1>1 DEF Types
<1>5. \A r \in granted' : inst'[home'[r]] # 0 BY <1>1 DEF Types, Named
<1>6. home' \in [Repos -> Accounts] /\ granted' \in SUBSET Repos /\ unarchivals' \in Nat
  BY <1>1 DEF Types
<1>7. suspended' \in SUBSET {b \in Accounts : inst'[b] # 0}
  BY <1>1 DEF Uninstall, Suspend, Unsuspend, Types, Named
<1> QED BY <1>7, <1>1, <1>2, <1>3, <1>4, <1>5, <1>6, OtherKeeps

LEMMA SuspensionKeeps ==
    ASSUME Types, Named, Accounted, NEW a \in Accounts, RowsAlone,
           Suspend(a) \/ Unsuspend(a)
    PROVE  Types' /\ Named' /\ Accounted' /\ IssuedGrows
<1>1. /\ inst[a] # 0 /\ inst' = inst /\ issued' = issued /\ home' = home
      /\ granted' = granted /\ unarchivals' = unarchivals
      /\ Tells("suspend", a, inst[a], {}) \/ Tells("unsuspend", a, inst[a], {})
  BY DEF Suspend, Unsuspend, Named
<1>2. ops' \in Nat BY OneMoreKind DEF Suspend, Unsuspend
<1>3. told' \in SUBSET Hook /\ (\A h \in told' : h.inst \in issued'[h.acct]) /\ Accounted'
  <2>1. "suspend" \in Kinds \ {"unarchived"} /\ "unsuspend" \in Kinds \ {"unarchived"}
        /\ {} \in SUBSET Repos
    BY DEF Kinds
  <2> QED BY <1>1, <2>1, Says DEF RowsAlone
<1>4. inst' \in [Accounts -> Nat] /\ \A b \in Accounts : inst'[b] \in {0, inst[b]}
  BY <1>1 DEF Types
<1>5. \A r \in granted' : inst'[home'[r]] # 0 BY <1>1 DEF Types, Named
<1>6. home' \in [Repos -> Accounts] /\ granted' \in SUBSET Repos /\ unarchivals' \in Nat
  BY <1>1 DEF Types
<1>7. suspended' \in SUBSET {b \in Accounts : inst'[b] # 0}
  BY <1>1 DEF Uninstall, Suspend, Unsuspend, Types, Named
<1> QED BY <1>7, <1>1, <1>2, <1>3, <1>4, <1>5, <1>6, OtherKeeps

LEMMA GrantsKeeps ==
    ASSUME Types, Named, Accounted, RowsAlone, NEW r \in Repos, inst[home[r]] # 0,
           NEW k \in Kinds \ {"unarchived"}, Tells(k, home[r], inst[home[r]], {r}),
           granted' \in SUBSET (granted \cup {r}), ops' \in Nat,
           inst' = inst, issued' = issued, home' = home, suspended' = suspended,
           unarchivals' = unarchivals
    PROVE  Types' /\ Named' /\ Accounted' /\ IssuedGrows
<1>0. home[r] \in Accounts /\ {r} \in SUBSET Repos BY DEF Types
<1>1. told' \in SUBSET Hook /\ (\A h \in told' : h.inst \in issued'[h.acct]) /\ Accounted'
  BY <1>0, Says DEF RowsAlone
<1>2. inst' \in [Accounts -> Nat] /\ \A b \in Accounts : inst'[b] \in {0, inst[b]} BY DEF Types
<1>3. \A s \in granted' : inst'[home'[s]] # 0 BY DEF Named
<1>4. home' \in [Repos -> Accounts] /\ granted' \in SUBSET Repos /\ unarchivals' \in Nat
  BY DEF Types
<1>5. suspended' \in SUBSET {b \in Accounts : inst'[b] # 0} BY DEF Named
<1> QED BY <1>1, <1>2, <1>3, <1>4, <1>5, OtherKeeps

LEMMA GrantStepKeeps ==
    ASSUME Types, Named, Accounted, RowsAlone, NEW r \in Repos,
           AddRepo(r) \/ RemoveRepo(r) \/ DeleteRepo(r) \/ Archive(r)
    PROVE  Types' /\ Named' /\ Accounted' /\ IssuedGrows
<1>1. /\ inst' = inst /\ issued' = issued /\ home' = home /\ suspended' = suspended
      /\ unarchivals' = unarchivals /\ inst[home[r]] # 0
      /\ granted' \in SUBSET (granted \cup {r})
  BY DEF AddRepo, RemoveRepo, DeleteRepo, Archive, Grants, Named
<1>2. ops' \in Nat
  BY OneMoreKind DEF AddRepo, RemoveRepo, DeleteRepo, Archive, Grants
<1>3. \E k \in {"added", "removed", "gone", "archived"} :
         Tells(k, home[r], inst[home[r]], {r})
  BY DEF AddRepo, RemoveRepo, DeleteRepo, Archive, Grants
<1>4. PICK k \in {"added", "removed", "gone", "archived"} :
         Tells(k, home[r], inst[home[r]], {r})
  BY <1>3
<1>5. k \in Kinds \ {"unarchived"} BY DEF Kinds
<1> QED BY <1>1, <1>2, <1>4, <1>5, GrantsKeeps

LEMMA UnarchiveKeeps ==
    ASSUME Types, Named, Accounted, RowsAlone, NEW r \in Repos, Unarchive(r)
    PROVE  Types' /\ Named' /\ Accounted' /\ IssuedGrows
<1> DEFINE a == home[r]
           h == Webhook("unarchived", a, inst[a], {r})
<1>0. a \in Accounts /\ inst[a] \in Nat /\ inst[a] \in issued[a] /\ {r} \in SUBSET Repos
  BY DEF Unarchive, Types, Named
<1>1. /\ inst' = inst /\ issued' = issued /\ home' = home /\ suspended' = suspended
      /\ granted' = granted /\ unarchivals' = unarchivals + 1
      /\ told' = told \cup {h} /\ unarchivals \in Nat /\ revived \in Nat /\ revived' = revived
  BY DEF Unarchive, Tells, Types, RowsAlone
<1>2. ops' \in Nat BY OneMoreKind DEF Unarchive
<1>3. h \in Hook /\ h.kind = "unarchived" /\ h.acct = a /\ h.inst = inst[a] /\ h.repos = {r}
  BY <1>0, HookTyped DEF Kinds
<1> HIDE DEF h, a
<1>4. told' \in SUBSET Hook /\ \A m \in told' : m.inst \in issued'[m.acct]
  BY <1>0, <1>1, <1>3 DEF Types, Named
<1>5. Accounted'
  <2>1. Unarchivings' = Unarchivings \cup {h} BY <1>1, <1>3 DEF Unarchivings
  <2>2. IsFiniteSet(Unarchivings) /\ Cardinality(Unarchivings) \in Nat
    BY FS_CardinalityType DEF Accounted
  <2>3. /\ IsFiniteSet(Unarchivings')
        /\ Cardinality(Unarchivings') =
              IF h \in Unarchivings THEN Cardinality(Unarchivings)
              ELSE Cardinality(Unarchivings) + 1
    BY <2>1, <2>2, FS_AddElement
  <2>4. revived + Cardinality(Unarchivings) <= unarchivals BY DEF Accounted
  <2>5. revived' + Cardinality(Unarchivings') <= unarchivals' BY <1>1, <2>2, <2>3, <2>4
  <2>6. \A m \in Unarchivings' : \E s \in Repos : m.repos = {s} BY <1>3, <2>1 DEF Accounted
  <2> QED BY <2>3, <2>5, <2>6 DEF Accounted
<1>6. inst' \in [Accounts -> Nat] /\ \A b \in Accounts : inst'[b] \in {0, inst[b]}
  BY <1>1 DEF Types
<1>7. /\ \A s \in granted' : inst'[home'[s]] # 0
      /\ suspended' \in SUBSET {b \in Accounts : inst'[b] # 0}
  BY <1>1 DEF Named
<1>8. home' \in [Repos -> Accounts] /\ granted' \in SUBSET Repos /\ unarchivals' \in Nat
  BY <1>1 DEF Types
<1> QED BY <1>1, <1>2, <1>4, <1>5, <1>6, <1>7, <1>8, OtherKeeps

LEMMA TransferKeeps ==
    ASSUME Types, Named, Accounted, RowsAlone, NEW r \in Repos, NEW a \in Accounts, Transfer(r, a)
    PROVE  Types' /\ Named' /\ Accounted' /\ IssuedGrows
<1> DEFINE b == home[r]
           left == Webhook("removed", b, inst[b], {r})
           came == Webhook("added", a, inst[a], {r})
           hooks == (IF r \in granted THEN {left} ELSE {}) \cup
                    (IF inst[a] # 0 THEN {came} ELSE {})
<1>1. /\ inst' = inst /\ issued' = issued /\ home' = [home EXCEPT ![r] = a]
      /\ suspended' = suspended /\ unarchivals' = unarchivals
      /\ granted' = IF inst[a] = 0 THEN granted \ {r} ELSE granted \cup {r}
      /\ told' = told \cup hooks
  BY DEF Transfer
<1>2. ops' \in Nat BY OneMoreKind DEF Transfer
<1>3. IssuedGrows BY <1>1 DEF IssuedGrows
<1>4. {r} \in SUBSET Repos /\ b \in Accounts /\ inst[a] \in Nat /\ inst[b] \in Nat
  BY DEF Types
<1>5. /\ left \in Hook /\ left.kind = "removed" /\ left.acct = b /\ left.inst = inst[b]
      /\ came \in Hook /\ came.kind = "added" /\ came.acct = a /\ came.inst = inst[a]
  BY <1>4, HookTyped DEF Kinds
<1> HIDE DEF left, came, b
<1>6. r \in granted => Sayable(left)
  <2>1. ASSUME r \in granted PROVE inst[b] \in issued[b]
    <3>1. inst[b] # 0 BY <2>1 DEF Named, b
    <3> QED BY <1>4, <3>1 DEF Named
  <2> QED BY <1>1, <1>5, <2>1 DEF Sayable
<1>7. inst[a] # 0 => Sayable(came) BY <1>1, <1>5 DEF Sayable, Named
<1>8. (\A h \in hooks : Sayable(h)) /\ (\A h \in hooks : h.kind # "unarchived")
  BY <1>5, <1>6, <1>7
<1> HIDE DEF hooks
<1>9. told' \in SUBSET Hook /\ (\A h \in told' : h.inst \in issued'[h.acct]) /\ Accounted'
  BY <1>1, <1>3, <1>8, Hears DEF RowsAlone
<1>10. inst' \in [Accounts -> Nat] /\ \A x \in Accounts : inst'[x] \in {0, inst[x]}
  BY <1>1 DEF Types
<1>11. \A s \in granted' : inst'[home'[s]] # 0
  BY <1>1 DEF Types, Named
<1>12. home' \in [Repos -> Accounts] /\ granted' \in SUBSET Repos /\ unarchivals' \in Nat
  BY <1>1 DEF Types
<1>13. suspended' \in SUBSET {x \in Accounts : inst'[x] # 0} BY <1>1 DEF Named
<1> QED BY <1>1, <1>2, <1>9, <1>10, <1>11, <1>12, <1>13, OtherKeeps

(* No step of GitHub changes a row, a sync or a scan. *)
LEMMA GitHubKeeps ==
    ASSUME Types, Named, Accounted, GitHub
    PROVE  Types' /\ Named' /\ Accounted' /\ IssuedGrows /\ RowsAlone
<1>1. RowsAlone
  BY DEF GitHub, Install, Uninstall, Suspend, Unsuspend, AddRepo, RemoveRepo, DeleteRepo, Archive,
         Unarchive, Transfer, Grants, GitHubOnly, rows, scans, RowsAlone
<1>2. ASSUME NEW a \in Accounts, Install(a) \/ Uninstall(a) \/ Suspend(a) \/ Unsuspend(a)
      PROVE  Types' /\ Named' /\ Accounted' /\ IssuedGrows
  BY <1>1, <1>2, InstallKeeps, UninstallKeeps, SuspensionKeeps
<1>3. ASSUME NEW r \in Repos,
             AddRepo(r) \/ RemoveRepo(r) \/ DeleteRepo(r) \/ Archive(r) \/ Unarchive(r)
      PROVE  Types' /\ Named' /\ Accounted' /\ IssuedGrows
  BY <1>1, <1>3, GrantStepKeeps, UnarchiveKeeps
<1>4. ASSUME NEW r \in Repos, NEW a \in Accounts, Transfer(r, a)
      PROVE  Types' /\ Named' /\ Accounted' /\ IssuedGrows
  BY <1>1, <1>4, TransferKeeps
<1> QED BY <1>1, <1>2, <1>3, <1>4 DEF GitHub

-----------------------------------------------------------------------------
(* The steps of the program *)

GitHubAlone ==
    /\ inst' = inst /\ issued' = issued /\ suspended' = suspended /\ granted' = granted
    /\ home' = home /\ unarchivals' = unarchivals

LEMMA InsideKeeps ==
    ASSUME Types, Named, GitHubAlone, told' \in SUBSET told, repo' \in [Repos -> AnyRow],
           sync' \in [Syncs -> SyncTask], \A t \in Syncs : SyncNamed(t)',
           scanKey' \in SUBSET Repos, waiting' \in [Repos -> Nat], revived' \in Nat, ops' \in Nat
    PROVE  Types' /\ Named' /\ IssuedGrows
<1>1. Issued' = Issued BY DEF GitHubAlone, Issued
<1>2. Types' BY <1>1 DEF Types, GitHubAlone
<1>3. Named'
  <2>1. \A a \in Accounts : inst'[a] # 0 => inst'[a] \in issued'[a] BY DEF Named, GitHubAlone
  <2>2. \A r \in granted' : inst'[home'[r]] # 0 BY DEF Named, GitHubAlone
  <2>3. suspended' \in SUBSET {a \in Accounts : inst'[a] # 0} BY DEF Named, GitHubAlone
  <2>4. \A m \in told' : m.inst \in issued'[m.acct] BY DEF Named, GitHubAlone
  <2> QED BY <2>1, <2>2, <2>3, <2>4 DEF Named, SyncNamed
<1> QED BY <1>2, <1>3 DEF IssuedGrows, GitHubAlone

LEMMA OwnersKept ==
    ASSUME Types, RowsOwned, AllFlagged, RowsKept, IssuedGrows
    PROVE  RowsOwned' /\ AllFlagged'
<1>1. ASSUME NEW r \in Repos
      PROVE  /\ repo'[r].org # External => repo'[r].inst \in issued'[repo'[r].org]
             /\ Flagged(repo'[r])
  <2>1. /\ repo'[r].org = repo[r].org /\ repo'[r].inst = repo[r].inst
        /\ Flagged(repo[r]) => Flagged(repo'[r])
    BY DEF RowsKept, SameOwner
  <2>2. repo[r].org \in Orgs BY DEF Types, AnyRow
  <2>3. ASSUME repo[r].org # External PROVE repo[r].inst \in issued'[repo[r].org]
    <3>1. repo[r].org \in Accounts BY <2>2, <2>3 DEF Orgs
    <3> QED BY <2>3, <3>1 DEF RowsOwned, IssuedGrows
  <2> QED BY <2>1, <2>3 DEF AllFlagged
<1> QED BY <1>1 DEF RowsOwned, AllFlagged

LEMMA WebhookKeeps == ASSUME IInv, GitHubWebhook PROVE IInv'
<1>1. PICK m \in told :
        /\ told' = told \ {m} /\ Handling
        /\ \/ HandleInstalled(m) \/ HandleUninstalled(m) \/ HandleAdded(m)
           \/ HandleRemoved(m) \/ HandleArchivedOrGone(m) \/ HandleUnarchived(m)
  BY DEF GitHubWebhook, Seen
<1>2. GitHubAlone /\ scanKey' = scanKey /\ waiting' = waiting /\ ops' = ops
  BY <1>1 DEF Handling, github, scans, GitHubAlone
<1>3. RowsKept BY <1>1, HandlerRows DEF IInv
<1>4. sync' \in [Syncs -> SyncTask] /\ \A t \in Syncs : SyncNamed(t)'
  BY <1>1, <1>2, HandlerSyncs DEF IInv, GitHubAlone
<1>5. Accounted' /\ revived' \in Nat BY <1>1, <1>2, HandlerRevives DEF IInv, GitHubAlone
<1>6. /\ told' \in SUBSET told /\ scanKey' \in SUBSET Repos /\ waiting' \in [Repos -> Nat]
      /\ ops' \in Nat /\ repo' \in [Repos -> AnyRow]
  BY <1>1, <1>2, <1>3 DEF IInv, Types, RowsKept
<1>7. Types' /\ Named' /\ IssuedGrows BY <1>2, <1>4, <1>5, <1>6, InsideKeeps DEF IInv
<1>8. RowsOwned' /\ AllFlagged' BY <1>3, <1>7, OwnersKept DEF IInv
<1>9. Keyed' BY <1>2 DEF IInv, Keyed
<1> QED BY <1>5, <1>7, <1>8, <1>9 DEF IInv

ToStage(a, s, rs) == [a EXCEPT !.stage = s, !.rs = rs]

LEMMA Staged ==
    ASSUME NEW a \in SyncTask, NEW s \in Stages, NEW rs \in SUBSET Repos
    PROVE  /\ ToStage(a, s, rs) \in SyncTask
           /\ ToStage(a, s, rs).acct = a.acct /\ ToStage(a, s, rs).inst = a.inst
<1> DEFINE b == ToStage(a, s, rs)
<1>1. a = [x \in SyncFields |-> a[x]] BY SyncByFields
<1>2. b = [x \in SyncFields |-> CASE x = "stage" -> s [] x = "rs" -> rs [] OTHER -> a[x]]
  BY <1>1 DEF SyncFields, ToStage
<1> HIDE DEF b
<1>3. b.stage = s /\ b.rs = rs /\ b.acct = a.acct /\ b.inst = a.inst
  BY <1>2 DEF SyncFields
<1>4. b = [x \in SyncFields |-> b[x]] BY <1>2
<1>5. b \in SyncTask BY <1>3, <1>4, SyncByFields
<1> QED BY <1>3, <1>5 DEF b

(* A sync keeps the installation it works for. *)
LEMMA GoesOn ==
    ASSUME Types, Named, issued' = issued, NEW t \in Syncs, sync[t].stage # "idle",
           NEW next \in SyncTask, Goes(t, next),
           next.stage = "idle" \/ (next.acct = sync[t].acct /\ next.inst = sync[t].inst)
    PROVE  sync' \in [Syncs -> SyncTask] /\ \A u \in Syncs : SyncNamed(u)'
<1>1. sync' = [sync EXCEPT ![t] = next] /\ sync \in [Syncs -> SyncTask] BY DEF Goes, Types
<1>2. sync' \in [Syncs -> SyncTask] BY <1>1
<1>3. \A u \in Syncs \ {t} : sync'[u] = sync[u] BY <1>1
<1>4. \A u \in Syncs : SyncNamed(u) BY DEF Named, SyncNamed
<1>5. sync'[t] = next BY <1>1
<1>6. SyncNamed(t)' BY <1>4, <1>5 DEF SyncNamed
<1>7. \A u \in Syncs \ {t} : SyncNamed(u)' BY <1>3, <1>4 DEF SyncNamed
<1> QED BY <1>2, <1>6, <1>7

LEMMA SyncTasks ==
    ASSUME Types, Named, NEW t \in Syncs, SyncStep(t)
    PROVE  /\ GitHubAlone /\ told' = told /\ revived' = revived /\ ops' \in Nat
           /\ sync[t].stage # "idle"
           /\ sync' \in [Syncs -> SyncTask] /\ \A u \in Syncs : SyncNamed(u)'
<1>1. sync[t].stage # "idle"
  BY DEF SyncStep, FetchRepositories, UpsertRepositories, EnqueueInitialScans, SyncFails,
         SyncCrashes, At
<1>2. GitHubAlone /\ told' = told /\ revived' = revived
  BY DEF SyncStep, FetchRepositories, UpsertRepositories, EnqueueInitialScans, SyncFails,
         SyncCrashes, Working, github, GitHubAlone
<1>3. ops' \in Nat
  BY OneMoreKind DEF SyncStep, FetchRepositories, UpsertRepositories, EnqueueInitialScans,
     SyncFails, SyncCrashes, Types
<1>4. sync[t] \in SyncTask /\ sync[t].acct \in Accounts /\ sync[t].inst \in Nat
  BY <1>1 DEF Types, Named, SyncTask
<1>5. \E next \in SyncTask :
         /\ Goes(t, next)
         /\ next.stage = "idle" \/ (next.acct = sync[t].acct /\ next.inst = sync[t].inst)
  <2>1. Idle \in SyncTask /\ Idle.stage = "idle" BY <1>4, QueuedTask
  <2>2. CASE FetchRepositories(t)
    <3> DEFINE rs == {r \in granted : home[r] = sync[t].acct}
    <3>1. Goes(t, ToStage(sync[t], "listed", rs)) \/ Goes(t, Idle)
      BY <2>2 DEF FetchRepositories, ToStage
    <3>2. rs \in SUBSET Repos /\ "listed" \in Stages BY DEF Types, Stages
    <3> HIDE DEF rs
    <3> QED BY <1>4, <2>1, <3>1, <3>2, Staged
  <2>3. CASE UpsertRepositories(t)
    <3> DEFINE rs == {r \in sync[t].rs : ~repo[r].scanned}
    <3>1. Goes(t, ToStage(sync[t], "stored", rs)) BY <2>3 DEF UpsertRepositories, ToStage
    <3>2. rs \in SUBSET Repos /\ "stored" \in Stages BY <1>4 DEF SyncTask, Stages
    <3> HIDE DEF rs
    <3> QED BY <1>4, <3>1, <3>2, Staged
  <2>4. CASE EnqueueInitialScans(t) \/ SyncFails(t)
    BY <2>1, <2>4 DEF EnqueueInitialScans, SyncFails
  <2>5. CASE SyncCrashes(t)
    <3>1. Goes(t, Queued(sync[t].acct, sync[t].inst)) BY <2>5 DEF SyncCrashes
    <3> QED BY <1>4, <3>1, QueuedTask
  <2> QED BY <2>2, <2>3, <2>4, <2>5 DEF SyncStep
<1>6. issued' = issued BY <1>2 DEF GitHubAlone
<1>7. sync' \in [Syncs -> SyncTask] /\ \A u \in Syncs : SyncNamed(u)'
  BY <1>1, <1>5, <1>6, GoesOn
<1> QED BY <1>1, <1>2, <1>3, <1>7

(* Only the rows of the list are written, and they get the sync's owner. *)
LEMMA UpsertedRows ==
    ASSUME IInv, NEW t \in Syncs, UpsertRepositories(t)
    PROVE  repo' \in [Repos -> AnyRow] /\ (issued' = issued => RowsOwned') /\ AllFlagged'
<1> DEFINE a == sync[t].acct
           i == sync[t].inst
<1>1. a \in Accounts /\ i \in issued[a] /\ i \in Nat /\ repo \in [Repos -> AnyRow]
  BY DEF UpsertRepositories, At, IInv, Named, Types, SyncTask
<1>2. repo' = [r \in Repos |-> IF r \in sync[t].rs THEN Upserted(repo[r], a, i) ELSE repo[r]]
  BY DEF UpsertRepositories, Rewritten
<1> HIDE DEF a, i
<1>3. ASSUME NEW r \in Repos
      PROVE  /\ repo'[r] \in AnyRow /\ Flagged(repo'[r])
             /\ repo'[r].org # External => repo'[r].inst \in issued[repo'[r].org]
  <2>1. repo[r] \in AnyRow /\ Flagged(repo[r]) BY <1>1 DEF IInv, AllFlagged
  <2>2. CASE r \in sync[t].rs
    <3>1. repo'[r] = Upserted(repo[r], a, i) BY <1>2, <2>2
    <3>2. a \in Orgs BY <1>1 DEF Orgs
    <3>3. /\ repo'[r] \in AnyRow /\ repo'[r].org = a /\ repo'[r].inst = i
          /\ Flagged(repo[r]) => Flagged(repo'[r])
      BY <1>1, <2>1, <3>1, <3>2, Owned
    <3> QED BY <1>1, <2>1, <3>3
  <2>3. CASE r \notin sync[t].rs
    <3>1. repo'[r] = repo[r] BY <1>2, <2>3
    <3> QED BY <2>1, <3>1 DEF IInv, RowsOwned
  <2> QED BY <2>2, <2>3
<1>4. repo' \in [Repos -> AnyRow] BY <1>2, <1>3
<1> QED BY <1>3, <1>4 DEF RowsOwned, AllFlagged

(* A first scan is sent with its key, and not while the key is held. *)
LEMMA EnqueuedScans ==
    ASSUME Types, Keyed, NEW t \in Syncs, EnqueueInitialScans(t)
    PROVE  scanKey' \in SUBSET Repos /\ waiting' \in [Repos -> Nat] /\ Keyed'
<1> DEFINE rs == sync[t].rs \ AlreadyQueued(sync[t].rs)
<1>1. /\ scanKey' = scanKey \cup rs
      /\ waiting' = [r \in Repos |-> waiting[r] + IF r \in rs THEN 1 ELSE 0]
  BY DEF EnqueueInitialScans
<1>2. rs \in SUBSET Repos /\ rs \cap scanKey = {} BY DEF Types, SyncTask, AlreadyQueued
<1> HIDE DEF rs
<1>3. waiting \in [Repos -> Nat] /\ scanKey \in SUBSET Repos BY DEF Types
<1>4. ASSUME NEW r \in Repos
      PROVE  waiting'[r] \in Nat /\ waiting'[r] <= 1 /\ (waiting'[r] > 0 => r \in scanKey')
  <2>1. waiting[r] \in Nat /\ waiting[r] <= 1 /\ (waiting[r] > 0 => r \in scanKey)
    BY <1>3 DEF Keyed
  <2>2. waiting'[r] = waiting[r] + IF r \in rs THEN 1 ELSE 0 BY <1>1
  <2> QED BY <1>1, <1>2, <2>1, <2>2
<1>5. waiting' \in [Repos -> Nat] BY <1>1, <1>4
<1> QED BY <1>1, <1>2, <1>3, <1>4, <1>5 DEF Keyed

LEMMA SyncKeeps == ASSUME IInv, NEW t \in Syncs, SyncStep(t) PROVE IInv'
<1>1. /\ GitHubAlone /\ told' = told /\ revived' = revived /\ ops' \in Nat
      /\ sync' \in [Syncs -> SyncTask] /\ \A u \in Syncs : SyncNamed(u)'
  BY SyncTasks DEF IInv
<1>2. repo' \in [Repos -> AnyRow] /\ RowsOwned' /\ AllFlagged'
  <2>1. CASE UpsertRepositories(t) BY <1>1, <2>1, UpsertedRows DEF GitHubAlone
  <2>2. CASE repo' = repo BY <1>1, <2>2 DEF IInv, Types, RowsOwned, AllFlagged, GitHubAlone
  <2> QED BY <2>1, <2>2 DEF SyncStep, FetchRepositories, EnqueueInitialScans, SyncFails, SyncCrashes
<1>3. scanKey' \in SUBSET Repos /\ waiting' \in [Repos -> Nat] /\ Keyed'
  <2>1. CASE EnqueueInitialScans(t) BY <2>1, EnqueuedScans DEF IInv
  <2>2. CASE scanKey' = scanKey /\ waiting' = waiting BY <2>2 DEF IInv, Types, Keyed
  <2> QED BY <2>1, <2>2 DEF SyncStep, FetchRepositories, UpsertRepositories, SyncFails,
                            SyncCrashes, scans
<1>4. revived' \in Nat /\ told' \in SUBSET told BY <1>1 DEF IInv, Types
<1>5. Types' /\ Named' BY <1>1, <1>2, <1>3, <1>4, InsideKeeps DEF IInv
<1>6. Unarchivings' = Unarchivings BY <1>1 DEF Unarchivings
<1>7. Accounted' BY <1>1, <1>6 DEF IInv, Accounted, GitHubAlone
<1> QED BY <1>2, <1>3, <1>5, <1>7 DEF IInv

LEMMA ScanKeeps == ASSUME IInv, NEW r \in Repos, RunInitialScan(r) PROVE IInv'
<1>1. /\ GitHubAlone /\ told' = told /\ revived' = revived /\ ops' = ops /\ sync' = sync
      /\ scanKey' = scanKey /\ waiting' = [waiting EXCEPT ![r] = @ - 1] /\ waiting[r] > 0
  BY DEF RunInitialScan, github, GitHubAlone
<1>2. RowsKept
  <2>0. repo \in [Repos -> AnyRow] BY DEF IInv, Types
  <2>1. CASE repo' = repo BY <2>1, RowsStay DEF IInv
  <2>2. CASE repo' = [repo EXCEPT ![r] = ToScanned(repo[r])]
    <3>1. SameOwner(repo[r], ToScanned(repo[r])) BY <2>0, Scanned
    <3>2. ToScanned(repo[r]) \in AnyRow BY <3>1 DEF SameOwner
    <3>3. ASSUME NEW s \in Repos PROVE repo'[s] \in AnyRow /\ SameOwner(repo[s], repo'[s])
      <4>1. repo[s] \in AnyRow BY <2>0
      <4>2. repo'[s] = IF s = r THEN ToScanned(repo[r]) ELSE repo[s] BY <2>0, <2>2
      <4> QED BY <3>1, <3>2, <4>1, <4>2, SelfOwner
    <3>4. repo' \in [Repos -> AnyRow] BY <2>0, <2>2, <3>2
    <3> QED BY <3>3, <3>4 DEF RowsKept
  <2> QED BY <2>1, <2>2 DEF RunInitialScan, ToScanned
<1>3. waiting \in [Repos -> Nat] BY DEF IInv, Types
<1>4. waiting' \in [Repos -> Nat] BY <1>1, <1>3
<1>5. Keyed' BY <1>1, <1>3 DEF IInv, Keyed
<1>6. sync' \in [Syncs -> SyncTask] /\ \A t \in Syncs : SyncNamed(t)'
  BY <1>1 DEF IInv, Types, Named, SyncNamed, GitHubAlone
<1>7. /\ told' \in SUBSET told /\ repo' \in [Repos -> AnyRow] /\ scanKey' \in SUBSET Repos
      /\ revived' \in Nat /\ ops' \in Nat
  BY <1>1, <1>2 DEF IInv, Types, RowsKept
<1>8. Types' /\ Named' /\ IssuedGrows BY <1>1, <1>4, <1>6, <1>7, InsideKeeps DEF IInv
<1>9. RowsOwned' /\ AllFlagged' BY <1>2, <1>8, OwnersKept DEF IInv
<1>10. Unarchivings' = Unarchivings BY <1>1 DEF Unarchivings
<1>11. Accounted' BY <1>1, <1>10 DEF IInv, Accounted, GitHubAlone
<1> QED BY <1>5, <1>8, <1>9, <1>11 DEF IInv

(* Nothing that the invariant speaks of changes, but perhaps rows and syncs. *)
LEMMA LittleKeeps ==
    ASSUME IInv, GitHubAlone, told' = told, revived' = revived, ops' \in Nat,
           RowsKept, sync' \in [Syncs -> SyncTask], \A t \in Syncs : SyncNamed(t)',
           waiting' = waiting, scanKey' \in SUBSET scanKey,
           \A r \in scanKey \ scanKey' : waiting[r] = 0
    PROVE  IInv'
<1>1. /\ told' \in SUBSET told /\ repo' \in [Repos -> AnyRow] /\ scanKey' \in SUBSET Repos
      /\ revived' \in Nat /\ waiting' \in [Repos -> Nat]
  BY DEF IInv, Types, RowsKept
<1>2. Types' /\ Named' /\ IssuedGrows BY <1>1, InsideKeeps DEF IInv
<1>3. RowsOwned' /\ AllFlagged' BY <1>2, OwnersKept DEF IInv
<1>4. Unarchivings' = Unarchivings BY DEF Unarchivings
<1>5. Accounted' BY <1>4 DEF IInv, Accounted, GitHubAlone
<1>6. Keyed' BY DEF IInv, Keyed, Types
<1> QED BY <1>2, <1>3, <1>5, <1>6 DEF IInv

LEMMA NoRowFacts == NoRow \in AnyRow /\ NoRow.org = External /\ Flagged(NoRow)
<1>1. NoRow \in AnyRow BY DEF NoRow, AnyRow, Orgs, S!RepositoryStatus
<1>2. NoRow.org = External /\ NoRow.accessible /\ NoRow.status = "active" BY DEF NoRow
<1>3. Flagged(NoRow)
  <2>1. NoRow.accessible \in BOOLEAN BY <1>1 DEF AnyRow
  <2> QED BY <1>2, <2>1 DEF Flagged
<1> QED BY <1>1, <1>2, <1>3

LEMMA ExternalRow ==
    LET b == [NoRow EXCEPT !.inst = 0] IN b \in AnyRow /\ b.org = External /\ Flagged(b)
<1> DEFINE a == NoRow
           b == [a EXCEPT !.inst = 0]
<1>0. a \in AnyRow /\ a.org = External /\ Flagged(a) BY NoRowFacts
<1> HIDE DEF a
<1>1. a = [x \in RowFields |-> a[x]] BY <1>0, RowByFields
<1>2. b = [x \in RowFields |-> CASE x = "inst" -> 0 [] OTHER -> a[x]]
  BY <1>1 DEF RowFields
<1> HIDE DEF b
<1>3. /\ b.org = a.org /\ b.inst = 0 /\ b.enabled = a.enabled /\ b.status = a.status
      /\ b.accessible = a.accessible /\ b.scanned = a.scanned
  BY <1>2 DEF RowFields
<1>4. b = [x \in RowFields |-> b[x]] BY <1>2
<1>5. b \in AnyRow BY <1>0, <1>3, <1>4, RowByFields
<1>6. b.org = External /\ Flagged(b) BY <1>0, <1>3 DEF Flagged
<1> QED BY <1>5, <1>6 DEF a, b

LEMMA UserKeeps == ASSUME IInv, UserStep PROVE IInv'
<1>1. GitHubAlone /\ told' = told /\ revived' = revived /\ waiting' = waiting /\ scanKey' = scanKey
  BY DEF UserStep, SyncInstallations, DeleteUser, CreateExternalRepository, DisableRepository,
         CheckQuota, EnableRepository, UsersOnly, github, scans, GitHubAlone
<1>2. ops' \in Nat
  <2>1. ops' = ops \/ \E k \in OpKinds : Counted(k)
    BY DEF UserStep, SyncInstallations, DeleteUser, CreateExternalRepository, DisableRepository,
           CheckQuota, EnableRepository, UsersOnly, OpKinds
  <2> QED BY <2>1, OneMoreKind DEF IInv, Types
<1>3. sync' \in [Syncs -> SyncTask] /\ \A t \in Syncs : SyncNamed(t)'
  <2>1. CASE sync' = sync BY <1>1, <2>1 DEF IInv, Types, Named, SyncNamed, GitHubAlone
  <2>2. ASSUME NEW u \in Users, NEW a \in Accounts, SyncInstallations(u, a)
        PROVE  sync' \in [Syncs -> SyncTask] /\ \A t \in Syncs : SyncNamed(t)'
    <3>1. inst[a] \in issued[a] /\ EnqueueInstallationSync(a, inst[a])
      BY <2>2 DEF SyncInstallations, IInv, Named
    <3> QED BY <1>1, <3>1, Enqueues DEF IInv, GitHubAlone
  <2> QED BY <2>1, <2>2 DEF UserStep, DeleteUser, CreateExternalRepository, DisableRepository,
                             CheckQuota, EnableRepository, UsersOnly
<1>4. CASE ~\E r \in Repos : CreateExternalRepository(r)
  <2>0. repo \in [Repos -> AnyRow] BY DEF IInv, Types
  <2>1. RowsKept
    <3>1. CASE repo' = repo BY <3>1, RowsStay DEF IInv
    <3>2. ASSUME NEW r, NEW v \in BOOLEAN, repo' = [repo EXCEPT ![r] = ToEnabled(repo[r], v)]
          PROVE  RowsKept
      <4>1. ASSUME NEW s \in Repos PROVE repo'[s] \in AnyRow /\ SameOwner(repo[s], repo'[s])
        <5>1. repo[s] \in AnyRow BY <2>0
        <5>2. repo'[s] = repo[s] \/ repo'[s] = ToEnabled(repo[s], v) BY <2>0, <3>2
        <5>3. SameOwner(repo[s], repo'[s]) BY <5>1, <5>2, Switched, SelfOwner
        <5> QED BY <5>3 DEF SameOwner
      <4>2. repo' = [s \in Repos |-> repo'[s]] BY <2>0, <3>2
      <4>3. repo' \in [Repos -> AnyRow] BY <4>1, <4>2
      <4> QED BY <4>1, <4>3 DEF RowsKept
    <3>3. ASSUME NEW q \in Requests, EnableRepository(q)
          PROVE  repo' = [repo EXCEPT ![request[q].repo] = ToEnabled(repo[request[q].repo], TRUE)]
      BY <3>3 DEF EnableRepository, ToEnabled
    <3>4. ASSUME NEW r \in Repos, DisableRepository(r)
          PROVE  repo' = [repo EXCEPT ![r] = ToEnabled(repo[r], FALSE)]
      BY <3>4 DEF DisableRepository, SwitchedBy, ToEnabled
    <3>5. \/ repo' = repo
          \/ \E q \in Requests : EnableRepository(q)
          \/ \E r \in Repos : DisableRepository(r)
      BY <1>4 DEF UserStep, SyncInstallations, DeleteUser, CheckQuota
    <3> QED BY <3>1, <3>2, <3>3, <3>4, <3>5
  <2> QED BY <1>1, <1>2, <1>3, <2>1, LittleKeeps
<1>5. ASSUME NEW r \in Repos, CreateExternalRepository(r) PROVE IInv'
  <2> DEFINE new == [NoRow EXCEPT !.inst = 0]
  <2>0. repo \in [Repos -> AnyRow] BY DEF IInv, Types
  <2>2. repo' = [repo EXCEPT ![r] = new] BY <1>5 DEF CreateExternalRepository
  <2>3. new \in AnyRow /\ new.org = External /\ Flagged(new)
    BY ExternalRow
  <2> HIDE DEF new
  <2>4. repo' \in [Repos -> AnyRow] BY <2>0, <2>2, <2>3
  <2>5. \A s \in Repos : repo'[s] = new \/ repo'[s] = repo[s] BY <2>0, <2>2
  <2>6. RowsOwned' BY <1>1, <2>3, <2>5 DEF IInv, RowsOwned, GitHubAlone
  <2>7. AllFlagged' BY <2>3, <2>5 DEF IInv, AllFlagged
  <2>8. /\ told' \in SUBSET told /\ scanKey' \in SUBSET Repos /\ revived' \in Nat
        /\ waiting' \in [Repos -> Nat]
    BY <1>1 DEF IInv, Types
  <2>9. Types' /\ Named' BY <1>1, <1>2, <1>3, <2>4, <2>8, InsideKeeps DEF IInv
  <2>10. Unarchivings' = Unarchivings BY <1>1 DEF Unarchivings
  <2>11. Accounted' BY <1>1, <2>10 DEF IInv, Accounted, GitHubAlone
  <2>12. Keyed' BY <1>1 DEF IInv, Keyed
  <2> QED BY <2>6, <2>7, <2>9, <2>11, <2>12 DEF IInv
<1> QED BY <1>4, <1>5

-----------------------------------------------------------------------------

LEMMA Start == Init => IInv
<1> SUFFICES ASSUME Init PROVE IInv OBVIOUS
<1>1. \A a \in Accounts : InitialInst(a) \in {0, 1} BY DEF InitialInst
<1>2. /\ inst = [a \in Accounts |-> InitialInst(a)]
      /\ issued = [a \in Accounts |-> {1} \cap {InitialInst(a)}]
      /\ repo = [r \in Repos |-> InitialRow(r)]
      /\ sync = [t \in Syncs |-> Idle] /\ waiting = [r \in Repos |-> 0]
      /\ home = Home /\ granted = Stored /\ suspended = {} /\ told = {} /\ scanKey = {}
      /\ unarchivals = 0 /\ revived = 0 /\ ops = 0
  BY DEF Init
<1>3. ASSUME NEW r \in Repos
      PROVE  /\ InitialRow(r) \in AnyRow /\ Flagged(InitialRow(r))
             /\ InitialRow(r).org # External =>
                    InitialRow(r).org = Home[r] /\ InitialRow(r).inst = 1 /\ r \in Stored
  <2> DEFINE first == [NoRow EXCEPT !.org = Home[r], !.inst = 1]
  <2>1. Home[r] \in Orgs BY HomeAssumption DEF Orgs
  <2>2. NoRow \in AnyRow /\ NoRow.org = External /\ Flagged(NoRow)
    BY NoRowFacts
  <2>3. first = Upserted(NoRow, Home[r], 1) BY DEF Upserted
  <2>4. first \in AnyRow /\ first.org = Home[r] /\ first.inst = 1 /\ Flagged(first)
    BY <2>1, <2>2, <2>3, Owned
  <2>5. InitialRow(r) = IF r \in Stored THEN first ELSE NoRow BY DEF InitialRow
  <2> HIDE DEF first
  <2> QED BY <2>2, <2>4, <2>5
<1>4. \A r \in Stored : r \in Repos /\ Home[r] \in Installed /\ Home[r] \in Accounts
  BY StoredAssumption, HomeAssumption
<1>5. Idle \in SyncTask /\ Idle.stage = "idle" BY DEF Idle, SyncTask, Stages, Orgs
<1>6. IsFiniteSet(Issued)
  <2>1. Issued \in SUBSET {1} BY <1>2 DEF Issued
  <2> QED BY <2>1, FS_Singleton, FS_Subset
<1>7. inst \in [Accounts -> Nat] /\ issued \in [Accounts -> SUBSET Nat] BY <1>1, <1>2
<1>8. repo \in [Repos -> AnyRow] /\ sync \in [Syncs -> SyncTask] /\ waiting \in [Repos -> Nat]
  BY <1>2, <1>3, <1>5
<1>9. home \in [Repos -> Accounts] /\ granted \in SUBSET Repos
  BY <1>2, HomeAssumption, StoredAssumption
<1>10. Types BY <1>2, <1>6, <1>7, <1>8, <1>9 DEF Types
<1>11. Named
  <2>1. \A a \in Accounts : inst[a] # 0 => inst[a] \in issued[a] BY <1>1, <1>2
  <2>2. \A r \in granted : inst[home[r]] # 0 BY <1>2, <1>4 DEF InitialInst
  <2>3. \A t \in Syncs : sync[t].stage = "idle" BY <1>2, <1>5
  <2> QED BY <1>2, <2>1, <2>2, <2>3 DEF Named
<1>12. RowsOwned
  <2> SUFFICES ASSUME NEW r \in Repos, repo[r].org # External
               PROVE  repo[r].inst \in issued[repo[r].org]
    BY DEF RowsOwned
  <2>1. repo[r].org = Home[r] /\ repo[r].inst = 1 /\ r \in Stored BY <1>2, <1>3
  <2>2. issued[Home[r]] = {1} BY <1>2, <1>4, <2>1 DEF InitialInst
  <2> QED BY <2>1, <2>2
<1>13. AllFlagged BY <1>2, <1>3 DEF AllFlagged
<1>14. Keyed BY <1>2 DEF Keyed
<1>15. Accounted
  <2>1. Unarchivings = {} BY <1>2 DEF Unarchivings
  <2>2. IsFiniteSet(Unarchivings) /\ Cardinality(Unarchivings) = 0 BY <2>1, FS_EmptySet
  <2> QED BY <1>2, <2>1, <2>2 DEF Accounted
<1> QED BY <1>10, <1>11, <1>12, <1>13, <1>14, <1>15 DEF IInv

LEMMA Inductive == IInv /\ [Next]_vars => IInv'
<1> SUFFICES ASSUME IInv, [Next]_vars PROVE IInv' OBVIOUS
<1>1. CASE GitHub
  <2>1. Types' /\ Named' /\ Accounted' /\ IssuedGrows /\ RowsAlone
    BY <1>1, GitHubKeeps DEF IInv
  <2>2. RowsKept BY <2>1, RowsStay DEF IInv, RowsAlone
  <2>3. RowsOwned' /\ AllFlagged' BY <2>1, <2>2, OwnersKept DEF IInv
  <2>4. Keyed' BY <2>1 DEF IInv, Keyed, RowsAlone
  <2> QED BY <2>1, <2>3, <2>4 DEF IInv
<1>2. CASE GitHubWebhook BY <1>2, WebhookKeeps
<1>3. ASSUME NEW t \in Syncs, SyncStep(t) PROVE IInv' BY <1>3, SyncKeeps
<1>4. ASSUME NEW r \in Repos, RunInitialScan(r) PROVE IInv' BY <1>4, ScanKeeps
<1>5. CASE UserStep BY <1>5, UserKeeps
<1>6. CASE Expire \/ UNCHANGED vars
  <2>1. /\ GitHubAlone /\ told' = told /\ revived' = revived /\ ops' = ops /\ sync' = sync
        /\ repo' = repo /\ waiting' = waiting /\ scanKey' \in SUBSET scanKey
        /\ \A r \in scanKey \ scanKey' : waiting[r] = 0
    BY <1>6 DEF Expire, vars, github, rows, scans, GitHubAlone
  <2>2. RowsKept BY <2>1, RowsStay DEF IInv
  <2>3. ops' \in Nat /\ sync' \in [Syncs -> SyncTask] /\ \A t \in Syncs : SyncNamed(t)'
    BY <2>1 DEF IInv, Types, Named, SyncNamed, GitHubAlone
  <2> QED BY <2>1, <2>2, <2>3, LittleKeeps
<1> QED BY <1>1, <1>2, <1>3, <1>4, <1>5, <1>6 DEF Next

LEMMA Invariant == Spec => []IInv
BY Start, Inductive, PTL DEF Spec

(* The write gate agrees with the lifecycle after every order of webhooks,  *)
(* syncs and requests.                                                      *)
THEOREM GateFollows == Spec => []FlagFollowsStatus
<1>1. IInv => FlagFollowsStatus BY DEF IInv, AllFlagged, Flagged, FlagFollowsStatus, Rows
<1> QED BY <1>1, Invariant, PTL

(* A repository of an organisation is reached through an installation its   *)
(* account has had, however many there are and whatever moves.              *)
THEOREM NoForeignToken == Spec => []OwnInstallation
<1>1. IInv => OwnInstallation BY DEF IInv, RowsOwned, OwnInstallation, Rows
<1> QED BY <1>1, Invariant, PTL

(* Syncs that list the same repository start its first scan once.           *)
THEOREM ScannedOnce == Spec => []OneInitialScan
<1>1. IInv => OneInitialScan BY DEF IInv, Keyed, OneInitialScan
<1> QED BY <1>1, Invariant, PTL

(* No webhook switches a repository on more often than it was unarchived.   *)
THEOREM NoSecondRevival == Spec => []RevivedOnce
<1>1. ASSUME IInv PROVE RevivedOnce
  <2>1. revived \in Nat /\ unarchivals \in Nat /\ Cardinality(Unarchivings) \in Nat
    BY <1>1, FS_CardinalityType DEF IInv, Types, Accounted
  <2>2. revived + Cardinality(Unarchivings) <= unarchivals BY <1>1 DEF IInv, Accounted
  <2> QED BY <2>1, <2>2 DEF RevivedOnce
<1>2. IInv => RevivedOnce BY <1>1
<1> QED BY <1>2, Invariant, PTL
-----------------------------------------------------------------------------
(* Who pays *)

Distinct(s) == \A i, j \in 1..Len(s) : s[i] = s[j] => i = j

Joined ==
    /\ owners \in [Accounts -> Seq(Users)]
    /\ \A a \in Accounts : Distinct(owners[a])

(* What was switched on against an allowance is on, and its owner still pays. *)
Funded ==
    /\ paid \in [Repos -> Users \cup {Nobody}]
    /\ \A r \in Repos :
          paid[r] # Nobody => repo[r].enabled = TRUE /\ OrgBillingOwner(repo[r].org) = paid[r]

AskedFor == [repo : Repos \cup {Nobody}, payer : Users \cup {Nobody}]

PaidBy(u) == {r \in Repos : paid[r] = u}

AskedBy(u) == {q \in Requests : request[q].payer = u}

(* Every request that passed the check takes one repository more at most. *)
Within ==
    /\ request \in [Requests -> AskedFor]
    /\ \A u \in Users : Cardinality(PaidBy(u)) + Cardinality(AskedBy(u))
                           <= RepoLimit + Cardinality(Requests) - 1

SlotInv == IInv /\ Joined /\ Funded /\ Within

LEMMA AppendsDistinct ==
    ASSUME NEW s \in Seq(Users), NEW u \in Users, Distinct(s), ~Contains(s, u)
    PROVE  /\ Append(s, u) \in Seq(Users) /\ Distinct(Append(s, u))
           /\ s # <<>> => Head(Append(s, u)) = Head(s)
<1> DEFINE t == Append(s, u)
<1>1. /\ t \in Seq(Users) /\ Len(t) = Len(s) + 1 /\ Len(s) \in Nat
      /\ \A i \in 1..Len(s) : t[i] = s[i]
      /\ t[Len(s) + 1] = u
  BY AppendProperties, LenProperties
<1> HIDE DEF t
<1>2. \A i \in 1..Len(s) : s[i] # u BY DEF Contains
<1>3. Distinct(t)
  <2> SUFFICES ASSUME NEW i \in 1..Len(t), NEW j \in 1..Len(t), t[i] = t[j] PROVE i = j
    BY DEF Distinct
  <2>1. CASE i \in 1..Len(s) /\ j \in 1..Len(s)
    <3>1. s[i] = s[j] BY <1>1, <2>1
    <3> QED BY <2>1, <3>1 DEF Distinct
  <2>2. CASE i = Len(s) + 1 /\ j \in 1..Len(s) BY <1>1, <1>2, <2>2
  <2>3. CASE j = Len(s) + 1 /\ i \in 1..Len(s) BY <1>1, <1>2, <2>3
  <2>4. CASE i = Len(s) + 1 /\ j = Len(s) + 1 BY <2>4
  <2> QED BY <1>1, <2>1, <2>2, <2>3, <2>4
<1>4. ASSUME s # <<>> PROVE Head(t) = Head(s)
  <2>1. Len(s) # 0 BY <1>4, EmptySeq
  <2>2. 1 \in 1..Len(s) BY <1>1, <2>1
  <2>3. Head(t) = t[1] /\ Head(s) = s[1] OBVIOUS
  <2> QED BY <1>1, <2>2, <2>3
<1> QED BY <1>1, <1>3, <1>4 DEF t

LEMMA LeavesDistinct ==
    ASSUME NEW s \in Seq(Users), NEW u \in Users, Distinct(s)
    PROVE  /\ Without(s, u) \in Seq(Users) /\ Distinct(Without(s, u))
           /\ ~Contains(Without(s, u), u)
           /\ s # <<>> /\ Head(s) # u =>
                 Without(s, u) # <<>> /\ Head(Without(s, u)) = Head(s)
<1>0. Len(s) \in Nat /\ \A i \in 1..Len(s) : s[i] \in Users BY LenProperties, ElementOfSeq
<1>1. CASE ~Contains(s, u) BY <1>1 DEF Without
<1>2. CASE Contains(s, u)
  <2> DEFINE n == PlaceOf(s, u)
             b == SubSeq(s, 1, n - 1)
             c == SubSeq(s, n + 1, Len(s))
             t == b \o c
  <2>1. Without(s, u) = t BY <1>2 DEF Without, RemoveAt
  <2>2. n \in 1..Len(s) /\ s[n] = u
    <3>1. DOMAIN s = 1..Len(s) BY LenProperties
    <3>2. \E i \in DOMAIN s : s[i] = u BY <1>2, <3>1 DEF Contains
    <3>3. n \in DOMAIN s /\ s[n] = u BY <3>2 DEF PlaceOf
    <3> QED BY <3>1, <3>3
  <2> HIDE DEF n
  <2>3. n \in Int /\ n - 1 \in Int /\ n + 1 \in Int /\ Len(s) \in Int BY <1>0, <2>2
  <2>4. /\ b \in Seq(Users) /\ Len(b) = n - 1
        /\ \A i \in 1..n - 1 : b[i] = s[i]
    <3>1. \A i \in 1..n - 1 : s[i] \in Users BY <1>0, <2>2
    <3>2. /\ b \in Seq(Users)
          /\ Len(b) = IF 1 <= n - 1 THEN n - 1 - 1 + 1 ELSE 0
          /\ \A i \in 1..n - 1 - 1 + 1 : b[i] = s[1 + i - 1]
      BY <2>3, <3>1, SubSeqProperties
    <3> QED BY <1>0, <2>2, <3>2
  <2>5. /\ c \in Seq(Users) /\ Len(c) = Len(s) - n
        /\ \A i \in 1..Len(s) - n : c[i] = s[n + i]
    <3>1. \A i \in n + 1..Len(s) : s[i] \in Users BY <1>0, <2>2
    <3>2. /\ c \in Seq(Users)
          /\ Len(c) = IF n + 1 <= Len(s) THEN Len(s) - (n + 1) + 1 ELSE 0
          /\ \A i \in 1..Len(s) - (n + 1) + 1 : c[i] = s[n + 1 + i - 1]
      BY <2>3, <3>1, SubSeqProperties
    <3> QED BY <1>0, <2>2, <3>2
  <2> HIDE DEF b, c
  <2>6. /\ t \in Seq(Users) /\ Len(t) = Len(b) + Len(c)
        /\ \A i \in 1..Len(b) + Len(c) : t[i] = IF i <= Len(b) THEN b[i] ELSE c[i - Len(b)]
    BY <2>4, <2>5, ConcatProperties
  <2> HIDE DEF t
  <2>7. Len(t) = Len(s) - 1 BY <1>0, <2>2, <2>4, <2>5, <2>6
  <2>8. \A i \in 1..Len(t) : t[i] = IF i < n THEN s[i] ELSE s[i + 1]
    <3> SUFFICES ASSUME NEW i \in 1..Len(t) PROVE t[i] = IF i < n THEN s[i] ELSE s[i + 1]
      OBVIOUS
    <3>1. CASE i < n
      <4>1. i \in 1..n - 1 /\ i <= Len(b) /\ i \in 1..Len(b) + Len(c)
        BY <1>0, <2>2, <2>4, <2>5, <2>7, <3>1
      <4> QED BY <2>4, <2>6, <3>1, <4>1
    <3>2. CASE ~(i < n)
      <4>1. i - (n - 1) \in 1..Len(s) - n /\ ~(i <= Len(b)) /\ i \in 1..Len(b) + Len(c)
        BY <1>0, <2>2, <2>4, <2>5, <2>7, <3>2
      <4>2. t[i] = c[i - (n - 1)] BY <2>4, <2>6, <4>1
      <4>3. c[i - (n - 1)] = s[n + (i - (n - 1))] BY <2>5, <4>1
      <4>4. n + (i - (n - 1)) = i + 1 BY <2>2
      <4> QED BY <3>2, <4>2, <4>3, <4>4
    <3> QED BY <3>1, <3>2
  <2> DEFINE at(i) == IF i < n THEN i ELSE i + 1
  <2>9. \A i \in 1..Len(t) : at(i) \in 1..Len(s) /\ at(i) # n /\ t[i] = s[at(i)]
    BY <1>0, <2>2, <2>7, <2>8
  <2>10. \A i, j \in 1..Len(t) : at(i) = at(j) => i = j BY <1>0, <2>2, <2>7
  <2> HIDE DEF at
  <2>11. Distinct(t) BY <2>9, <2>10 DEF Distinct
  <2>12. ~Contains(t, u)
    <3> SUFFICES ASSUME NEW i \in 1..Len(t), t[i] = u PROVE FALSE BY DEF Contains
    <3>1. at(i) \in 1..Len(s) /\ at(i) # n /\ s[at(i)] = s[n] BY <2>2, <2>9
    <3> QED BY <2>2, <3>1 DEF Distinct
  <2>13. ASSUME s # <<>>, Head(s) # u PROVE t # <<>> /\ Head(t) = Head(s)
    <3>1. Head(s) = s[1] /\ Head(t) = t[1] OBVIOUS
    <3>2. 1 < n BY <2>2, <2>13, <3>1
    <3>3. 1 \in 1..Len(t) BY <1>0, <2>2, <2>7, <3>2
    <3>4. t[1] = s[1] BY <2>8, <3>2, <3>3
    <3>5. t # <<>> BY <3>3, EmptySeq
    <3> QED BY <3>1, <3>4, <3>5
  <2> QED BY <2>1, <2>6, <2>11, <2>12, <2>13
<1> QED BY <1>1, <1>2

(* A step that takes nobody's allowance but that of gone, whose payer left. *)
LEMMA StaysFunded ==
    ASSUME IInv, Funded, NEW gone, paid' \in [Repos -> Users \cup {Nobody}],
           \A r \in Repos : paid'[r] # Nobody =>
              /\ paid'[r] = paid[r] /\ paid'[r] # gone
              /\ repo'[r].enabled = TRUE /\ repo'[r].org = repo[r].org,
           \A o \in Orgs : OrgBillingOwner(o) # Nobody /\ OrgBillingOwner(o) # gone =>
              OrgBillingOwner(o)' = OrgBillingOwner(o)
    PROVE  Funded'
<1>1. ASSUME NEW r \in Repos, paid'[r] # Nobody
      PROVE  repo'[r].enabled = TRUE /\ OrgBillingOwner(repo[r].org)' = paid'[r]
  <2>1. PICK o : o = repo[r].org OBVIOUS
  <2>2. o \in Orgs BY <2>1 DEF IInv, Types, AnyRow
  <2>3. paid'[r] = paid[r] /\ paid'[r] # gone /\ repo'[r].enabled = TRUE /\ repo'[r].org = o
    BY <1>1, <2>1
  <2>4. OrgBillingOwner(o) = paid[r] BY <1>1, <2>1, <2>3 DEF Funded
  <2>5. OrgBillingOwner(o)' = paid'[r] BY <1>1, <2>2, <2>3, <2>4
  <2> QED BY <2>3, <2>5 DEF OrgBillingOwner
<1> QED BY <1>1 DEF Funded

LEMMA PayersAreFinite ==
    \A u : /\ IsFiniteSet(PaidBy(u)) /\ IsFiniteSet(AskedBy(u))
           /\ Cardinality(PaidBy(u)) \in Nat /\ Cardinality(AskedBy(u)) \in Nat
<1> SUFFICES ASSUME NEW u
             PROVE  /\ IsFiniteSet(PaidBy(u)) /\ IsFiniteSet(AskedBy(u))
                    /\ Cardinality(PaidBy(u)) \in Nat /\ Cardinality(AskedBy(u)) \in Nat
  OBVIOUS
<1>1. PaidBy(u) \in SUBSET Repos /\ AskedBy(u) \in SUBSET Requests BY DEF PaidBy, AskedBy
<1> QED BY <1>1, FiniteAssumption, FS_Subset, FS_CardinalityType

LEMMA LimitTyped ==
    /\ RepoLimit \in Nat /\ Cardinality(Requests) \in Nat /\ Cardinality(Requests) >= 1
<1>1. Cardinality(Requests) \in Nat /\ Cardinality(Requests) # 0
  BY FiniteAssumption, FS_CardinalityType, FS_EmptySet
<1> QED BY <1>1, BoundsAssumption

(* Nobody takes more than before. *)
LEMMA StaysWithin ==
    ASSUME Within, request' \in [Requests -> AskedFor],
           \A r \in Repos : paid'[r] # Nobody => paid'[r] = paid[r],
           \A q \in Requests : request'[q].payer # Nobody => request'[q].payer = request[q].payer
    PROVE  Within'
<1> SUFFICES ASSUME NEW u \in Users
             PROVE  (Cardinality(PaidBy(u)) + Cardinality(AskedBy(u)))'
                       <= RepoLimit + Cardinality(Requests) - 1
  BY DEF Within
<1>1. u # Nobody BY NamesAssumption
<1>2. PaidBy(u)' \subseteq PaidBy(u) /\ AskedBy(u)' \subseteq AskedBy(u)
  BY <1>1 DEF PaidBy, AskedBy
<1>3. /\ Cardinality(PaidBy(u)') <= Cardinality(PaidBy(u))
      /\ Cardinality(AskedBy(u)') <= Cardinality(AskedBy(u))
      /\ Cardinality(PaidBy(u)') \in Nat /\ Cardinality(AskedBy(u)') \in Nat
  <2>1. IsFiniteSet(PaidBy(u)) /\ IsFiniteSet(AskedBy(u)) BY PayersAreFinite
  <2>2. IsFiniteSet(PaidBy(u)') /\ IsFiniteSet(AskedBy(u)') BY <1>2, <2>1, FS_Subset
  <2> QED BY <1>2, <2>1, <2>2, FS_Subset, FS_CardinalityType
<1>4. Cardinality(PaidBy(u)) \in Nat /\ Cardinality(AskedBy(u)) \in Nat BY PayersAreFinite
<1>5. Cardinality(PaidBy(u)) + Cardinality(AskedBy(u)) <= RepoLimit + Cardinality(Requests) - 1
  BY DEF Within
<1> QED BY <1>3, <1>4, <1>5, LimitTyped

(* The owners and the requests stay; what is still paid is of the same row. *)
RowStays(r) ==
    paid'[r] # Nobody =>
        /\ paid'[r] = paid[r]
        /\ repo'[r].enabled = TRUE /\ repo'[r].org = repo[r].org

LEMMA RowsOnly ==
    ASSUME IInv, Joined, Funded, Within, owners' = owners, request' = request,
           paid' \in [Repos -> Users \cup {Nobody}], \A r \in Repos : RowStays(r)
    PROVE  Joined' /\ Funded' /\ Within'
<1>1. Joined' BY DEF Joined
<1>2. \A o : OrgBillingOwner(o)' = OrgBillingOwner(o) BY DEF OrgBillingOwner
<1>3. Funded'
  <2>1. \A r \in Repos : paid'[r] # Nobody =>
           /\ paid'[r] = paid[r] /\ paid'[r] # Nobody
           /\ repo'[r].enabled = TRUE /\ repo'[r].org = repo[r].org
    BY DEF RowStays
  <2> QED BY <1>2, <2>1, StaysFunded
<1>4. Within' BY StaysWithin DEF Within, RowStays
<1> QED BY <1>1, <1>3, <1>4

LEMMA PaidStays ==
    ASSUME Funded, paid' = paid,
           \A r \in Repos : repo'[r].enabled = repo[r].enabled /\ repo'[r].org = repo[r].org
    PROVE  paid' \in [Repos -> Users \cup {Nobody}] /\ \A r \in Repos : RowStays(r)
BY DEF Funded, RowStays

LEMMA PaidWhileOn ==
    ASSUME Funded, NEW next \in [Repos -> AnyRow], SwitchedBy(next),
           \A r \in Repos : next[r].org = repo[r].org
    PROVE  paid' \in [Repos -> Users \cup {Nobody}] /\ \A r \in Repos : RowStays(r)
<1>1. /\ repo' = next
      /\ paid' = [r \in Repos |-> IF next[r].enabled THEN paid[r] ELSE Nobody]
  BY DEF SwitchedBy
<1>2. \A r \in Repos : next[r].enabled \in BOOLEAN BY DEF AnyRow
<1>3. paid' \in [Repos -> Users \cup {Nobody}] BY <1>1 DEF Funded
<1>4. ASSUME NEW r \in Repos PROVE RowStays(r)
  <2>1. CASE next[r].enabled = TRUE BY <1>1, <2>1 DEF RowStays
  <2>2. CASE next[r].enabled = FALSE BY <1>1, <2>2 DEF RowStays
  <2> QED BY <1>2, <2>1, <2>2
<1> QED BY <1>3, <1>4

LEMMA WebhookSlots ==
    ASSUME SlotInv, GitHubWebhook
    PROVE  Joined' /\ Funded' /\ Within'
<1>1. PICK m \in told :
        /\ Handling
        /\ \/ HandleInstalled(m) \/ HandleUninstalled(m) \/ HandleAdded(m)
           \/ HandleRemoved(m) \/ HandleArchivedOrGone(m) \/ HandleUnarchived(m)
  BY DEF GitHubWebhook
<1>2. RowsKept BY <1>1, HandlerRows DEF SlotInv, IInv
<1>3. repo' \in [Repos -> AnyRow] /\ \A r \in Repos : repo'[r].org = repo[r].org
  BY <1>2 DEF RowsKept, SameOwner
<1>4. SwitchedBy(repo')
  BY <1>1 DEF SwitchedBy, HandleInstalled, HandleUninstalled, HandleAdded, HandleRemoved,
              HandleArchivedOrGone, HandleUnarchived
<1>5. paid' \in [Repos -> Users \cup {Nobody}] /\ \A r \in Repos : RowStays(r)
  BY <1>3, <1>4, PaidWhileOn DEF SlotInv
<1>6. owners' = owners /\ request' = request BY <1>1 DEF Handling
<1> QED BY <1>5, <1>6, RowsOnly DEF SlotInv

LEMMA UpsertKeepsOn ==
    ASSUME NEW a \in AnyRow, NEW o \in Orgs, NEW i \in Nat
    PROVE  Upserted(a, o, i).enabled = a.enabled
<1>1. a = [x \in RowFields |-> a[x]] BY RowByFields
<1>2. Upserted(a, o, i) = [x \in RowFields |-> CASE x = "org" -> o [] x = "inst" -> i
                                               [] OTHER -> a[x]]
  BY <1>1 DEF RowFields, Upserted
<1> QED BY <1>2 DEF RowFields

LEMMA SyncSlots ==
    ASSUME SlotInv, NEW t \in Syncs, SyncStep(t)
    PROVE  Joined' /\ Funded' /\ Within'
<1>1. owners' = owners /\ request' = request
  BY DEF SyncStep, FetchRepositories, UpsertRepositories, EnqueueInitialScans, SyncFails,
         SyncCrashes, Working
<1>2. repo \in [Repos -> AnyRow] BY DEF SlotInv, IInv, Types
<1>3. CASE UpsertRepositories(t)
  <2>1. repo' = Rewritten(sync[t].rs, LAMBDA row : Upserted(row, sync[t].acct, sync[t].inst))
    BY <1>3 DEF UpsertRepositories
  <2>2. paid' = [r \in Repos |-> IF repo'[r].org = repo[r].org THEN paid[r] ELSE Nobody]
    BY <1>3 DEF UpsertRepositories
  <2>3. sync[t].acct \in Orgs /\ sync[t].inst \in Nat
    BY DEF SlotInv, IInv, Types, SyncTask
  <2>4. \A r \in Repos : repo'[r].enabled = repo[r].enabled
    <3> SUFFICES ASSUME NEW r \in Repos PROVE repo'[r].enabled = repo[r].enabled OBVIOUS
    <3>1. repo'[r] = repo[r] \/ repo'[r] = Upserted(repo[r], sync[t].acct, sync[t].inst)
      BY <2>1 DEF Rewritten
    <3> QED BY <1>2, <2>3, <3>1, UpsertKeepsOn
  <2>5. paid' \in [Repos -> Users \cup {Nobody}] BY <2>2 DEF SlotInv, Funded
  <2>6. \A r \in Repos : RowStays(r) BY <2>2, <2>4 DEF SlotInv, Funded, RowStays
  <2> QED BY <1>1, <2>5, <2>6, RowsOnly DEF SlotInv
<1>4. CASE repo' = repo /\ paid' = paid BY <1>1, <1>4, PaidStays, RowsOnly DEF SlotInv
<1> QED BY <1>3, <1>4 DEF SyncStep, FetchRepositories, EnqueueInitialScans, SyncFails, SyncCrashes

LEMMA ScanSlots ==
    ASSUME SlotInv, NEW r \in Repos, RunInitialScan(r)
    PROVE  Joined' /\ Funded' /\ Within'
<1>1. owners' = owners /\ request' = request /\ paid' = paid
  BY DEF RunInitialScan
<1>2. repo \in [Repos -> AnyRow] BY DEF SlotInv, IInv, Types
<1>3. repo' = repo \/ repo' = [repo EXCEPT ![r] = ToScanned(repo[r])]
  BY DEF RunInitialScan, ToScanned
<1>4. /\ ToScanned(repo[r]).org = repo[r].org
      /\ ToScanned(repo[r]).enabled = repo[r].enabled
  <2>1. repo[r] = [x \in RowFields |-> repo[r][x]] BY <1>2, RowByFields
  <2>2. ToScanned(repo[r]) = [x \in RowFields |-> CASE x = "scanned" -> TRUE
                                                  [] OTHER -> repo[r][x]]
    BY <2>1 DEF RowFields, ToScanned
  <2> QED BY <2>2 DEF RowFields
<1>5. \A s \in Repos : repo'[s].enabled = repo[s].enabled /\ repo'[s].org = repo[s].org
  BY <1>2, <1>3, <1>4
<1> QED BY <1>1, <1>5, PaidStays, RowsOnly DEF SlotInv

LEMMA JoinSlots ==
    ASSUME SlotInv, NEW u \in Users, NEW a \in Accounts, SyncInstallations(u, a)
    PROVE  /\ Joined' /\ Funded' /\ Within'
           /\ \A o \in Orgs : OrgBillingOwner(o) # Nobody =>
                 OrgBillingOwner(o)' = OrgBillingOwner(o)
<1>1. /\ owners \in [Accounts -> Seq(Users)] /\ owners' = [owners EXCEPT ![a] = Append(@, u)]
      /\ ~Contains(owners[a], u)
      /\ paid' = paid /\ repo' = repo /\ request' = request
  BY DEF SyncInstallations, SlotInv, Joined
<1>2. owners[a] \in Seq(Users) /\ Distinct(owners[a]) BY <1>1 DEF SlotInv, Joined
<1>3. /\ Append(owners[a], u) \in Seq(Users) /\ Distinct(Append(owners[a], u))
      /\ owners[a] # <<>> => Head(Append(owners[a], u)) = Head(owners[a])
      /\ Append(owners[a], u) # <<>>
  BY <1>1, <1>2, AppendsDistinct, AppendProperties
<1>4. /\ owners'[a] = Append(owners[a], u)
      /\ \A b \in Accounts : b # a => owners'[b] = owners[b]
      /\ owners' = [b \in Accounts |-> owners'[b]]
  BY <1>1
<1>5. Joined'
  <2>1. \A b \in Accounts : owners'[b] \in Seq(Users) /\ Distinct(owners'[b])
    BY <1>3, <1>4 DEF SlotInv, Joined
  <2>2. owners' \in [Accounts -> Seq(Users)] BY <1>4, <2>1
  <2> QED BY <2>1, <2>2 DEF Joined, Distinct
<1>6. ASSUME NEW o \in Orgs, OrgBillingOwner(o) # Nobody
      PROVE  OrgBillingOwner(o)' = OrgBillingOwner(o)
  <2>1. o # External /\ owners[o] # <<>> /\ o \in Accounts BY <1>6 DEF OrgBillingOwner, Orgs
  <2>2. owners'[o] # <<>> /\ Head(owners'[o]) = Head(owners[o]) BY <1>3, <1>4, <2>1
  <2> QED BY <2>1, <2>2 DEF OrgBillingOwner
<1>7. Funded' BY <1>1, <1>6, StaysFunded DEF SlotInv, Funded
<1>8. Within' BY <1>1, StaysWithin DEF SlotInv, Within
<1> QED BY <1>5, <1>6, <1>7, <1>8

LEMMA UnpaidSlot ==
    ASSUME NEW s \in AskedFor, NEW u \in Users
    PROVE  LET t == [s EXCEPT !.payer = Unpaid(@, u)]
           IN  t \in AskedFor /\ (t.payer # Nobody => t.payer = s.payer)
<1> DEFINE t == [s EXCEPT !.payer = Unpaid(s.payer, u)]
<1>1. Unpaid(s.payer, u) \in Users \cup {Nobody} BY DEF Unpaid, AskedFor
<1>2. t \in AskedFor BY <1>1 DEF AskedFor
<1>3. t.payer = Unpaid(s.payer, u) BY DEF AskedFor
<1>4. t.payer # Nobody => t.payer = s.payer BY <1>3 DEF Unpaid
<1> HIDE DEF t
<1> QED BY <1>2, <1>4 DEF t

LEMMA LeaveSlots ==
    ASSUME SlotInv, NEW u \in Users, DeleteUser(u)
    PROVE  /\ Joined' /\ Funded' /\ Within'
           /\ \A o \in Orgs : OrgBillingOwner(o) # Nobody /\ OrgBillingOwner(o) # u =>
                 OrgBillingOwner(o)' = OrgBillingOwner(o)
           /\ \A a \in Accounts : ~Contains(owners'[a], u)
<1>1. /\ owners \in [Accounts -> Seq(Users)] /\ repo' = repo
      /\ owners' = [a \in Accounts |-> Without(owners[a], u)]
      /\ paid' = [r \in Repos |-> Unpaid(paid[r], u)]
      /\ request' = [q \in Requests |-> [request[q] EXCEPT !.payer = Unpaid(@, u)]]
  BY DEF DeleteUser, SlotInv, Joined
<1>2. \A a \in Accounts :
        /\ Without(owners[a], u) \in Seq(Users) /\ Distinct(Without(owners[a], u))
        /\ ~Contains(Without(owners[a], u), u)
        /\ owners[a] # <<>> /\ Head(owners[a]) # u =>
              Without(owners[a], u) # <<>> /\ Head(Without(owners[a], u)) = Head(owners[a])
  BY <1>1, LeavesDistinct DEF SlotInv, Joined
<1>3. \A a \in Accounts : owners'[a] = Without(owners[a], u) BY <1>1
<1>4. Joined'
  <2>1. \A a \in Accounts : owners'[a] \in Seq(Users) /\ Distinct(owners'[a]) BY <1>2, <1>3
  <2>2. owners' \in [Accounts -> Seq(Users)] BY <1>1, <1>2
  <2> QED BY <2>1, <2>2 DEF Joined, Distinct
<1>5. ASSUME NEW o \in Orgs, OrgBillingOwner(o) # Nobody, OrgBillingOwner(o) # u
      PROVE  OrgBillingOwner(o)' = OrgBillingOwner(o)
  <2>1. o # External /\ owners[o] # <<>> /\ o \in Accounts /\ OrgBillingOwner(o) = Head(owners[o])
    BY <1>5 DEF OrgBillingOwner, Orgs
  <2>2. owners'[o] # <<>> /\ Head(owners'[o]) = Head(owners[o]) BY <1>2, <1>3, <1>5, <2>1
  <2> QED BY <2>1, <2>2 DEF OrgBillingOwner
<1>6. u # Nobody BY NamesAssumption
<1>7. paid' \in [Repos -> Users \cup {Nobody}] BY <1>1 DEF SlotInv, Funded, Unpaid
<1>8. \A r \in Repos : paid'[r] # Nobody => paid'[r] = paid[r] /\ paid'[r] # u
  BY <1>1 DEF Unpaid
<1>9. Funded'
  <2>1. \A r \in Repos : paid'[r] # Nobody =>
          /\ paid'[r] = paid[r] /\ paid'[r] # u
          /\ repo'[r].enabled = TRUE /\ repo'[r].org = repo[r].org
    BY <1>1, <1>8 DEF SlotInv, Funded
  <2> QED BY <1>5, <1>7, <2>1, StaysFunded DEF SlotInv
<1>10. Within'
  <2>1. \A q \in Requests : request[q] \in AskedFor BY DEF SlotInv, Within
  <2>2. \A q \in Requests :
          request'[q] \in AskedFor /\ (request'[q].payer # Nobody =>
                                          request'[q].payer = request[q].payer)
    BY <1>1, <2>1, UnpaidSlot
  <2>3. request' \in [Requests -> AskedFor] BY <1>1, <2>2
  <2> QED BY <1>8, <2>2, <2>3, StaysWithin DEF SlotInv
<1> QED BY <1>2, <1>3, <1>4, <1>5, <1>9, <1>10

LEMMA ExternalSlots ==
    ASSUME SlotInv, NEW r \in Repos, CreateExternalRepository(r)
    PROVE  Joined' /\ Funded' /\ Within'
<1>1. /\ owners' = owners /\ request' = request /\ paid' = paid /\ repo[r] = NoRow
      /\ repo' = [repo EXCEPT ![r] = [NoRow EXCEPT !.inst = 0]]
  BY DEF CreateExternalRepository
<1>2. repo \in [Repos -> AnyRow] BY DEF SlotInv, IInv, Types
<1>3. paid[r] = Nobody BY <1>1 DEF SlotInv, Funded, NoRow
<1>4. \A s \in Repos : RowStays(s) BY <1>1, <1>2, <1>3 DEF SlotInv, Funded, RowStays
<1> QED BY <1>1, <1>4, RowsOnly DEF SlotInv, Funded

(* The check counts every repository that is on against the allowance. *)
LEMMA CheckSlots ==
    ASSUME SlotInv, NEW q \in Requests, CheckQuota(q)
    PROVE  Joined' /\ Funded' /\ Within'
<1>1. PICK r \in Rows :
        /\ ~repo[r].enabled /\ Allows(OrgBillingOwner(repo[r].org))
        /\ request' = [request EXCEPT ![q] = [repo |-> r,
                                             payer |-> OrgBillingOwner(repo[r].org)]]
  BY DEF CheckQuota
<1> DEFINE v == OrgBillingOwner(repo[r].org)
           new == [repo |-> r, payer |-> v]
<1>2. owners' = owners /\ repo' = repo /\ paid' = paid /\ request \in [Requests -> AskedFor]
  BY DEF CheckQuota, UsersOnly, SlotInv, Within
<1>3. v \in Users \cup {Nobody}
  <2>1. repo[r].org \in Orgs BY DEF SlotInv, IInv, Types, AnyRow, Rows
  <2>2. ASSUME repo[r].org # External, owners[repo[r].org] # <<>> PROVE v \in Users
    <3>1. owners[repo[r].org] \in Seq(Users) BY <2>1, <2>2 DEF SlotInv, Joined, Orgs
    <3> QED BY <2>2, <3>1, HeadTailProperties DEF OrgBillingOwner
  <2> QED BY <2>2 DEF OrgBillingOwner
<1>a. Allows(v) /\ r \in Repos /\ request' = [request EXCEPT ![q] = new] BY <1>1 DEF Rows
<1> HIDE DEF v
<1>4. new \in AskedFor /\ new.payer = v BY <1>a, <1>3 DEF AskedFor
<1> HIDE DEF new
<1>5. request' \in [Requests -> AskedFor] BY <1>2, <1>4, <1>a
<1>6. Joined' /\ Funded' BY <1>2 DEF SlotInv, Joined, Funded, OrgBillingOwner
<1>7. ASSUME NEW u \in Users
      PROVE  Cardinality(PaidBy(u)') + Cardinality(AskedBy(u)')
                <= RepoLimit + Cardinality(Requests) - 1
  <2>1. PaidBy(u)' = PaidBy(u) BY <1>2 DEF PaidBy
  <2>2. /\ Cardinality(PaidBy(u)) \in Nat /\ Cardinality(AskedBy(u)) \in Nat
        /\ IsFiniteSet(PaidBy(u))
    BY PayersAreFinite
  <2>3. CASE u # v
    <3>1. AskedBy(u)' \subseteq AskedBy(u) BY <1>2, <1>4, <1>a, <2>3 DEF AskedBy
    <3>2. Cardinality(AskedBy(u)') \in Nat /\ Cardinality(AskedBy(u)') <= Cardinality(AskedBy(u))
      BY <3>1, PayersAreFinite, FS_Subset, FS_CardinalityType
    <3>3. Cardinality(PaidBy(u)) + Cardinality(AskedBy(u)) <= RepoLimit + Cardinality(Requests) - 1
      BY DEF SlotInv, Within
    <3> QED BY <2>1, <2>2, <3>2, <3>3, LimitTyped
  <2>4. CASE u = v
    <3>1. PaidBy(u) \subseteq EnabledRepos(u)
      BY NamesAssumption DEF PaidBy, EnabledRepos, SlotInv, Funded, Rows, NoRow
    <3>2. IsFiniteSet(EnabledRepos(u)) /\ Cardinality(EnabledRepos(u)) \in Nat
      <4>1. EnabledRepos(u) \in SUBSET Repos BY DEF EnabledRepos, Rows
      <4> QED BY <4>1, FiniteAssumption, FS_Subset, FS_CardinalityType
    <3>3. Cardinality(PaidBy(u)) <= Cardinality(EnabledRepos(u)) BY <3>1, <3>2, FS_Subset
    <3>4. Cardinality(EnabledRepos(u)) < RepoLimit
      BY <1>a, <2>4, NamesAssumption DEF Allows
    <3>5. AskedBy(u)' \subseteq Requests BY DEF AskedBy
    <3>6. /\ Cardinality(AskedBy(u)') \in Nat
          /\ Cardinality(AskedBy(u)') <= Cardinality(Requests)
      BY <3>5, FiniteAssumption, FS_Subset, FS_CardinalityType
    <3> QED BY <2>1, <2>2, <3>2, <3>3, <3>4, <3>6, LimitTyped
  <2> QED BY <2>3, <2>4
<1>8. Within' BY <1>5, <1>7 DEF Within
<1> QED BY <1>6, <1>8

(* The request gives its place to the repository, or to nobody. *)
LEMMA EnableSlots ==
    ASSUME SlotInv, NEW q \in Requests, EnableRepository(q)
    PROVE  Joined' /\ Funded' /\ Within'
<1> DEFINE r == request[q].repo
           v == request[q].payer
           now == IF OrgBillingOwner(repo[r].org) = v THEN v ELSE Nobody
<1>1. /\ repo' = [repo EXCEPT ![r] = ToEnabled(repo[r], TRUE)]
      /\ paid' = [paid EXCEPT ![r] = now]
      /\ request' = [request EXCEPT ![q] = NoRequest] /\ owners' = owners
  BY DEF EnableRepository, UsersOnly, ToEnabled
<1>2. /\ repo \in [Repos -> AnyRow] /\ paid \in [Repos -> Users \cup {Nobody}]
      /\ request \in [Requests -> AskedFor]
  BY DEF SlotInv, IInv, Types, Funded, Within
<1>3. v \in Users \cup {Nobody} BY <1>2 DEF AskedFor
<1>4. now # Nobody => now = v /\ OrgBillingOwner(repo[r].org) = v OBVIOUS
<1>5. now \in Users \cup {Nobody} BY <1>3
<1> HIDE DEF now, v, r
<1>6. NoRequest \in AskedFor /\ NoRequest.payer = Nobody BY DEF NoRequest, AskedFor
<1>7. Joined' BY <1>1 DEF SlotInv, Joined
<1>8. paid' \in [Repos -> Users \cup {Nobody}] BY <1>1, <1>2, <1>5
<1>9. /\ request' \in [Requests -> AskedFor] /\ request'[q].payer = Nobody
      /\ \A p \in Requests \ {q} : request'[p] = request[p]
  BY <1>1, <1>2, <1>6
<1>10. Funded'
  <2> SUFFICES ASSUME NEW s \in Repos, paid'[s] # Nobody
               PROVE  repo'[s].enabled = TRUE /\ OrgBillingOwner(repo[s].org)' = paid'[s]
    BY <1>8 DEF Funded
  <2>1. CASE s = r
    <3>1. paid'[s] = now /\ repo'[s] = ToEnabled(repo[s], TRUE) BY <1>1, <1>2, <2>1
    <3>2. OrgBillingOwner(repo[s].org) = now BY <1>4, <2>1, <3>1
    <3>3. repo[s] = [x \in RowFields |-> repo[s][x]] BY <1>2, RowByFields
    <3>4. ToEnabled(repo[s], TRUE) = [x \in RowFields |-> CASE x = "enabled" -> TRUE
                                                          [] OTHER -> repo[s][x]]
      BY <3>3 DEF RowFields, ToEnabled
    <3>5. repo'[s].enabled = TRUE /\ repo'[s].org = repo[s].org BY <3>1, <3>4 DEF RowFields
    <3>6. PICK o : o = repo[s].org OBVIOUS
    <3>7. OrgBillingOwner(o)' = OrgBillingOwner(o) BY <1>1 DEF OrgBillingOwner
    <3>8. OrgBillingOwner(o)' = paid'[s] BY <3>1, <3>2, <3>6, <3>7
    <3> QED BY <3>5, <3>6, <3>8 DEF OrgBillingOwner
  <2>2. CASE s # r
    <3>1. paid'[s] = paid[s] /\ repo'[s] = repo[s] BY <1>1, <1>2, <2>2
    <3>2. PICK o : o = repo[s].org OBVIOUS
    <3>3. repo[s].enabled = TRUE /\ OrgBillingOwner(o) = paid[s]
      BY <2>2, <3>1, <3>2 DEF SlotInv, Funded
    <3>4. OrgBillingOwner(o)' = OrgBillingOwner(o) BY <1>1 DEF OrgBillingOwner
    <3> QED BY <3>1, <3>2, <3>3, <3>4 DEF OrgBillingOwner
  <2> QED BY <2>1, <2>2
<1>11. ASSUME NEW u \in Users
       PROVE  Cardinality(PaidBy(u)') + Cardinality(AskedBy(u)')
                <= RepoLimit + Cardinality(Requests) - 1
  <2>0. u # Nobody BY NamesAssumption
  <2>1. /\ Cardinality(PaidBy(u)) \in Nat /\ Cardinality(AskedBy(u)) \in Nat
        /\ IsFiniteSet(PaidBy(u)) /\ IsFiniteSet(AskedBy(u))
    BY PayersAreFinite
  <2>2. Cardinality(PaidBy(u)) + Cardinality(AskedBy(u)) <= RepoLimit + Cardinality(Requests) - 1
    BY DEF SlotInv, Within
  <2>3. CASE u # v
    <3>1. PaidBy(u)' \subseteq PaidBy(u)
      BY <1>1, <1>2, <1>4, <2>0, <2>3 DEF PaidBy
    <3>2. AskedBy(u)' \subseteq AskedBy(u) BY <1>9, <2>0 DEF AskedBy
    <3>3. /\ Cardinality(PaidBy(u)') \in Nat /\ Cardinality(AskedBy(u)') \in Nat
          /\ Cardinality(PaidBy(u)') <= Cardinality(PaidBy(u))
          /\ Cardinality(AskedBy(u)') <= Cardinality(AskedBy(u))
      BY <2>1, <3>1, <3>2, FS_Subset, FS_CardinalityType
    <3> QED BY <2>1, <2>2, <3>3, LimitTyped
  <2>4. CASE u = v
    <3>1. PaidBy(u)' \subseteq PaidBy(u) \cup {r} BY <1>1, <1>2 DEF PaidBy
    <3>2. AskedBy(u)' = AskedBy(u) \ {q} /\ q \in AskedBy(u)
      BY <1>9, <2>0, <2>4 DEF AskedBy, v
    <3>3. /\ IsFiniteSet(PaidBy(u) \cup {r})
          /\ Cardinality(PaidBy(u) \cup {r}) \in Nat
          /\ Cardinality(PaidBy(u) \cup {r}) <= Cardinality(PaidBy(u)) + 1
      <4>1. /\ IsFiniteSet(PaidBy(u) \cup {r})
            /\ Cardinality(PaidBy(u) \cup {r}) =
                  IF r \in PaidBy(u) THEN Cardinality(PaidBy(u)) ELSE Cardinality(PaidBy(u)) + 1
        BY <2>1, FS_AddElement
      <4> QED BY <2>1, <4>1
    <3>4. /\ Cardinality(PaidBy(u)') \in Nat
          /\ Cardinality(PaidBy(u)') <= Cardinality(PaidBy(u) \cup {r})
      BY <3>1, <3>3, FS_Subset, FS_CardinalityType
    <3>5. Cardinality(AskedBy(u)') = Cardinality(AskedBy(u)) - 1
      BY <2>1, <3>2, FS_RemoveElement
    <3> QED BY <2>1, <2>2, <3>3, <3>4, <3>5, LimitTyped
  <2> QED BY <2>3, <2>4
<1>12. Within' BY <1>9, <1>11 DEF Within
<1> QED BY <1>7, <1>10, <1>12

LEMMA DisableSlots ==
    ASSUME SlotInv, NEW r \in Repos, DisableRepository(r)
    PROVE  Joined' /\ Funded' /\ Within'
<1>1. owners' = owners /\ request' = request BY DEF DisableRepository, UsersOnly
<1> DEFINE next == [repo EXCEPT ![r] = ToEnabled(repo[r], FALSE)]
<1>2. SwitchedBy(next) BY DEF DisableRepository, ToEnabled
<1>3. repo \in [Repos -> AnyRow] BY DEF SlotInv, IInv, Types
<1>4. SameOwner(repo[r], ToEnabled(repo[r], FALSE)) BY <1>3, Switched
<1>5. next \in [Repos -> AnyRow] /\ \A s \in Repos : next[s].org = repo[s].org
  BY <1>3, <1>4 DEF SameOwner
<1> HIDE DEF next
<1>6. paid' \in [Repos -> Users \cup {Nobody}] /\ \A s \in Repos : RowStays(s)
  BY <1>2, <1>5, PaidWhileOn DEF SlotInv
<1> QED BY <1>1, <1>6, RowsOnly DEF SlotInv

LEMMA UserSlots == ASSUME SlotInv, UserStep PROVE Joined' /\ Funded' /\ Within'
BY JoinSlots, LeaveSlots, ExternalSlots, CheckSlots, EnableSlots, DisableSlots DEF UserStep

LEMMA QuietSlots ==
    ASSUME SlotInv, UNCHANGED <<rows, request>>
    PROVE  Joined' /\ Funded' /\ Within'
<1>1. owners' = owners /\ repo' = repo /\ paid' = paid /\ request' = request BY DEF rows
<1> QED BY <1>1, PaidStays, RowsOnly DEF SlotInv

LEMMA SlotStart == Init => SlotInv
<1> SUFFICES ASSUME Init PROVE SlotInv OBVIOUS
<1>1. /\ owners = [a \in Accounts |-> IF a \in Installed THEN <<Founder>> ELSE <<>>]
      /\ paid = [r \in Repos |-> Nobody] /\ request = [q \in Requests |-> NoRequest]
  BY DEF Init
<1>2. Joined
  <2>1. Founder \in Users BY NamesAssumption
  <2>2. \A a \in Accounts : owners[a] = <<Founder>> \/ owners[a] = <<>> BY <1>1
  <2>3. <<Founder>> \in Seq(Users) /\ Distinct(<<Founder>>)
    <3>1. Len(<<Founder>>) = 1 OBVIOUS
    <3> QED BY <2>1, <3>1 DEF Distinct
  <2>4. <<>> \in Seq(Users) /\ Distinct(<<>>)
    <3>1. Len(<<>>) = 0 OBVIOUS
    <3> QED BY <3>1, EmptySeq DEF Distinct
  <2>5. \A a \in Accounts : owners[a] \in Seq(Users) /\ Distinct(owners[a])
    BY <2>2, <2>3, <2>4
  <2> QED BY <1>1, <2>5 DEF Joined
<1>3. Funded BY <1>1 DEF Funded
<1>4. Within
  <2>1. NoRequest \in AskedFor /\ NoRequest.payer = Nobody BY DEF NoRequest, AskedFor
  <2>2. ASSUME NEW u \in Users
        PROVE  Cardinality(PaidBy(u)) + Cardinality(AskedBy(u))
                  <= RepoLimit + Cardinality(Requests) - 1
    <3>1. PaidBy(u) = {} /\ AskedBy(u) = {}
      BY <1>1, <2>1, NamesAssumption DEF PaidBy, AskedBy
    <3> QED BY <3>1, FS_EmptySet, LimitTyped
  <2> QED BY <1>1, <2>1, <2>2 DEF Within
<1> QED BY <1>2, <1>3, <1>4, Start DEF SlotInv

LEMMA SlotStep == SlotInv /\ [Next]_vars => SlotInv'
<1> SUFFICES ASSUME SlotInv, [Next]_vars PROVE SlotInv' OBVIOUS
<1>0. IInv' BY Inductive DEF SlotInv
<1>1. CASE GitHub
  <2>1. UNCHANGED <<rows, request>>
    BY <1>1 DEF GitHub, Install, Uninstall, Suspend, Unsuspend, AddRepo, RemoveRepo, DeleteRepo,
       Archive, Unarchive, Transfer, Grants, GitHubOnly
  <2> QED BY <1>0, <2>1, QuietSlots DEF SlotInv
<1>2. CASE GitHubWebhook BY <1>0, <1>2, WebhookSlots DEF SlotInv
<1>3. ASSUME NEW t \in Syncs, SyncStep(t) PROVE SlotInv' BY <1>0, <1>3, SyncSlots DEF SlotInv
<1>4. ASSUME NEW r \in Repos, RunInitialScan(r) PROVE SlotInv'
  BY <1>0, <1>4, ScanSlots DEF SlotInv
<1>5. CASE UserStep BY <1>0, <1>5, UserSlots DEF SlotInv
<1>6. CASE Expire \/ UNCHANGED vars
  BY <1>0, <1>6, QuietSlots DEF SlotInv, Expire, vars
<1> QED BY <1>1, <1>2, <1>3, <1>4, <1>5, <1>6 DEF Next

LEMMA SlotInvariant == Spec => []SlotInv
BY SlotStart, SlotStep, PTL DEF Spec

(* However many requests race through the allowance check, whatever moves   *)
(* meanwhile and whoever leaves, a plan is overrun by at most one           *)
(* repository each but the first.                                           *)
THEOREM SlotsHold == Spec => []SlotsBound
<1>1. ASSUME SlotInv PROVE SlotsBound
  <2> SUFFICES ASSUME NEW u \in Users
               PROVE  Cardinality({r \in EnabledRepos(u) : paid[r] = u})
                         <= RepoLimit + Cardinality(Requests) - 1
    BY DEF SlotsBound
  <2> DEFINE on == {r \in EnabledRepos(u) : paid[r] = u}
  <2>1. on \subseteq PaidBy(u) BY DEF PaidBy, EnabledRepos, Rows
  <2> HIDE DEF on
  <2>2. /\ IsFiniteSet(PaidBy(u)) /\ Cardinality(PaidBy(u)) \in Nat
        /\ Cardinality(AskedBy(u)) \in Nat
    BY PayersAreFinite
  <2>3. Cardinality(on) \in Nat /\ Cardinality(on) <= Cardinality(PaidBy(u))
    BY <2>1, <2>2, FS_Subset, FS_CardinalityType
  <2>4. Cardinality(PaidBy(u)) + Cardinality(AskedBy(u)) <= RepoLimit + Cardinality(Requests) - 1
    BY <1>1 DEF SlotInv, Within
  <2>5. Cardinality(on) <= RepoLimit + Cardinality(Requests) - 1
    BY <2>2, <2>3, <2>4, LimitTyped
  <2> QED BY <2>5 DEF on
<1>2. SlotInv => SlotsBound BY <1>1
<1> QED BY <1>2, SlotInvariant, PTL

(* Whoever links an organisation is its payer until they leave.             *)
THEOREM PayerKeeps == Spec => PayerStays
<1>1. ASSUME SlotInv, [Next]_vars, NEW a \in Accounts, OrgBillingOwner(a) # Nobody,
             OrgBillingOwner(a)' # OrgBillingOwner(a)
      PROVE  ~Contains(owners'[a], OrgBillingOwner(a))
  <2>0. a \in Orgs BY DEF Orgs
  <2>1. owners' # owners BY <1>1 DEF OrgBillingOwner
  <2>2. (\E u \in Users, b \in Accounts : SyncInstallations(u, b)) \/ \E u \in Users : DeleteUser(u)
    <3>1. ~GitHub
      BY <2>1 DEF GitHub, Install, Uninstall, Suspend, Unsuspend, AddRepo, RemoveRepo, DeleteRepo,
         Archive, Unarchive, Transfer, Grants, GitHubOnly, rows
    <3>2. ~GitHubWebhook BY <2>1 DEF GitHubWebhook, Handling
    <3>3. ~\E t \in Syncs : SyncStep(t)
      BY <2>1 DEF SyncStep, FetchRepositories, UpsertRepositories, EnqueueInitialScans, SyncFails,
         SyncCrashes, Working
    <3>4. ~(\E r \in Repos : RunInitialScan(r)) /\ ~Expire /\ ~UNCHANGED vars
      BY <2>1 DEF RunInitialScan, Expire, vars, rows
    <3>5. UserStep BY <1>1, <3>1, <3>2, <3>3, <3>4 DEF Next
    <3> QED BY <2>1, <3>5 DEF UserStep, CreateExternalRepository, DisableRepository, CheckQuota,
                              EnableRepository, UsersOnly
  <2>3. ~\E u \in Users, b \in Accounts : SyncInstallations(u, b)
    BY <1>1, <2>0, JoinSlots
  <2>4. PICK u \in Users : DeleteUser(u) BY <2>2, <2>3
  <2>5. OrgBillingOwner(a) = u BY <1>1, <2>0, <2>4, LeaveSlots
  <2> QED BY <1>1, <2>4, <2>5, LeaveSlots
<1>2. SlotInv /\ [Next]_vars =>
        [\A a \in Accounts :
            LET u == OrgBillingOwner(a) IN
            (u # Nobody /\ OrgBillingOwner(a)' # u) => ~Contains(owners'[a], u)]_vars
  BY <1>1
<1> QED BY <1>2, SlotInvariant, PTL DEF Spec, PayerStays

-----------------------------------------------------------------------------
(* Types: no step works with a repository that has no row.                  *)

Whole == \A r \in Repos : repo[r] = NoRow \/ repo[r].inst \in Nat

Requested ==
    \A q \in Requests :
        request[q] = NoRequest \/ (request[q].repo \in Repos /\ repo[request[q].repo] # NoRow)

(* What a sync found unscanned, and every scan on its way, is of a row. *)
Listed == \A t \in Syncs : sync[t].stage = "stored" => \A r \in sync[t].rs : repo[r] # NoRow

Waited == \A r \in Repos : waiting[r] > 0 => repo[r] # NoRow

(* The variables that the invariants above leave alone. *)
Rest == archived \in SUBSET Repos /\ org \in [Accounts -> Nat] /\ syncKey \in SUBSET Nat

TypeInv == SlotInv /\ Whole /\ Requested /\ Listed /\ Waited /\ Rest

(* A row stays, changes without moving, or is written with an installation. *)
RowMoves(r) ==
    \/ repo'[r] = repo[r]
    \/ repo[r] # NoRow /\ repo'[r].inst = repo[r].inst
    \/ repo'[r].inst \in Nat

LEMMA NoRowInst == NoRow.inst = -1 BY DEF NoRow

(* Rows are never dropped. *)
LEMMA RowsLast ==
    ASSUME Whole, \A r \in Repos : RowMoves(r)
    PROVE  Whole' /\ \A r \in Repos : repo[r] # NoRow => repo'[r] # NoRow
<1>1. ASSUME NEW r \in Repos
      PROVE  /\ repo'[r] = NoRow \/ repo'[r].inst \in Nat
             /\ repo[r] # NoRow => repo'[r] # NoRow
  <2>1. repo[r] = NoRow \/ repo[r].inst \in Nat BY DEF Whole
  <2>2. RowMoves(r) OBVIOUS
  <2>3. repo'[r].inst \in Nat => repo'[r] # NoRow BY NoRowInst
  <2> QED BY <2>1, <2>2, <2>3 DEF RowMoves
<1> QED BY <1>1 DEF Whole

LEMMA KeptMoves == ASSUME RowsKept, \A r \in Repos : repo[r] = NoRow => repo'[r] = repo[r]
                   PROVE  \A r \in Repos : RowMoves(r)
BY DEF RowsKept, SameOwner, RowMoves

(* What the rest of a step has to leave alone, or to add a row's work to. *)
LEMMA StaysTyped ==
    ASSUME TypeInv, SlotInv', \A r \in Repos : RowMoves(r), Requested', Rest',
           \A t \in Syncs : sync'[t].stage = "stored" =>
              (sync'[t] = sync[t] \/ \A r \in sync'[t].rs : repo'[r] # NoRow),
           \A r \in Repos : waiting'[r] > 0 => (waiting[r] > 0 \/ repo[r] # NoRow)
    PROVE  TypeInv'
<1>1. Whole' /\ \A r \in Repos : repo[r] # NoRow => repo'[r] # NoRow
  BY RowsLast DEF TypeInv
<1>2. Waited' BY <1>1 DEF TypeInv, Waited
<1>3. Listed'
  <2> SUFFICES ASSUME NEW t \in Syncs, sync'[t].stage = "stored", NEW r \in sync'[t].rs
               PROVE  repo'[r] # NoRow
    BY DEF Listed
  <2>1. CASE sync'[t] = sync[t]
    <3>1. r \in Repos BY <2>1 DEF TypeInv, SlotInv, IInv, Types, SyncTask
    <3> QED BY <1>1, <2>1, <3>1 DEF TypeInv, Listed
  <2> QED BY <2>1
<1> QED BY <1>1, <1>2, <1>3 DEF TypeInv

LEMMA RequestsLast ==
    ASSUME TypeInv, request' = request, \A r \in Repos : RowMoves(r)
    PROVE  Requested'
<1>1. \A r \in Repos : repo[r] # NoRow => repo'[r] # NoRow BY RowsLast DEF TypeInv
<1> QED BY <1>1 DEF TypeInv, Requested

(* A queued sync has found nothing yet. *)
LEMMA QueuedStage == ASSUME NEW a, NEW i PROVE Queued(a, i).stage = "queued"
<1>1. Idle = [x \in SyncFields |-> Idle[x]] BY DEF Idle, SyncFields
<1>2. Queued(a, i) = [x \in SyncFields |-> CASE x = "stage" -> "queued" [] x = "inst" -> i
                                           [] x = "acct" -> a [] OTHER -> Idle[x]]
  BY <1>1 DEF Queued, SyncFields
<1> QED BY <1>2 DEF SyncFields

LEMMA EnqueuedTyped ==
    ASSUME TypeInv, NEW a, NEW i \in Nat, EnqueueInstallationSync(a, i)
    PROVE  /\ syncKey' \in SUBSET Nat
           /\ \A t \in Syncs : sync'[t].stage = "stored" => sync'[t] = sync[t]
<1>1. syncKey' \in SUBSET Nat BY DEF TypeInv, Rest, EnqueueInstallationSync
<1>2. sync' = sync \/ \E t \in Syncs : sync' = [sync EXCEPT ![t] = Queued(a, i)]
  BY DEF EnqueueInstallationSync
<1>3. sync \in [Syncs -> SyncTask] BY DEF TypeInv, SlotInv, IInv, Types
<1>4. \A t \in Syncs : sync'[t] = sync[t] \/ sync'[t] = Queued(a, i) BY <1>2, <1>3
<1> QED BY <1>1, <1>4, QueuedStage

LEMMA UnusedStays ==
    ASSUME UNCHANGED <<rows, request, sync, syncKey, waiting>>, archived' \in SUBSET Repos,
           TypeInv, SlotInv'
    PROVE  TypeInv'
<1>1. repo' = repo /\ request' = request /\ sync' = sync /\ waiting' = waiting /\ Rest'
  BY DEF rows, TypeInv, Rest
<1>2. \A r \in Repos : RowMoves(r) BY <1>1 DEF RowMoves
<1>3. Requested' BY <1>1, <1>2, RequestsLast
<1> QED BY <1>1, <1>2, <1>3, StaysTyped

LEMMA GitHubTyped == ASSUME TypeInv, GitHub, SlotInv' PROVE TypeInv'
<1>1. UNCHANGED <<rows, request, sync, syncKey, waiting>>
  BY DEF GitHub, Install, Uninstall, Suspend, Unsuspend, AddRepo, RemoveRepo, DeleteRepo,
     Archive, Unarchive, Transfer, Grants, GitHubOnly, scans
<1>2. archived' \in SUBSET Repos
  BY DEF GitHub, Install, Uninstall, Suspend, Unsuspend, AddRepo, RemoveRepo, DeleteRepo,
     Archive, Unarchive, Transfer, Grants, TypeInv, Rest
<1> QED BY <1>1, <1>2, UnusedStays

LEMMA WebhookTyped == ASSUME TypeInv, GitHubWebhook, SlotInv' PROVE TypeInv'
<1>1. PICK m \in told :
        /\ Handling
        /\ \/ HandleInstalled(m) \/ HandleUninstalled(m) \/ HandleAdded(m)
           \/ HandleRemoved(m) \/ HandleArchivedOrGone(m) \/ HandleUnarchived(m)
  BY DEF GitHubWebhook
<1>2. /\ request' = request /\ waiting' = waiting /\ archived' = archived
  BY <1>1 DEF Handling, github, scans
<1>3. m.acct \in Accounts /\ m.inst \in Nat BY DEF TypeInv, SlotInv, IInv, Types, Hook
<1>4. RowsKept BY <1>1, HandlerRows DEF TypeInv, SlotInv, IInv
<1>5. \A r \in Repos : repo[r] = NoRow => repo'[r] = repo[r]
  <2>1. repo' = repo \/ \E rs : rs \subseteq Rows /\ \A r \in Repos \ rs : repo'[r] = repo[r]
    <3>1. RowsOf(m.inst) \subseteq Rows /\ m.repos \cap Rows \subseteq Rows BY DEF RowsOf
    <3>2. CASE HandleInstalled(m) \/ HandleUninstalled(m)
      <4>1. repo' = repo \/ \A r \in Repos \ RowsOf(m.inst) : repo'[r] = repo[r]
        BY <3>2 DEF HandleInstalled, HandleUninstalled, SwitchedBy, Rewritten
      <4> QED BY <3>1, <4>1
    <3>3. CASE \/ HandleAdded(m) \/ HandleRemoved(m) \/ HandleArchivedOrGone(m)
               \/ HandleUnarchived(m)
      <4>1. \A r \in Repos \ (m.repos \cap Rows) : repo'[r] = repo[r]
        BY <3>3 DEF HandleAdded, HandleRemoved, HandleArchivedOrGone, HandleUnarchived,
                    SwitchedBy, Rewritten
      <4> QED BY <3>1, <4>1
    <3> QED BY <1>1, <3>2, <3>3
  <2> QED BY <2>1 DEF Rows
<1>6. \A r \in Repos : RowMoves(r) BY <1>4, <1>5, KeptMoves
<1>7. Requested' BY <1>2, <1>6, RequestsLast
<1>8. org' \in [Accounts -> Nat]
  BY <1>1, <1>3 DEF HandleInstalled, HandleUninstalled, HandleAdded, HandleRemoved,
     HandleArchivedOrGone, HandleUnarchived, UpsertOrganization, TypeInv, Rest
<1>9. /\ syncKey' \in SUBSET Nat
      /\ \A t \in Syncs : sync'[t].stage = "stored" => sync'[t] = sync[t]
  <2>1. \/ EnqueueInstallationSync(m.acct, m.inst)
        \/ sync' = sync /\ syncKey' = syncKey
    BY <1>1 DEF HandleInstalled, HandleUninstalled, HandleAdded, HandleRemoved,
       HandleArchivedOrGone, HandleUnarchived, NoSync
  <2> QED BY <1>3, <2>1, EnqueuedTyped DEF TypeInv, Rest
<1>10. Rest' BY <1>2, <1>8, <1>9 DEF TypeInv, Rest
<1> QED BY <1>2, <1>6, <1>7, <1>9, <1>10, StaysTyped

LEMMA SyncTyped == ASSUME TypeInv, NEW t \in Syncs, SyncStep(t), SlotInv' PROVE TypeInv'
<1>0. /\ sync \in [Syncs -> SyncTask] /\ repo \in [Repos -> AnyRow]
      /\ waiting \in [Repos -> Nat]
  BY DEF TypeInv, SlotInv, IInv, Types
<1>1. /\ request' = request /\ Rest'
  BY DEF SyncStep, FetchRepositories, UpsertRepositories, EnqueueInitialScans, SyncFails,
         SyncCrashes, Working, github, TypeInv, Rest
<1>2. \A r \in Repos : RowMoves(r)
  <2>1. CASE UpsertRepositories(t)
    <3>1. repo' = Rewritten(sync[t].rs, LAMBDA row : Upserted(row, sync[t].acct, sync[t].inst))
      BY <2>1 DEF UpsertRepositories
    <3>2. sync[t].acct \in Orgs /\ sync[t].inst \in Nat BY <1>0 DEF SyncTask
    <3>3. ASSUME NEW r \in Repos PROVE RowMoves(r)
      <4>1. repo[r] \in AnyRow BY <1>0
      <4>2. repo'[r] = repo[r] \/ repo'[r] = Upserted(repo[r], sync[t].acct, sync[t].inst)
        BY <3>1 DEF Rewritten
      <4>3. Upserted(repo[r], sync[t].acct, sync[t].inst).inst = sync[t].inst
        BY <3>2, <4>1, Owned
      <4> QED BY <3>2, <4>2, <4>3 DEF RowMoves
    <3> QED BY <3>3
  <2>2. CASE repo' = repo BY <2>2 DEF RowMoves
  <2> QED BY <2>1, <2>2 DEF SyncStep, FetchRepositories, EnqueueInitialScans, SyncFails,
                            SyncCrashes
<1>3. Requested' BY <1>1, <1>2, RequestsLast
<1>4. \A u \in Syncs \ {t} : sync'[u] = sync[u]
  BY <1>0 DEF SyncStep, FetchRepositories, UpsertRepositories, EnqueueInitialScans, SyncFails,
              SyncCrashes, Goes
<1>5. sync'[t].stage = "stored" => \A r \in sync'[t].rs : repo'[r] # NoRow
  <2> DEFINE found == {r \in sync[t].rs : ~repo[r].scanned}
  <2>1. CASE UpsertRepositories(t)
    <3>1. sync'[t] = ToStage(sync[t], "stored", found)
      BY <1>0, <2>1 DEF UpsertRepositories, Goes, ToStage
    <3>2. sync[t] = [x \in SyncFields |-> sync[t][x]] /\ sync[t].rs \in SUBSET Repos
      BY <1>0, SyncByFields
    <3>3. sync'[t] = [x \in SyncFields |-> CASE x = "stage" -> "stored" [] x = "rs" -> found
                                           [] OTHER -> sync[t][x]]
      BY <3>1, <3>2 DEF SyncFields, ToStage
    <3>4. sync'[t].rs = found BY <3>3 DEF SyncFields
    <3>5. ASSUME NEW r \in sync[t].rs PROVE repo'[r] # NoRow
      <4>1. sync[t].acct \in Orgs /\ sync[t].inst \in Nat /\ repo[r] \in AnyRow
        BY <1>0, <3>2 DEF SyncTask
      <4>2. repo'[r] = Upserted(repo[r], sync[t].acct, sync[t].inst)
        BY <2>1, <3>2 DEF UpsertRepositories, Rewritten
      <4>3. repo'[r].inst \in Nat BY <4>1, <4>2, Owned
      <4> QED BY <4>3, NoRowInst
    <3> QED BY <3>4, <3>5
  <2>2. CASE FetchRepositories(t)
    <3> DEFINE rs == {r \in granted : home[r] = sync[t].acct}
    <3>1. sync'[t] = ToStage(sync[t], "listed", rs) \/ sync'[t] = Idle
      BY <1>0, <2>2 DEF FetchRepositories, Goes, ToStage
    <3>2. sync[t] = [x \in SyncFields |-> sync[t][x]] BY <1>0, SyncByFields
    <3> HIDE DEF rs
    <3>3. ToStage(sync[t], "listed", rs)
            = [x \in SyncFields |-> CASE x = "stage" -> "listed" [] x = "rs" -> rs
                                    [] OTHER -> sync[t][x]]
      BY <3>2 DEF SyncFields, ToStage
    <3>4. ToStage(sync[t], "listed", rs).stage = "listed" BY <3>3 DEF SyncFields
    <3> QED BY <3>1, <3>4 DEF Idle
  <2>3. CASE EnqueueInitialScans(t) \/ SyncFails(t)
    <3>1. sync'[t] = Idle BY <1>0, <2>3 DEF EnqueueInitialScans, SyncFails, Goes
    <3> QED BY <3>1 DEF Idle
  <2>4. CASE SyncCrashes(t)
    <3>1. sync'[t] = Queued(sync[t].acct, sync[t].inst)
      BY <1>0, <2>4 DEF SyncCrashes, Goes
    <3> QED BY <3>1, QueuedStage
  <2> QED BY <2>1, <2>2, <2>3, <2>4 DEF SyncStep
<1>6. \A r \in Repos : waiting'[r] > 0 => (waiting[r] > 0 \/ repo[r] # NoRow)
  <2>1. CASE EnqueueInitialScans(t)
    <3> DEFINE rs == sync[t].rs \ AlreadyQueued(sync[t].rs)
    <3>1. /\ waiting' = [r \in Repos |-> waiting[r] + IF r \in rs THEN 1 ELSE 0]
          /\ sync[t].stage = "stored"
      BY <2>1 DEF EnqueueInitialScans, At
    <3>2. \A r \in rs : repo[r] # NoRow BY <3>1 DEF TypeInv, Listed
    <3> HIDE DEF rs
    <3> QED BY <1>0, <3>1, <3>2
  <2>2. CASE waiting' = waiting BY <2>2
  <2> QED BY <2>1, <2>2 DEF SyncStep, FetchRepositories, UpsertRepositories, SyncFails,
                            SyncCrashes, scans
<1>7. \A u \in Syncs : sync'[u].stage = "stored" =>
         (sync'[u] = sync[u] \/ \A r \in sync'[u].rs : repo'[r] # NoRow)
  BY <1>4, <1>5
<1> QED BY <1>1, <1>2, <1>3, <1>6, <1>7, StaysTyped

LEMMA ScanTyped == ASSUME TypeInv, NEW r \in Repos, RunInitialScan(r), SlotInv' PROVE TypeInv'
<1>0. repo \in [Repos -> AnyRow] /\ waiting \in [Repos -> Nat]
  BY DEF TypeInv, SlotInv, IInv, Types
<1>1. request' = request /\ sync' = sync /\ Rest'
  BY DEF RunInitialScan, github, TypeInv, Rest
<1>2. repo[r] # NoRow BY DEF RunInitialScan, TypeInv, Waited
<1>3. \A s \in Repos : RowMoves(s)
  <2>1. repo' = repo \/ repo' = [repo EXCEPT ![r] = ToScanned(repo[r])]
    BY DEF RunInitialScan, ToScanned
  <2>2. ToScanned(repo[r]).inst = repo[r].inst BY <1>0, Scanned DEF SameOwner
  <2> QED BY <1>0, <1>2, <2>1, <2>2 DEF RowMoves
<1>4. Requested' BY <1>1, <1>3, RequestsLast
<1>5. \A s \in Repos : waiting'[s] > 0 => waiting[s] > 0 BY <1>0 DEF RunInitialScan
<1> QED BY <1>1, <1>3, <1>4, <1>5, StaysTyped

LEMMA UserTyped == ASSUME TypeInv, UserStep, SlotInv' PROVE TypeInv'
<1>0. repo \in [Repos -> AnyRow] /\ request \in [Requests -> AskedFor]
  BY DEF TypeInv, SlotInv, IInv, Types, Within
<1>1. waiting' = waiting /\ archived' = archived
  BY DEF UserStep, SyncInstallations, DeleteUser, CreateExternalRepository, DisableRepository,
         CheckQuota, EnableRepository, UsersOnly, github, scans
<1>2. ASSUME NEW u \in Users, NEW a \in Accounts, SyncInstallations(u, a) PROVE TypeInv'
  <2>1. inst[a] \in Nat /\ EnqueueInstallationSync(a, inst[a]) /\ repo' = repo
        /\ request' = request /\ org' = [org EXCEPT ![a] = inst[a]]
    BY <1>2 DEF SyncInstallations, UpsertOrganization, TypeInv, SlotInv, IInv, Types
  <2>2. /\ syncKey' \in SUBSET Nat
        /\ \A t \in Syncs : sync'[t].stage = "stored" => sync'[t] = sync[t]
    BY <2>1, EnqueuedTyped
  <2>3. \A r \in Repos : RowMoves(r) BY <2>1 DEF RowMoves
  <2>4. Requested' BY <2>1, <2>3, RequestsLast
  <2>5. Rest' BY <1>1, <2>1, <2>2 DEF TypeInv, Rest
  <2> QED BY <1>1, <2>2, <2>3, <2>4, <2>5, StaysTyped
<1>3. ASSUME sync' = sync, syncKey' = syncKey, org' = org, \A r \in Repos : RowMoves(r),
             Requested'
      PROVE  TypeInv'
  <2>1. Rest' BY <1>1, <1>3 DEF TypeInv, Rest
  <2> QED BY <1>1, <1>3, <2>1, StaysTyped
<1>4. ASSUME NEW u \in Users, DeleteUser(u) PROVE TypeInv'
  <2>1. /\ sync' = sync /\ syncKey' = syncKey /\ org' = org /\ repo' = repo
        /\ request' = [q \in Requests |-> [request[q] EXCEPT !.payer = Unpaid(@, u)]]
    BY <1>4 DEF DeleteUser
  <2>2. \A r \in Repos : RowMoves(r) BY <2>1 DEF RowMoves
  <2>3. ASSUME NEW q \in Requests
        PROVE  \/ request'[q] = NoRequest
               \/ request'[q].repo \in Repos /\ repo'[request'[q].repo] # NoRow
    <3>1. request[q] \in AskedFor BY <1>0
    <3>2. request'[q] = [request[q] EXCEPT !.payer = Unpaid(request[q].payer, u)] BY <2>1
    <3>3. request'[q].repo = request[q].repo BY <3>1, <3>2 DEF AskedFor
    <3>4. CASE request[q] = NoRequest
      <4>1. u # Nobody BY NamesAssumption
      <4>2. Unpaid(Nobody, u) = Nobody BY <4>1 DEF Unpaid
      <4>3. request'[q] = [NoRequest EXCEPT !.payer = Nobody]
        BY <3>2, <3>4, <4>2 DEF NoRequest
      <4> QED BY <4>3 DEF NoRequest
    <3>5. CASE request[q] # NoRequest
      BY <2>1, <3>3, <3>5 DEF TypeInv, Requested
    <3> QED BY <3>4, <3>5
  <2>4. Requested' BY <2>3 DEF Requested
  <2> QED BY <1>3, <2>1, <2>2, <2>4
<1>5. ASSUME NEW r \in Repos, CreateExternalRepository(r) PROVE TypeInv'
  <2> DEFINE new == [NoRow EXCEPT !.inst = 0]
  <2>1. /\ sync' = sync /\ syncKey' = syncKey /\ org' = org /\ request' = request
        /\ repo' = [repo EXCEPT ![r] = new]
    BY <1>5 DEF CreateExternalRepository
  <2>2. new.inst = 0 BY DEF NoRow
  <2> HIDE DEF new
  <2>3. \A s \in Repos : RowMoves(s) BY <1>0, <2>1, <2>2 DEF RowMoves
  <2>4. Requested' BY <2>1, <2>3, RequestsLast
  <2> QED BY <1>3, <2>1, <2>3, <2>4
<1>6. ASSUME NEW r \in Repos, DisableRepository(r) PROVE TypeInv'
  <2>1. /\ sync' = sync /\ syncKey' = syncKey /\ org' = org /\ request' = request
        /\ repo' = [repo EXCEPT ![r] = ToEnabled(repo[r], FALSE)] /\ repo[r].enabled
    BY <1>6 DEF DisableRepository, UsersOnly, SwitchedBy, ToEnabled
  <2>2. repo[r] # NoRow BY <2>1 DEF NoRow
  <2>3. ToEnabled(repo[r], FALSE).inst = repo[r].inst BY <1>0, Switched DEF SameOwner
  <2>4. \A s \in Repos : RowMoves(s) BY <1>0, <2>1, <2>2, <2>3 DEF RowMoves
  <2>5. Requested' BY <2>1, <2>4, RequestsLast
  <2> QED BY <1>3, <2>1, <2>4, <2>5
<1>7. ASSUME NEW q \in Requests, CheckQuota(q) PROVE TypeInv'
  <2>1. /\ sync' = sync /\ syncKey' = syncKey /\ org' = org /\ repo' = repo
    BY <1>7 DEF CheckQuota, UsersOnly
  <2>2. PICK r \in Rows :
           request' = [request EXCEPT ![q] = [repo |-> r, payer |-> OrgBillingOwner(repo[r].org)]]
    BY <1>7 DEF CheckQuota
  <2>3. \A s \in Repos : RowMoves(s) BY <2>1 DEF RowMoves
  <2>4. r \in Repos /\ repo[r] # NoRow BY DEF Rows
  <2>5. Requested' BY <1>0, <2>1, <2>2, <2>4 DEF TypeInv, Requested
  <2> QED BY <1>3, <2>1, <2>3, <2>5
<1>8. ASSUME NEW q \in Requests, EnableRepository(q) PROVE TypeInv'
  <2> DEFINE r == request[q].repo
  <2>1. /\ sync' = sync /\ syncKey' = syncKey /\ org' = org
        /\ request' = [request EXCEPT ![q] = NoRequest] /\ request[q] # NoRequest
        /\ repo' = [repo EXCEPT ![r] = ToEnabled(repo[r], TRUE)]
    BY <1>8 DEF EnableRepository, UsersOnly, ToEnabled
  <2>2. r \in Repos /\ repo[r] # NoRow BY <2>1 DEF TypeInv, Requested
  <2> HIDE DEF r
  <2>3. ToEnabled(repo[r], TRUE).inst = repo[r].inst BY <1>0, <2>2, Switched DEF SameOwner
  <2>4. \A s \in Repos : RowMoves(s) BY <1>0, <2>1, <2>2, <2>3 DEF RowMoves
  <2>5. \A s \in Repos : repo[s] # NoRow => repo'[s] # NoRow BY <2>4, RowsLast DEF TypeInv
  <2>6. Requested' BY <1>0, <2>1, <2>5 DEF TypeInv, Requested
  <2> QED BY <1>3, <2>1, <2>4, <2>6
<1> QED BY <1>2, <1>4, <1>5, <1>6, <1>7, <1>8 DEF UserStep

LEMMA TypeStart == Init => TypeInv
<1> SUFFICES ASSUME Init PROVE TypeInv OBVIOUS
<1>1. SlotInv BY SlotStart
<1>2. /\ inst = [a \in Accounts |-> InitialInst(a)] /\ org = inst /\ archived = {}
      /\ syncKey = {} /\ repo = [r \in Repos |-> InitialRow(r)]
      /\ request = [q \in Requests |-> NoRequest]
      /\ sync = [t \in Syncs |-> Idle] /\ waiting = [r \in Repos |-> 0]
  BY DEF Init
<1>3. Rest BY <1>2 DEF Rest, InitialInst
<1>4. Whole
  <2> SUFFICES ASSUME NEW r \in Repos PROVE repo[r] = NoRow \/ repo[r].inst = 1 BY DEF Whole
  <2>1. [NoRow EXCEPT !.org = Home[r], !.inst = 1].inst = 1 BY DEF NoRow
  <2> QED BY <1>2, <2>1 DEF InitialRow
<1>5. Requested BY <1>2 DEF Requested
<1>6. Listed BY <1>2 DEF Listed, Idle
<1>7. Waited BY <1>2 DEF Waited
<1> QED BY <1>1, <1>3, <1>4, <1>5, <1>6, <1>7 DEF TypeInv

LEMMA TypeStep == TypeInv /\ [Next]_vars => TypeInv'
<1> SUFFICES ASSUME TypeInv, [Next]_vars PROVE TypeInv' OBVIOUS
<1>0. SlotInv' BY SlotStep DEF TypeInv
<1>1. CASE GitHub BY <1>0, <1>1, GitHubTyped
<1>2. CASE GitHubWebhook BY <1>0, <1>2, WebhookTyped
<1>3. ASSUME NEW t \in Syncs, SyncStep(t) PROVE TypeInv' BY <1>0, <1>3, SyncTyped
<1>4. ASSUME NEW r \in Repos, RunInitialScan(r) PROVE TypeInv' BY <1>0, <1>4, ScanTyped
<1>5. CASE UserStep BY <1>0, <1>5, UserTyped
<1>6. CASE Expire \/ UNCHANGED vars
  <2>1. /\ repo' = repo /\ request' = request /\ sync' = sync /\ waiting' = waiting /\ Rest'
    BY <1>6 DEF Expire, vars, github, rows, scans, TypeInv, Rest
  <2>2. \A r \in Repos : RowMoves(r) BY <2>1 DEF RowMoves
  <2>3. Requested' BY <2>1, <2>2, RequestsLast
  <2> QED BY <1>0, <2>1, <2>2, <2>3, StaysTyped
<1> QED BY <1>1, <1>2, <1>3, <1>4, <1>5, <1>6 DEF Next

LEMMA TypeInvariant == Spec => []TypeInv
BY TypeStart, TypeStep, PTL DEF Spec

(* Every variable has its type: a webhook, a sync, a scan or a request that *)
(* comes late never writes part of a row that is not there.                 *)
THEOREM AccessTypes == Spec => []TypeOK
<1>1. ASSUME TypeInv PROVE TypeOK
  <2>1. Types /\ Named /\ Joined /\ Funded /\ Within BY <1>1 DEF TypeInv, SlotInv, IInv
  <2>2. /\ inst \in [Accounts -> Nat] /\ issued \in [Accounts -> SUBSET Nat]
        /\ suspended \subseteq Accounts /\ {granted, archived} \subseteq SUBSET Repos
        /\ home \in [Repos -> Accounts] /\ {unarchivals, revived, ops} \subseteq Nat
        /\ org \in [Accounts -> Nat] /\ owners \in [Accounts -> Seq(Users)]
        /\ paid \in [Repos -> Users \cup {Nobody}]
        /\ syncKey \subseteq Nat /\ scanKey \subseteq Repos /\ waiting \in [Repos -> Nat]
    BY <1>1, <2>1 DEF Types, Named, Joined, Funded, TypeInv, Rest
  <2>3. told \subseteq [kind : {"created", "added", "deleted", "suspend", "unsuspend", "removed",
                                "gone", "archived", "unarchived"},
                        acct : Accounts, inst : Nat, repos : SUBSET Repos, n : Nat]
    BY <2>1 DEF Types, Hook, Kinds
  <2>4. sync \in [Syncs -> [stage : {"idle", "queued", "listed", "stored"}, inst : Nat,
                            acct : Accounts \cup {External}, rs : SUBSET Repos]]
    BY <2>1 DEF Types, SyncTask, Stages, Orgs
  <2>5. repo \in [Repos -> Row \cup {NoRow}]
    <3>1. ASSUME NEW r \in Repos PROVE repo[r] \in Row \cup {NoRow}
      <4>1. repo[r] \in AnyRow BY <2>1 DEF Types
      <4>2. CASE repo[r].inst \in Nat BY <4>1, <4>2 DEF AnyRow, Row, Orgs
      <4> QED BY <1>1, <4>2 DEF TypeInv, Whole
    <3> QED BY <2>1, <3>1 DEF Types
  <2>6. request \in [Requests -> [repo : Repos, payer : Users \cup {Nobody}] \cup {NoRequest}]
    <3>1. ASSUME NEW q \in Requests
          PROVE  request[q] \in [repo : Repos, payer : Users \cup {Nobody}] \cup {NoRequest}
      <4>1. request[q] \in AskedFor BY <2>1 DEF Within
      <4>2. CASE request[q].repo \in Repos BY <4>1, <4>2 DEF AskedFor
      <4> QED BY <1>1, <4>2 DEF TypeInv, Requested
    <3> QED BY <2>1, <3>1 DEF Within
  <2> QED BY <2>2, <2>3, <2>4, <2>5, <2>6 DEF TypeOK
<1>2. TypeInv => TypeOK BY <1>1
<1> QED BY <1>2, TypeInvariant, PTL
=============================================================================
