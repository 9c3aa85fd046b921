-------------------------- MODULE DashboardProofs --------------------------
(***************************************************************************)
(* Theorems about Dashboard, for every number of targets, files,           *)
(* fingerprints and events: GradeExplained, PagesAgree, ScoresAgree,       *)
(* ReportIsSane, TypeOK, and that a score never rises with the findings.   *)
(* The sums the pages compute are reasoned about with the library the      *)
(* module begins with: induction over the subsets of a finite set, by the  *)
(* least counterexample.                                                   *)
(***************************************************************************)
EXTENDS Dashboard, FiniteSetTheorems, SequenceTheorems, WellFoundedInduction, TLAPS

-----------------------------------------------------------------------------
(* Sums over a finite set: induction over its subsets, which form a          *)
(* well-founded order                                                        *)

First(s) == CHOOSE x \in s : TRUE

Folds(f, S, g) ==
    g = [s \in SUBSET S |-> IF s = {} THEN 0 ELSE f[First(s)] + g[s \ {First(s)}]]

Total(f, S) == MapThenSumSet(LAMBDA x : f[x], S)

LEMMA TotalIs == ASSUME NEW f, NEW S PROVE Total(f, S) = (CHOOSE g : Folds(f, S, g))[S]
BY DEF Total, MapThenSumSet, MapThenFoldSet, Folds, First

(* Induction over the subsets of a finite set: of the ones with a property   *)
(* there is one whose proper subsets do not have it.                         *)
LEMMA Smallest ==
    ASSUME NEW S, IsFiniteSet(S), NEW B \in SUBSET SUBSET S, B # {}
    PROVE  \E u \in B : \A v \in SUBSET u : v # u => v \notin B
<1>1. IsWellFoundedOn(StrictSubsetOrdering(S), FiniteSubsetsOf(S))
  BY FS_StrictSubsetOrderingWellFounded
<1>2. FiniteSubsetsOf(S) = SUBSET S BY FS_FiniteSubsetsOfFinite
<1>3. PICK u \in B : \A v \in B : ~(<<v, u>> \in StrictSubsetOrdering(S))
  BY <1>1, <1>2, WFMin
<1>4. ASSUME NEW v \in SUBSET u, v # u, v \in B PROVE FALSE
  BY <1>3, <1>4 DEF StrictSubsetOrdering
<1> QED BY <1>4

LEMMA FirstIn == ASSUME NEW s, s # {} PROVE First(s) \in s
BY DEF First

LEMMA FoldsEmpty == ASSUME NEW f, NEW S, NEW g, Folds(f, S, g) PROVE g[{}] = 0
BY DEF Folds

LEMMA FoldsStep ==
    ASSUME NEW f, NEW S, NEW g, Folds(f, S, g), NEW s \in SUBSET S, s # {},
           NEW v, v = s \ {First(s)}
    PROVE  g[s] = f[First(s)] + g[v]
BY DEF Folds

(* Two folds agree where both are defined. *)
LEMMA FoldsAgree ==
    ASSUME NEW f, NEW S, IsFiniteSet(S), NEW T \in SUBSET S, NEW g, NEW h,
           Folds(f, S, g), Folds(f, T, h)
    PROVE  \A u \in SUBSET T : g[u] = h[u]
<1> DEFINE B == {u \in SUBSET T : g[u] # h[u]}
<1> SUFFICES ASSUME B # {} PROVE FALSE OBVIOUS
<1>1. B \in SUBSET SUBSET S /\ B # {} OBVIOUS
<1>0. \A v : v \in B <=> v \in SUBSET T /\ g[v] # h[v] OBVIOUS
<1> HIDE DEF B
<1>2. PICK u \in B : \A v \in SUBSET u : v # u => v \notin B BY <1>1, Smallest
<1>3. u # {} /\ u \in SUBSET T /\ u \in SUBSET S BY <1>0, FoldsEmpty
<1>4. First(u) \in u BY <1>3, FirstIn
<1>5. PICK v : v = u \ {First(u)} OBVIOUS
<1>6. v \in SUBSET u /\ v # u /\ v \in SUBSET T BY <1>3, <1>4, <1>5
<1>7. g[v] = h[v] BY <1>0, <1>2, <1>6
<1>8. g[u] = f[First(u)] + g[v] BY <1>3, <1>5, FoldsStep
<1>9. h[u] = f[First(u)] + h[v] BY <1>3, <1>5, FoldsStep
<1> QED BY <1>0, <1>7, <1>8, <1>9

LEMMA FoldsExist ==
    ASSUME NEW f, NEW S, IsFiniteSet(S)
    PROVE  \E g : Folds(f, S, g)
<1> DEFINE B == {u \in SUBSET S : ~(\E g : Folds(f, u, g))}
<1> SUFFICES ASSUME B # {} PROVE FALSE OBVIOUS
<1>1. B \in SUBSET SUBSET S /\ B # {} OBVIOUS
<1>0. \A v : v \in B <=> v \in SUBSET S /\ ~(\E g : Folds(f, v, g)) OBVIOUS
<1> HIDE DEF B
<1>2. PICK u \in B : \A v \in SUBSET u : v # u => v \notin B BY <1>1, Smallest
<1>3. IsFiniteSet(u) /\ u \in SUBSET S BY <1>0, FS_Subset
<1> DEFINE G(w) == CHOOSE g : Folds(f, w, g)
           Below(w) == G(w)[w]
           h == [s \in SUBSET u |-> IF s = {} THEN 0 ELSE f[First(s)] + Below(s \ {First(s)})]
<1>4. \A w \in SUBSET u : w # u => \E g : Folds(f, w, g) BY <1>0, <1>2, <1>3
<1>5. \A w \in SUBSET u : w # u => Folds(f, w, G(w)) BY <1>4
<1> HIDE DEF G
<1>6. ASSUME NEW w \in SUBSET u, w # u PROVE h[w] = Below(w)
  <2>1. Folds(f, w, G(w)) BY <1>5, <1>6
  <2>2. CASE w = {} BY <2>1, <2>2, FoldsEmpty
  <2>3. CASE w # {}
    <3>1. First(w) \in w BY <2>3, FirstIn
    <3>2. PICK v : v = w \ {First(w)} OBVIOUS
    <3>3. v \in SUBSET w /\ v \in SUBSET u /\ v # u BY <1>6, <3>1, <3>2
    <3>4. Folds(f, v, G(v)) BY <1>5, <3>3
    <3>5. IsFiniteSet(w) BY <1>3, FS_Subset
    <3>6. G(w)[v] = G(v)[v] BY <2>1, <3>3, <3>4, <3>5, FoldsAgree
    <3>7. G(w)[w] = f[First(w)] + G(w)[v] BY <2>1, <2>3, <3>2, FoldsStep
    <3>8. h[w] = f[First(w)] + Below(v) BY <2>3, <3>2
    <3> QED BY <3>6, <3>7, <3>8
  <2> QED BY <2>2, <2>3
<1>7. h = [s \in SUBSET u |-> IF s = {} THEN 0 ELSE f[First(s)] + h[s \ {First(s)}]]
  <2>1. ASSUME NEW s \in SUBSET u, s # {} PROVE h[s \ {First(s)}] = Below(s \ {First(s)})
    <3>1. First(s) \in s BY <2>1, FirstIn
    <3>2. s \ {First(s)} \in SUBSET u /\ s \ {First(s)} # u BY <3>1
    <3> QED BY <1>6, <3>2
  <2> HIDE DEF Below
  <2> QED BY <2>1
<1>8. Folds(f, u, h)
  <2> HIDE DEF h
  <2> QED BY <1>7 DEF Folds
<1> QED BY <1>0, <1>8

LEMMA TotalEmpty == ASSUME NEW f PROVE Total(f, {}) = 0
<1>1. PICK g : Folds(f, {}, g) BY FoldsExist, FS_EmptySet
<1>2. Folds(f, {}, CHOOSE h : Folds(f, {}, h)) BY <1>1
<1> QED BY <1>2, FoldsEmpty, TotalIs

LEMMA TotalStep ==
    ASSUME NEW f, NEW S, IsFiniteSet(S), S # {}
    PROVE  Total(f, S) = f[First(S)] + Total(f, S \ {First(S)})
<1> DEFINE g == CHOOSE h : Folds(f, S, h)
<1>0. PICK v : v = S \ {First(S)} OBVIOUS
<1> DEFINE k == CHOOSE h : Folds(f, v, h)
<1>1. IsFiniteSet(v) /\ v \in SUBSET S BY <1>0, FS_Subset
<1>2. Folds(f, S, g) BY FoldsExist
<1>3. Folds(f, v, k) BY <1>1, FoldsExist
<1>4. Total(f, S) = g[S] /\ Total(f, v) = k[v] BY TotalIs
<1> HIDE DEF g, k
<1>5. g[v] = k[v] BY <1>1, <1>2, <1>3, FoldsAgree
<1>6. g[S] = f[First(S)] + g[v] BY <1>0, <1>2, FoldsStep
<1> QED BY <1>0, <1>4, <1>5, <1>6

LEMMA TotalInt ==
    ASSUME NEW f, NEW S, IsFiniteSet(S), \A x \in S : f[x] \in Int
    PROVE  \A u \in SUBSET S : Total(f, u) \in Int
<1> DEFINE B == {u \in SUBSET S : Total(f, u) \notin Int}
<1> SUFFICES ASSUME B # {} PROVE FALSE OBVIOUS
<1>1. B \in SUBSET SUBSET S /\ B # {} OBVIOUS
<1>2. \A u : u \in B <=> u \in SUBSET S /\ Total(f, u) \notin Int OBVIOUS
<1> HIDE DEF B
<1>3. PICK u \in B : \A v \in SUBSET u : v # u => v \notin B BY <1>1, Smallest
<1>4. u \in SUBSET S /\ IsFiniteSet(u) BY <1>2, FS_Subset
<1>5. u # {}
  <2>1. Total(f, {}) \in Int
    <3>1. Total(f, {}) = 0 BY TotalEmpty
    <3>2. 0 \in Int OBVIOUS
    <3> QED BY <3>1, <3>2
  <2> QED BY <1>2, <2>1
<1>6. PICK x, v : x = First(u) /\ v = u \ {x} OBVIOUS
<1>7. x \in u BY <1>5, <1>6, FirstIn
<1>8. v \in SUBSET u /\ v # u /\ v \in SUBSET S BY <1>4, <1>6, <1>7
<1>9. Total(f, v) \in Int BY <1>2, <1>3, <1>8
<1>10. Total(f, u) = f[x] + Total(f, v) BY <1>4, <1>5, <1>6, TotalStep
<1>11. f[x] \in Int BY <1>4, <1>7
<1>12. Total(f, u) \in Int BY <1>9, <1>10, <1>11
<1> QED BY <1>2, <1>12

(* The sum is the same whichever element is taken first. *)
LEMMA TotalRemove ==
    ASSUME NEW f, NEW S, IsFiniteSet(S), \A x \in S : f[x] \in Int
    PROVE  \A u \in SUBSET S : \A x \in u : Total(f, u) = f[x] + Total(f, u \ {x})
<1> DEFINE Holds(u) == \A x \in u : Total(f, u) = f[x] + Total(f, u \ {x})
           B == {u \in SUBSET S : ~Holds(u)}
<1> SUFFICES ASSUME B # {} PROVE FALSE OBVIOUS
<1>1. B \in SUBSET SUBSET S /\ B # {} OBVIOUS
<1>2. \A u : u \in B <=> u \in SUBSET S /\ ~Holds(u) OBVIOUS
<1> HIDE DEF B
<1>3. PICK u \in B : \A v \in SUBSET u : v # u => v \notin B BY <1>1, Smallest
<1>4. u \in SUBSET S /\ IsFiniteSet(u) BY <1>2, FS_Subset
<1>5. PICK y \in u : Total(f, u) # f[y] + Total(f, u \ {y}) BY <1>2, <1>3
<1>6. PICK x : x = First(u) OBVIOUS
<1>7. x \in u BY <1>5, <1>6, FirstIn
<1>8. PICK v : v = u \ {x} OBVIOUS
<1>9. Total(f, u) = f[x] + Total(f, v) BY <1>4, <1>5, <1>6, <1>8, TotalStep
<1>10. x # y BY <1>5, <1>8, <1>9
<1>11. PICK w, k : w = u \ {y} /\ k = u \ {x, y} OBVIOUS
<1>12. /\ v \in SUBSET u /\ v # u /\ v \in SUBSET S /\ y \in v /\ k = v \ {y}
       /\ w \in SUBSET u /\ w # u /\ w \in SUBSET S /\ x \in w /\ k = w \ {x}
       /\ k \in SUBSET S
  BY <1>4, <1>5, <1>7, <1>8, <1>10, <1>11
<1>13. Holds(v) /\ Holds(w) BY <1>2, <1>3, <1>12
<1>14. Total(f, v) = f[y] + Total(f, k) /\ Total(f, w) = f[x] + Total(f, k)
  BY <1>12, <1>13
<1>15. /\ Total(f, v) \in Int /\ Total(f, w) \in Int /\ Total(f, k) \in Int
       /\ f[x] \in Int /\ f[y] \in Int
  BY <1>4, <1>5, <1>7, <1>12, TotalInt
<1>16. \A a, b, c \in Int : a + (b + c) = b + (a + c) OBVIOUS
<1>17. Total(f, u) = f[y] + Total(f, w) BY <1>9, <1>14, <1>15, <1>16
<1> QED BY <1>5, <1>11, <1>17

LEMMA TotalAdd ==
    ASSUME NEW f, NEW S, IsFiniteSet(S), \A x \in S : f[x] \in Int, NEW x \in S
    PROVE  Total(f, S) = f[x] + Total(f, S \ {x})
BY TotalRemove

LEMMA TotalSame ==
    ASSUME NEW f, NEW g, NEW S, IsFiniteSet(S), \A x \in S : f[x] = g[x]
    PROVE  Total(f, S) = Total(g, S)
<1> DEFINE B == {u \in SUBSET S : Total(f, u) # Total(g, u)}
<1> SUFFICES ASSUME B # {} PROVE FALSE OBVIOUS
<1>1. B \in SUBSET SUBSET S /\ B # {} OBVIOUS
<1>2. \A u : u \in B <=> u \in SUBSET S /\ Total(f, u) # Total(g, u) OBVIOUS
<1> HIDE DEF B
<1>3. PICK u \in B : \A v \in SUBSET u : v # u => v \notin B BY <1>1, Smallest
<1>4. u \in SUBSET S /\ IsFiniteSet(u) BY <1>2, FS_Subset
<1>5. u # {} BY <1>2, TotalEmpty
<1>6. PICK x, v : x = First(u) /\ v = u \ {x} OBVIOUS
<1>7. x \in u BY <1>5, <1>6, FirstIn
<1>8. v \in SUBSET u /\ v # u /\ v \in SUBSET S BY <1>4, <1>6, <1>7
<1>9. Total(f, v) = Total(g, v) BY <1>2, <1>3, <1>8
<1>10. Total(f, u) = f[x] + Total(f, v) BY <1>4, <1>5, <1>6, TotalStep
<1>11. Total(g, u) = g[x] + Total(g, v) BY <1>4, <1>5, <1>6, TotalStep
<1>12. f[x] = g[x] BY <1>4, <1>7
<1> QED BY <1>2, <1>9, <1>10, <1>11, <1>12

LEMMA TotalBetween ==
    ASSUME NEW f, NEW S, IsFiniteSet(S), NEW K \in Nat, \A x \in S : f[x] \in 0..K
    PROVE  Total(f, S) \in Nat /\ Total(f, S) <= K * Cardinality(S)
<1> DEFINE Holds(u) == Total(f, u) \in Nat /\ Total(f, u) <= K * Cardinality(u)
           B == {u \in SUBSET S : ~Holds(u)}
<1> SUFFICES ASSUME B # {} PROVE FALSE
  <2>1. Holds(S) => Total(f, S) \in Nat /\ Total(f, S) <= K * Cardinality(S) OBVIOUS
  <2> QED BY <2>1
<1>1. B \in SUBSET SUBSET S /\ B # {} OBVIOUS
<1>2. \A u : u \in B <=> u \in SUBSET S /\ ~Holds(u) OBVIOUS
<1> HIDE DEF B
<1>3. PICK u \in B : \A v \in SUBSET u : v # u => v \notin B BY <1>1, Smallest
<1>4. u \in SUBSET S /\ IsFiniteSet(u) BY <1>2, FS_Subset
<1>5. u # {}
  <2>1. Holds({}) BY TotalEmpty, FS_EmptySet
  <2> QED BY <1>2, <2>1
<1>6. PICK x, v : x = First(u) /\ v = u \ {x} OBVIOUS
<1>7. x \in u BY <1>5, <1>6, FirstIn
<1>8. v \in SUBSET u /\ v # u /\ v \in SUBSET S BY <1>4, <1>6, <1>7
<1>9. Holds(v) BY <1>2, <1>3, <1>8
<1>10. Total(f, u) = f[x] + Total(f, v) BY <1>4, <1>5, <1>6, TotalStep
<1>11. f[x] \in 0..K BY <1>4, <1>7
<1>12. Cardinality(v) = Cardinality(u) - 1 /\ Cardinality(u) \in Nat /\ Cardinality(v) \in Nat
  BY <1>4, <1>6, <1>7, <1>8, FS_RemoveElement, FS_Subset, FS_CardinalityType
<1>13. \A a, b, t, k, m \in Nat : a <= k /\ t <= k * m => a + t <= k * (m + 1) OBVIOUS
<1>14. Cardinality(u) = Cardinality(v) + 1 BY <1>12
<1>15. f[x] + Total(f, v) <= K * (Cardinality(v) + 1) BY <1>9, <1>11, <1>12, <1>13
<1>16. Holds(u) BY <1>9, <1>10, <1>11, <1>14, <1>15
<1> QED BY <1>2, <1>16

(* Every element is counted once, in the fibre of its index. *)
Fibre(R, h, i) == {r \in R : h[r] = i}

LEMMA Fibres ==
    ASSUME NEW R, IsFiniteSet(R), NEW h, NEW I, IsFiniteSet(I), \A r \in R : h[r] \in I,
           NEW n, \A i \in I : n[i] = Cardinality(Fibre(R, h, i))
    PROVE  Total(n, I) = Cardinality(R)
<1> DEFINE Upon(u) == {r \in R : h[r] \in u}
           One(i) == Fibre(R, h, i)
           B == {u \in SUBSET I : Total(n, u) # Cardinality(Upon(u))}
<1> SUFFICES ASSUME B # {} PROVE FALSE
  <2>1. I \notin B => Total(n, I) = Cardinality(Upon(I)) OBVIOUS
  <2>2. Upon(I) = R OBVIOUS
  <2> QED BY <2>1, <2>2
<1>1. B \in SUBSET SUBSET I /\ B # {} OBVIOUS
<1>2. \A u : u \in B <=> u \in SUBSET I /\ Total(n, u) # Cardinality(Upon(u)) OBVIOUS
<1> HIDE DEF B
<1>3. PICK u \in B : \A v \in SUBSET u : v # u => v \notin B BY <1>1, Smallest
<1>4. u \in SUBSET I /\ IsFiniteSet(u) BY <1>2, FS_Subset
<1>5. u # {}
  <2>1. Upon({}) = {} OBVIOUS
  <2>2. Total(n, {}) = Cardinality(Upon({})) BY <2>1, TotalEmpty, FS_EmptySet
  <2> QED BY <1>2, <2>2
<1>6. PICK x, v : x = First(u) /\ v = u \ {x} OBVIOUS
<1>7. x \in u BY <1>5, <1>6, FirstIn
<1>8. v \in SUBSET u /\ v # u /\ v \in SUBSET I BY <1>4, <1>6, <1>7
<1>9. Total(n, v) = Cardinality(Upon(v)) BY <1>2, <1>3, <1>8
<1>10. Total(n, u) = n[x] + Total(n, v) BY <1>4, <1>5, <1>6, TotalStep
<1>11. n[x] = Cardinality(One(x)) BY <1>4, <1>7
<1>12. Upon(u) = One(x) \cup Upon(v) /\ One(x) \cap Upon(v) = {} BY <1>6, <1>7 DEF Fibre
<1>13. IsFiniteSet(One(x)) /\ IsFiniteSet(Upon(v)) BY FS_Subset DEF Fibre
<1> HIDE DEF Upon, One
<1>14. Cardinality(One(x)) \in Nat /\ Cardinality(Upon(v)) \in Nat BY <1>13, FS_CardinalityType
<1>15. Cardinality(Upon(u)) =
         Cardinality(One(x)) + Cardinality(Upon(v)) - Cardinality(One(x) \cap Upon(v))
  BY <1>12, <1>13, FS_Union
<1>16. Cardinality(One(x) \cap Upon(v)) = 0 BY <1>12, FS_EmptySet
<1>17. \A a, b \in Nat : a + b - 0 = a + b OBVIOUS
<1>18. Cardinality(Upon(u)) = Cardinality(One(x)) + Cardinality(Upon(v)) - 0 BY <1>15, <1>16
<1>19. Cardinality(Upon(u)) = Cardinality(One(x)) + Cardinality(Upon(v)) BY <1>14, <1>17, <1>18
<1> QED BY <1>2, <1>9, <1>10, <1>11, <1>19

LEMMA SumIs ==
    ASSUME NEW f, NEW S, IsFiniteSet(S), NEW k, Folds(f, S, k)
    PROVE  k[S] = Total(f, S)
<1> DEFINE g == CHOOSE h : Folds(f, S, h)
<1>1. Folds(f, S, g) OBVIOUS
<1>2. Total(f, S) = g[S] BY TotalIs
<1> HIDE DEF g
<1>3. S \in SUBSET S OBVIOUS
<1> QED BY <1>1, <1>2, <1>3, FoldsAgree

-----------------------------------------------------------------------------
(* The invariant *)

ScoreSet == {ScoreOf(t, seen) : t \in Targets, seen \in SUBSET Prints} \cup {0}

ScanRows == [status : {"completed", "failed"}, score : ScoreSet, created : Nat, completed : Nat]

FixStates == FixStatus \cup {"none"}

Typed ==
    /\ scan \in [Targets -> Seq(ScanRows)]
    /\ run \in [Targets -> SUBSET Nat]
    /\ unsettled \in [Targets -> SUBSET SUBSET Prints]
    /\ finding \in [Targets -> [Prints -> Finding]]
    /\ fix \in [Targets -> FixStates]
    /\ clock \in Nat

(* A finding is linked to a fix there is. *)
LinkedToFix == \A t \in Targets, p \in Prints : finding[t][p].linked = TRUE => fix[t] # "none"

Newest(t, k) ==
    \A j \in Completed(t) \ {k} : /\ scan[t][j].created < scan[t][k].created
                                  /\ scan[t][j].completed < scan[t][k].completed

SeenBy(t, k) == {p \in Prints : finding[t][p].scan = k}

(* One scan of a target after the other: the last to complete is the latest *)
(* by either order, and its findings are those it is scored by.             *)
Ordered(t) ==
    /\ \A i \in DOMAIN scan[t] :
         /\ scan[t][i].created < clock /\ scan[t][i].completed < clock
         /\ \A r \in run[t] : scan[t][i].created < r
    /\ run[t] = {} \/ (unsettled[t] = {} /\ \E r \in run[t] : run[t] = {r} /\ r < clock)
    /\ \A p \in Prints : finding[t][p].scan <= Len(scan[t])
    /\ Completed(t) # {} =>
         \E k \in Completed(t) : Newest(t, k) /\ scan[t][k].score = ScoreOf(t, SeenBy(t, k))

Inv == Typed /\ LinkedToFix /\ (\A t \in Targets \ Slow : Ordered(t))

-----------------------------------------------------------------------------
(* Findings: what an action writes to a row *)

LEMMA FindingFields ==
    ASSUME NEW f \in Finding
    PROVE  /\ f.scan \in Nat /\ f.resolved \in BOOLEAN /\ f.muted \in BOOLEAN
           /\ f.linked \in BOOLEAN
BY DEF Finding

(* Another row of the same scan, linked to no more than before. *)
SameScan(f, g) == g \in Finding /\ g.scan = f.scan /\ (g.linked = TRUE => f.linked = TRUE)

LEMMA WithStatus ==
    ASSUME NEW f \in Finding, NEW s \in {"open", "fix_in_progress", "resolved", "ignored"}
    PROVE  SameScan(f, [f EXCEPT !.status = s])
BY DEF Finding, SameScan

LEMMA DerivedSame ==
    ASSUME NEW t, NEW f \in Finding
    PROVE  SameScan(f, Derived(t, f))
<1>1. SameScan(f, f) BY DEF SameScan
<1>2. Derived(t, f) = f \/ \E s \in {"open", "fix_in_progress", "resolved", "ignored"} :
                              Derived(t, f) = [f EXCEPT !.status = s]
  BY DEF Derived
<1> QED BY <1>1, <1>2, WithStatus

LEMMA SameChain ==
    ASSUME NEW f, NEW g, NEW h, SameScan(f, g), SameScan(g, h)
    PROVE  SameScan(f, h)
BY DEF SameScan

LEMMA Upsert ==
    ASSUME NEW f \in Finding, NEW n \in Nat
    PROVE  LET g == [f EXCEPT !.scan = n, !.resolved = FALSE]
           IN  g \in Finding /\ g.scan = n /\ g.linked = f.linked
BY DEF Finding

LEMMA Resolve ==
    ASSUME NEW f \in Finding
    PROVE  SameScan(f, Settled(f))
<1> DEFINE s == IF f.status \in {"open", "fix_in_progress"} THEN "resolved" ELSE f.status
           g == [f EXCEPT !.resolved = TRUE, !.status = s]
<1>1. s \in {"open", "fix_in_progress", "resolved", "ignored"} BY DEF Finding
<1>2. Settled(f) = g BY DEF Settled
<1> HIDE DEF s
<1>3. SameScan(f, g) BY <1>1 DEF Finding, SameScan
<1> QED BY <1>2, <1>3

LEMMA ResolveOnly ==
    ASSUME NEW f \in Finding
    PROVE  SameScan(f, [f EXCEPT !.resolved = TRUE])
BY DEF Finding, SameScan

LEMMA Muting ==
    ASSUME NEW f \in Finding
    PROVE  SameScan(f, Toggled(f))
<1> DEFINE b == ~f.muted
           g == [f EXCEPT !.muted = b]
<1>1. b \in BOOLEAN OBVIOUS
<1>2. Toggled(f) = g BY DEF Toggled
<1> HIDE DEF b
<1>3. SameScan(f, g) BY <1>1 DEF Finding, SameScan
<1> QED BY <1>2, <1>3

LEMMA Linking ==
    ASSUME NEW t, NEW f \in Finding, NEW selected \in BOOLEAN
    PROVE  LET g == Relinked(t, f, selected) IN g \in Finding /\ g.scan = f.scan
<1> DEFINE b == selected \/ (f.linked /\ EngineOf[t] # "workflow")
           g == [f EXCEPT !.linked = b]
<1>1. b \in BOOLEAN OBVIOUS
<1>2. Relinked(t, f, selected) = g BY DEF Relinked
<1> HIDE DEF b
<1>3. g \in Finding /\ g.scan = f.scan BY <1>1 DEF Finding
<1> HIDE DEF g
<1> QED BY <1>2, <1>3

-----------------------------------------------------------------------------
(* Which scan is the latest *)

LEMMA RowFacts ==
    ASSUME Typed, NEW t \in Targets
    PROVE  /\ scan[t] \in Seq(ScanRows) /\ Len(scan[t]) \in Nat
           /\ DOMAIN scan[t] = 1..Len(scan[t])
           /\ \A i \in DOMAIN scan[t] : /\ scan[t][i] \in ScanRows
                                        /\ scan[t][i].created \in Nat
                                        /\ scan[t][i].completed \in Nat
<1>1. scan[t] \in Seq(ScanRows) BY DEF Typed
<1>2. Len(scan[t]) \in Nat /\ DOMAIN scan[t] = 1..Len(scan[t]) BY <1>1, LenProperties
<1>3. \A i \in 1..Len(scan[t]) : scan[t][i] \in ScanRows BY <1>1, ElementOfSeq
<1> QED BY <1>1, <1>2, <1>3 DEF ScanRows

LEMMA NewestIsLatest ==
    ASSUME Typed, NEW t \in Targets, NEW k \in Completed(t), Newest(t, k), NEW b \in BOOLEAN
    PROVE  LatestScan(t, Completed(t), b) = k
<1> DEFINE Leads(i) ==
        \A j \in Completed(t) \ {i} :
            IF b /\ scan[t][i].completed # scan[t][j].completed
            THEN scan[t][i].completed > scan[t][j].completed
            ELSE scan[t][i].created > scan[t][j].created
<1>1. \A i \in Completed(t) : scan[t][i].created \in Nat /\ scan[t][i].completed \in Nat
  BY RowFacts DEF Completed
<1>2. Leads(k) BY <1>1 DEF Newest
<1>3. \A i \in Completed(t) : Leads(i) => i = k
  <2> SUFFICES ASSUME NEW i \in Completed(t), Leads(i), i # k PROVE FALSE OBVIOUS
  <2>1. /\ scan[t][i].created < scan[t][k].created
        /\ scan[t][i].completed < scan[t][k].completed
    BY DEF Newest
  <2>2. IF b /\ scan[t][i].completed # scan[t][k].completed
        THEN scan[t][i].completed > scan[t][k].completed
        ELSE scan[t][i].created > scan[t][k].created
    OBVIOUS
  <2> QED BY <1>1, <2>1, <2>2
<1>4. LatestScan(t, Completed(t), b) = CHOOSE i \in Completed(t) : Leads(i)
  BY DEF LatestScan, LatestOf
<1> HIDE DEF Leads
<1> QED BY <1>2, <1>3, <1>4

(* The grade shown and the findings shown are those of one scan. *)
LEMMA OrderedIsExplained ==
    ASSUME Typed, NEW t \in Targets, Ordered(t), Completed(t) # {}
    PROVE  TargetScore(t) = <<ScoreOf(t, {p \in Prints : Exists(t, p) /\ LatestOnly(t, p)})>>
<1>1. PICK k \in Completed(t) : Newest(t, k) /\ scan[t][k].score = ScoreOf(t, SeenBy(t, k))
  BY DEF Ordered
<1>2. \A b \in BOOLEAN : LatestScan(t, Completed(t), b) = k BY <1>1, NewestIsLatest
<1>3. k \in 1..Len(scan[t]) /\ k # 0 BY RowFacts DEF Completed
<1>4. ByCompletion(EngineOf[t]) \in BOOLEAN BY DEF ByCompletion
<1>5. {p \in Prints : Exists(t, p) /\ LatestOnly(t, p)} = SeenBy(t, k)
  BY <1>2, <1>3, <1>4 DEF Exists, LatestOnly, SeenBy
<1>6. TargetScore(t) = <<scan[t][k].score>>
  BY <1>2 DEF TargetScore, LatestCompletedScan
<1> QED BY <1>1, <1>5, <1>6

-----------------------------------------------------------------------------
(* Steps *)

(* A step after which the target's scans tell what they told. *)
LEMMA StaysOrdered ==
    ASSUME Typed, NEW t \in Targets, Ordered(t), clock' \in Nat, clock <= clock',
           scan'[t] = scan[t], run'[t] = run[t],
           unsettled[t] = {} => unsettled'[t] = {},
           \A p \in Prints : finding'[t][p].scan = finding[t][p].scan
    PROVE  Ordered(t)'
<1>0. clock \in Nat /\ run[t] \subseteq Nat BY DEF Typed
<1>1. \A i \in DOMAIN scan'[t] :
         /\ scan'[t][i].created < clock' /\ scan'[t][i].completed < clock'
         /\ \A r \in run'[t] : scan'[t][i].created < r
  BY <1>0, RowFacts DEF Ordered
<1>2. run'[t] = {} \/ (unsettled'[t] = {} /\ \E r \in run'[t] : run'[t] = {r} /\ r < clock')
  BY <1>0 DEF Ordered
<1>3. \A p \in Prints : finding'[t][p].scan <= Len(scan'[t]) BY DEF Ordered
<1>4. Completed(t)' = Completed(t) BY DEF Completed
<1>5. \A k : SeenBy(t, k)' = SeenBy(t, k) BY DEF SeenBy
<1>6. \A k : Newest(t, k) => Newest(t, k)' BY <1>4 DEF Newest
<1>7. \A k : (scan[t][k].score = ScoreOf(t, SeenBy(t, k))) =>
             (scan'[t][k].score = ScoreOf(t, SeenBy(t, k)'))
  BY <1>5
<1>8. Completed(t)' # {} => \E k \in Completed(t)' :
         Newest(t, k)' /\ scan'[t][k].score = ScoreOf(t, SeenBy(t, k)')
  BY <1>4, <1>6, <1>7 DEF Ordered
<1> QED BY <1>1, <1>2, <1>3, <1>8 DEF Ordered

LEMMA BeginOrdered ==
    ASSUME Typed, NEW t \in Targets, t \notin Slow, Ordered(t), BeginScan(t)
    PROVE  Ordered(t)'
<1>1. /\ run[t] = {} /\ unsettled[t] = {} /\ clock' = clock + 1
      /\ scan' = scan /\ unsettled' = unsettled /\ finding' = finding
      /\ run' = [run EXCEPT ![t] = @ \cup {clock}]
  BY DEF BeginScan
<1>2. clock \in Nat /\ run'[t] = {clock} BY <1>1 DEF Typed
<1>3. \A i \in DOMAIN scan'[t] :
         /\ scan'[t][i].created < clock' /\ scan'[t][i].completed < clock'
         /\ \A r \in run'[t] : scan'[t][i].created < r
  BY <1>1, <1>2, RowFacts DEF Ordered
<1>4. unsettled'[t] = {} /\ clock < clock' BY <1>1, <1>2
<1>5. Completed(t)' = Completed(t) /\ (\A k : SeenBy(t, k)' = SeenBy(t, k))
      /\ (\A k : Newest(t, k)' = Newest(t, k))
  BY <1>1 DEF Completed, SeenBy, Newest
<1>6. \A p \in Prints : finding'[t][p].scan <= Len(scan'[t]) BY <1>1 DEF Ordered
<1>7. Completed(t)' # {} => \E k \in Completed(t)' :
         Newest(t, k)' /\ scan'[t][k].score = ScoreOf(t, SeenBy(t, k)')
  BY <1>1, <1>5 DEF Ordered
<1> QED BY <1>2, <1>3, <1>4, <1>6, <1>7 DEF Ordered

LEMMA AppendedRow ==
    ASSUME Typed, NEW t \in Targets, NEW row \in ScanRows,
           scan' = [scan EXCEPT ![t] = Append(@, row)]
    PROVE  /\ scan' \in [Targets -> Seq(ScanRows)]
           /\ Len(scan'[t]) = Len(scan[t]) + 1
           /\ DOMAIN scan'[t] = DOMAIN scan[t] \cup {Len(scan[t]) + 1}
           /\ Len(scan[t]) + 1 \notin DOMAIN scan[t]
           /\ \A i \in DOMAIN scan[t] : scan'[t][i] = scan[t][i]
           /\ scan'[t][Len(scan[t]) + 1] = row
           /\ \A u \in Targets \ {t} : scan'[u] = scan[u]
<1>1. scan[t] \in Seq(ScanRows) /\ Len(scan[t]) \in Nat /\ DOMAIN scan[t] = 1..Len(scan[t])
  BY RowFacts
<1>2. /\ Append(scan[t], row) \in Seq(ScanRows)
      /\ Len(Append(scan[t], row)) = Len(scan[t]) + 1
      /\ \A i \in 1..Len(scan[t]) : Append(scan[t], row)[i] = scan[t][i]
      /\ Append(scan[t], row)[Len(scan[t]) + 1] = row
  BY <1>1, AppendProperties
<1>3. scan \in [Targets -> Seq(ScanRows)] BY DEF Typed
<1>4. /\ scan'[t] = Append(scan[t], row) /\ scan' \in [Targets -> Seq(ScanRows)]
      /\ \A u \in Targets \ {t} : scan'[u] = scan[u]
  BY <1>2, <1>3
<1>5. DOMAIN scan'[t] = 1..Len(scan'[t]) BY <1>2, <1>4, LenProperties
<1>6. 1..Len(scan[t]) + 1 = 1..Len(scan[t]) \cup {Len(scan[t]) + 1}
  <2>1. \A n \in Nat : 1..n + 1 = 1..n \cup {n + 1} OBVIOUS
  <2> QED BY <1>1, <2>1
<1>7. Len(scan[t]) + 1 \notin 1..Len(scan[t]) BY <1>1
<1> QED BY <1>1, <1>2, <1>4, <1>5, <1>6, <1>7

LEMMA RowOfTarget ==
    ASSUME Typed, NEW t \in Targets, NEW row \in [Prints -> Finding],
           finding' = [finding EXCEPT ![t] = row]
    PROVE  /\ finding' \in [Targets -> [Prints -> Finding]] /\ finding'[t] = row
           /\ \A u \in Targets \ {t} : finding'[u] = finding[u]
BY DEF Typed

(* The rows a completed scan leaves. *)
Upserted(t, seen, p) ==
    IF p \in seen
    THEN Derived(t, [finding[t][p] EXCEPT !.scan = Len(scan[t]) + 1, !.resolved = FALSE])
    ELSE finding[t][p]

LEMMA UpsertedRow ==
    ASSUME Typed, NEW t \in Targets, NEW seen, NEW p \in Prints
    PROVE  /\ Upserted(t, seen, p) \in Finding
           /\ p \in seen => Upserted(t, seen, p).scan = Len(scan[t]) + 1
           /\ p \notin seen => Upserted(t, seen, p).scan = finding[t][p].scan
           /\ Upserted(t, seen, p).linked = TRUE => finding[t][p].linked = TRUE
<1>1. finding[t][p] \in Finding /\ Len(scan[t]) + 1 \in Nat BY RowFacts DEF Typed
<1> DEFINE g == [finding[t][p] EXCEPT !.scan = Len(scan[t]) + 1, !.resolved = FALSE]
<1>2. g \in Finding /\ g.scan = Len(scan[t]) + 1 /\ g.linked = finding[t][p].linked
  BY <1>1, Upsert
<1>3. Upserted(t, seen, p) = IF p \in seen THEN Derived(t, g) ELSE finding[t][p]
  BY DEF Upserted
<1> HIDE DEF g
<1>4. SameScan(g, Derived(t, g)) BY <1>2, DerivedSame
<1>5. CASE p \in seen BY <1>2, <1>3, <1>4, <1>5 DEF SameScan
<1>6. CASE p \notin seen BY <1>1, <1>3, <1>6
<1> QED BY <1>5, <1>6

LEMMA CompleteTyped ==
    ASSUME Typed, NEW t \in Targets, NEW r \in run[t], NEW seen \in SUBSET Prints,
           Over(t, r, [status |-> "completed", score |-> ScoreOf(t, seen),
                       created |-> r, completed |-> clock]),
           finding' = [finding EXCEPT ![t] = [p \in Prints |-> Upserted(t, seen, p)]],
           unsettled' = [unsettled EXCEPT ![t] = @ \cup {seen}], fix' = fix
    PROVE  Typed'
<1> DEFINE row == [status |-> "completed", score |-> ScoreOf(t, seen),
                   created |-> r, completed |-> clock]
<1>1. row \in ScanRows
  <2>1. ScoreOf(t, seen) \in ScoreSet BY DEF ScoreSet
  <2>2. r \in Nat /\ clock \in Nat BY DEF Typed
  <2> HIDE DEF ScoreSet
  <2> QED BY <2>1, <2>2 DEF ScanRows
<1>2. scan' = [scan EXCEPT ![t] = Append(@, row)] BY DEF Over
<1> HIDE DEF row
<1>3. scan' \in [Targets -> Seq(ScanRows)] BY <1>1, <1>2, AppendedRow
<1>4. [p \in Prints |-> Upserted(t, seen, p)] \in [Prints -> Finding] BY UpsertedRow
<1>5. finding' \in [Targets -> [Prints -> Finding]] BY <1>4, RowOfTarget
<1>6. /\ run' \in [Targets -> SUBSET Nat] /\ clock' \in Nat
      /\ unsettled' \in [Targets -> SUBSET SUBSET Prints]
  BY DEF Over, Typed
<1> QED BY <1>3, <1>5, <1>6 DEF Typed

LEMMA CompleteOrdered ==
    ASSUME Typed, NEW t \in Targets, Ordered(t),
           NEW r \in run[t], NEW seen \in SUBSET Prints,
           Over(t, r, [status |-> "completed", score |-> ScoreOf(t, seen),
                       created |-> r, completed |-> clock]),
           finding' = [finding EXCEPT ![t] = [p \in Prints |-> Upserted(t, seen, p)]]
    PROVE  Ordered(t)'
<1> DEFINE row == [status |-> "completed", score |-> ScoreOf(t, seen),
                   created |-> r, completed |-> clock]
<1>0. PICK n : n = Len(scan[t]) + 1 OBVIOUS
<1>1. row \in ScanRows
  <2>1. ScoreOf(t, seen) \in ScoreSet BY DEF ScoreSet
  <2>2. r \in Nat /\ clock \in Nat BY DEF Typed
  <2> HIDE DEF ScoreSet
  <2> QED BY <2>1, <2>2 DEF ScanRows
<1>2. /\ row.status = "completed" /\ row.score = ScoreOf(t, seen)
      /\ row.created = r /\ row.completed = clock
  OBVIOUS
<1>3. scan' = [scan EXCEPT ![t] = Append(@, row)] BY DEF Over
<1> HIDE DEF row
<1>4. /\ Len(scan'[t]) = n /\ DOMAIN scan'[t] = DOMAIN scan[t] \cup {n}
      /\ n \notin DOMAIN scan[t]
      /\ \A i \in DOMAIN scan[t] : scan'[t][i] = scan[t][i]
      /\ scan'[t][n] = row
  BY <1>0, <1>1, <1>3, AppendedRow
<1>5. Len(scan[t]) \in Nat /\ n \in Nat /\ Len(scan[t]) < n BY <1>0, RowFacts
<1>6. run[t] = {r} /\ r < clock /\ r \in Nat /\ clock \in Nat BY DEF Ordered, Typed
<1>7. run'[t] = {} /\ clock' = clock + 1 BY <1>6 DEF Over, Typed
<1>8. \A i \in DOMAIN scan'[t] : scan'[t][i].created < clock' /\ scan'[t][i].completed < clock'
  <2>1. \A i \in DOMAIN scan[t] : /\ scan[t][i].created \in Nat /\ scan[t][i].completed \in Nat
                                  /\ scan[t][i].created < clock /\ scan[t][i].completed < clock
    BY RowFacts DEF Ordered
  <2> QED BY <1>2, <1>4, <1>6, <1>7, <2>1
<1>9. \A p \in Prints : finding'[t][p].scan = IF p \in seen THEN n ELSE finding[t][p].scan
  <2>1. [p \in Prints |-> Upserted(t, seen, p)] \in [Prints -> Finding] BY UpsertedRow
  <2>2. finding'[t] = [p \in Prints |-> Upserted(t, seen, p)] BY <2>1, RowOfTarget
  <2> SUFFICES ASSUME NEW p \in Prints
               PROVE  finding'[t][p].scan = IF p \in seen THEN n ELSE finding[t][p].scan
    OBVIOUS
  <2>3. finding'[t][p] = Upserted(t, seen, p) BY <2>2
  <2>4. /\ p \in seen => Upserted(t, seen, p).scan = Len(scan[t]) + 1
        /\ p \notin seen => Upserted(t, seen, p).scan = finding[t][p].scan
    BY UpsertedRow
  <2> QED BY <1>0, <2>3, <2>4
<1>10. \A p \in Prints : finding[t][p].scan \in Nat /\ finding[t][p].scan <= Len(scan[t])
  BY FindingFields DEF Ordered, Typed
<1>11. \A p \in Prints : finding'[t][p].scan <= Len(scan'[t]) BY <1>4, <1>5, <1>9, <1>10
<1>12. Completed(t)' = Completed(t) \cup {n} /\ n \in Completed(t)'
  BY <1>2, <1>4 DEF Completed
<1>13. SeenBy(t, n)' = seen BY <1>5, <1>9, <1>10 DEF SeenBy
<1>14. Newest(t, n)'
  <2>1. \A j \in Completed(t) : j \in DOMAIN scan[t] /\ scan'[t][j] = scan[t][j]
    BY <1>4 DEF Completed
  <2>2. \A j \in Completed(t) : scan[t][j].created < r /\ scan[t][j].completed < clock
    BY <2>1 DEF Ordered
  <2> QED BY <1>2, <1>4, <1>12, <2>1, <2>2 DEF Newest
<1>15. scan'[t][n].score = ScoreOf(t, SeenBy(t, n)') BY <1>2, <1>4, <1>13
<1>16. \E k \in Completed(t)' : Newest(t, k)' /\ scan'[t][k].score = ScoreOf(t, SeenBy(t, k)')
  BY <1>12, <1>14, <1>15
<1> QED BY <1>7, <1>8, <1>11, <1>16 DEF Ordered

FailedRow(r) == [status |-> "failed", score |-> 0, created |-> r, completed |-> clock]

LEMMA FailedRowTyped ==
    ASSUME Typed, NEW t \in Targets, NEW r \in run[t]
    PROVE  /\ FailedRow(r) \in ScanRows /\ FailedRow(r).status = "failed"
           /\ FailedRow(r).created = r /\ FailedRow(r).completed = clock
<1>1. 0 \in ScoreSet BY DEF ScoreSet
<1>2. r \in Nat /\ clock \in Nat BY DEF Typed
<1> QED BY <1>1, <1>2 DEF FailedRow, ScanRows

LEMMA FailOrdered ==
    ASSUME Typed, NEW t \in Targets, Ordered(t), NEW r \in run[t],
           Over(t, r, FailedRow(r)), finding' = finding
    PROVE  Ordered(t)'
<1> DEFINE row == FailedRow(r)
           n == Len(scan[t]) + 1
<1>1. row \in ScanRows /\ row.status = "failed" /\ row.created = r /\ row.completed = clock
  BY FailedRowTyped
<1>2. scan' = [scan EXCEPT ![t] = Append(@, row)] BY DEF Over
<1> HIDE DEF row
<1>3. /\ Len(scan'[t]) = n /\ DOMAIN scan'[t] = DOMAIN scan[t] \cup {n}
      /\ n \notin DOMAIN scan[t]
      /\ \A i \in DOMAIN scan[t] : scan'[t][i] = scan[t][i]
      /\ scan'[t][n] = row
  BY <1>1, <1>2, AppendedRow
<1>4. Len(scan[t]) \in Nat /\ n \in Nat /\ Len(scan[t]) < n BY RowFacts
<1> HIDE DEF n
<1>5. run[t] = {r} /\ r < clock /\ r \in Nat /\ clock \in Nat BY DEF Ordered, Typed
<1>6. run'[t] = {} /\ clock' = clock + 1 BY <1>5 DEF Over, Typed
<1>7. \A i \in DOMAIN scan'[t] : scan'[t][i].created < clock' /\ scan'[t][i].completed < clock'
  <2>1. \A i \in DOMAIN scan[t] : /\ scan[t][i].created \in Nat /\ scan[t][i].completed \in Nat
                                  /\ scan[t][i].created < clock /\ scan[t][i].completed < clock
    BY RowFacts DEF Ordered
  <2> QED BY <1>1, <1>3, <1>5, <1>6, <2>1
<1>8. \A p \in Prints : finding[t][p].scan \in Nat /\ finding[t][p].scan <= Len(scan[t])
  BY FindingFields DEF Ordered, Typed
<1>9. \A p \in Prints : finding'[t][p].scan <= Len(scan'[t]) BY <1>3, <1>4, <1>8
<1>10. Completed(t)' = Completed(t) BY <1>1, <1>3 DEF Completed
<1>11. \A k \in Completed(t) : scan'[t][k] = scan[t][k] BY <1>3 DEF Completed
<1>12. \A k : SeenBy(t, k)' = SeenBy(t, k) BY DEF SeenBy
<1>13. \A k \in Completed(t) : Newest(t, k) => Newest(t, k)' BY <1>10, <1>11 DEF Newest
<1>14. Completed(t)' # {} => \E k \in Completed(t)' :
         Newest(t, k)' /\ scan'[t][k].score = ScoreOf(t, SeenBy(t, k)')
  BY <1>10, <1>11, <1>12, <1>13 DEF Ordered
<1> QED BY <1>6, <1>7, <1>9, <1>14 DEF Ordered

LEMMA CrashOrdered ==
    ASSUME Typed, NEW t \in Targets, Ordered(t), Crash(t)
    PROVE  Ordered(t)'
<1>1. /\ run'[t] = {} /\ unsettled'[t] = {}
      /\ scan' = scan /\ finding' = finding /\ clock' = clock
  BY DEF Crash, Typed
<1>2. /\ Completed(t)' = Completed(t) /\ (\A k : SeenBy(t, k)' = SeenBy(t, k))
      /\ (\A k : Newest(t, k)' = Newest(t, k))
  BY <1>1 DEF Completed, SeenBy, Newest
<1>3. \A i \in DOMAIN scan'[t] : scan'[t][i].created < clock' /\ scan'[t][i].completed < clock'
  BY <1>1 DEF Ordered
<1>4. Completed(t)' # {} => \E k \in Completed(t)' :
         Newest(t, k)' /\ scan'[t][k].score = ScoreOf(t, SeenBy(t, k)')
  BY <1>1, <1>2 DEF Ordered
<1>5. \A p \in Prints : finding'[t][p].scan <= Len(scan'[t]) BY <1>1 DEF Ordered
<1> QED BY <1>1, <1>3, <1>4, <1>5 DEF Ordered

(* The rows of findings after a step are those of before, of the same scans. *)
ScansKept ==
    /\ finding' \in [Targets -> [Prints -> Finding]]
    /\ \A u \in Targets, p \in Prints : finding'[u][p].scan = finding[u][p].scan

LinksKept ==
    \A u \in Targets, p \in Prints : finding'[u][p].linked = TRUE => finding[u][p].linked = TRUE

LEMMA RowsSame == ASSUME Typed, finding' = finding PROVE ScansKept /\ LinksKept
BY DEF Typed, ScansKept, LinksKept

LEMMA RowsChange ==
    ASSUME Typed, NEW t \in Targets, NEW row,
           finding' = [finding EXCEPT ![t] = [p \in Prints |-> row[p]]],
           \A p \in Prints : SameScan(finding[t][p], row[p])
    PROVE  ScansKept /\ LinksKept
<1>1. [p \in Prints |-> row[p]] \in [Prints -> Finding] BY DEF SameScan
<1>2. /\ finding' \in [Targets -> [Prints -> Finding]]
      /\ finding'[t] = [p \in Prints |-> row[p]]
      /\ \A u \in Targets \ {t} : finding'[u] = finding[u]
  BY <1>1, RowOfTarget
<1>3. \A p \in Prints : finding'[t][p] = row[p] BY <1>2
<1> QED BY <1>2, <1>3 DEF ScansKept, LinksKept, SameScan

LEMMA ResolveRows ==
    ASSUME Typed, NEW t \in Targets, ResolveStale(t)
    PROVE  ScansKept /\ LinksKept
<1>1. PICK seen \in unsettled[t] :
        finding' = [finding EXCEPT ![t] = [p \in Prints |->
               IF Exists(t, p) /\ ~@[p].resolved /\ p \notin seen
               THEN Derived(t, Settled(@[p])) ELSE @[p]]]
  BY DEF ResolveStale
<1> DEFINE f(p) == finding[t][p]
           g(p) == Settled(f(p))
           new(p) == IF Exists(t, p) /\ ~f(p).resolved /\ p \notin seen
                     THEN Derived(t, g(p)) ELSE f(p)
           row == [p \in Prints |-> new(p)]
<1>2. finding' = [finding EXCEPT ![t] = [p \in Prints |-> row[p]]] BY <1>1 DEF Typed
<1>3. ASSUME NEW p \in Prints PROVE SameScan(f(p), row[p])
  <2>1. f(p) \in Finding BY DEF Typed
  <2>3. SameScan(f(p), g(p)) BY <2>1, Resolve
  <2>4. g(p) \in Finding BY <2>3 DEF SameScan
  <2> HIDE DEF g
  <2>5. SameScan(g(p), Derived(t, g(p))) BY <2>4, DerivedSame
  <2>6. SameScan(f(p), Derived(t, g(p))) BY <2>3, <2>5, SameChain
  <2>7. SameScan(f(p), f(p)) BY <2>1 DEF SameScan
  <2>8. row[p] = Derived(t, g(p)) \/ row[p] = f(p) OBVIOUS
  <2> QED BY <2>6, <2>7, <2>8
<1> HIDE DEF row
<1> QED BY <1>2, <1>3, RowsChange

LEMMA MuteRows ==
    ASSUME Typed, NEW t \in Targets, NEW p \in Prints, Mute(t, p)
    PROVE  ScansKept /\ LinksKept
<1>0. finding[t][p] \in Finding /\ finding \in [Targets -> [Prints -> Finding]] BY DEF Typed
<1>1. \E g : SameScan(finding[t][p], g) /\ finding' = [finding EXCEPT ![t][p] = g]
  <2>1. CASE EngineOf[t] = "workflow"
    <3> DEFINE h == Toggled(finding[t][p])
    <3>1. finding' = [finding EXCEPT ![t][p] = Derived(t, h)] BY <2>1 DEF Mute
    <3>3. SameScan(finding[t][p], h) BY <1>0, Muting
    <3>4. h \in Finding BY <3>3 DEF SameScan
    <3> HIDE DEF h
    <3>5. SameScan(finding[t][p], Derived(t, h)) BY <3>3, <3>4, DerivedSame, SameChain
    <3> QED BY <3>1, <3>5
  <2>2. CASE EngineOf[t] # "workflow"
    <3>1. \E s \in {"open", "fix_in_progress", "resolved", "ignored"} :
             finding' = [finding EXCEPT ![t][p] = [finding[t][p] EXCEPT !.status = s]]
      BY <1>0, <2>2 DEF Mute
    <3> QED BY <1>0, <3>1, WithStatus
  <2> QED BY <2>1, <2>2
<1>2. PICK g : SameScan(finding[t][p], g) /\ finding' = [finding EXCEPT ![t][p] = g] BY <1>1
<1>3. g \in Finding BY <1>2 DEF SameScan
<1>4. finding' \in [Targets -> [Prints -> Finding]] BY <1>0, <1>2, <1>3
<1>5. \A u \in Targets, q \in Prints :
        finding'[u][q] = IF u = t /\ q = p THEN g ELSE finding[u][q]
  BY <1>0, <1>2
<1> QED BY <1>2, <1>4, <1>5 DEF ScansKept, LinksKept, SameScan

LEMMA GenerateRows ==
    ASSUME Typed, LinkedToFix, NEW t \in Targets, GenerateFix(t)
    PROVE  ScansKept /\ LinkedToFix'
<1> DEFINE f(p) == finding[t][p]
           g(p) == Relinked(t, f(p), p \in Selected(t))
           row == [p \in Prints |-> Derived(t, g(p))]
<1>1. finding' = [finding EXCEPT ![t] = row] BY DEF GenerateFix
<1>2. ASSUME NEW p \in Prints PROVE row[p] \in Finding /\ row[p].scan = f(p).scan
  <2>1. f(p) \in Finding BY DEF Typed
  <2>2. (p \in Selected(t)) \in BOOLEAN OBVIOUS
  <2>3. g(p) \in Finding /\ g(p).scan = f(p).scan BY <2>1, <2>2, Linking
  <2> HIDE DEF g
  <2>4. SameScan(g(p), Derived(t, g(p))) BY <2>3, DerivedSame
  <2>5. row[p] = Derived(t, g(p)) OBVIOUS
  <2> QED BY <2>3, <2>4, <2>5 DEF SameScan
<1>3. row \in [Prints -> Finding] BY <1>2
<1> HIDE DEF row
<1>4. /\ finding' \in [Targets -> [Prints -> Finding]] /\ finding'[t] = row
      /\ \A u \in Targets \ {t} : finding'[u] = finding[u]
  BY <1>1, <1>3, RowOfTarget
<1>5. fix \in [Targets -> FixStates] /\ fix' = [fix EXCEPT ![t] = "pending"]
  BY DEF GenerateFix, Typed
<1>6. fix'[t] # "none" /\ \A u \in Targets \ {t} : fix'[u] = fix[u] BY <1>5
<1>7. LinkedToFix' BY <1>4, <1>6 DEF LinkedToFix
<1>8. ScansKept BY <1>2, <1>4 DEF ScansKept
<1> QED BY <1>7, <1>8

LEMMA RemoveRows ==
    ASSUME Typed, NEW t \in Targets, RemoveFile(t)
    PROVE  ScansKept /\ LinksKept
<1> DEFINE f(p) == finding[t][p]
           g(p) == [f(p) EXCEPT !.resolved = TRUE]
           row == [p \in Prints |-> IF Exists(t, p) THEN Derived(t, g(p)) ELSE f(p)]
<1>1. finding' = [finding EXCEPT ![t] = [p \in Prints |-> row[p]]] BY DEF RemoveFile
<1>2. ASSUME NEW p \in Prints PROVE SameScan(f(p), row[p])
  <2>1. f(p) \in Finding BY DEF Typed
  <2>2. SameScan(f(p), g(p)) BY <2>1, ResolveOnly
  <2>3. g(p) \in Finding BY <2>2 DEF SameScan
  <2> HIDE DEF g
  <2>4. SameScan(f(p), Derived(t, g(p))) BY <2>2, <2>3, DerivedSame, SameChain
  <2>5. SameScan(f(p), f(p)) BY <2>1 DEF SameScan
  <2>6. row[p] = Derived(t, g(p)) \/ row[p] = f(p) OBVIOUS
  <2> QED BY <2>4, <2>5, <2>6
<1> HIDE DEF row
<1> QED BY <1>1, <1>2, RowsChange

-----------------------------------------------------------------------------
(* The types and the links, action by action *)

LEMMA MovesToStatus ==
    ASSUME NEW e \in DOMAIN FixMachine, NEW s, Can(FixMachine, e, s)
    PROVE  Advance(FixMachine, e, s) \in FixStatus
BY DEF Can, Advance, FixMachine, FixStatus, InFlight, Superseded

LEMMA StatusIsSome == "none" \notin FixStatus
BY DEF FixStatus

LEMMA BeginTyped ==
    ASSUME Typed, LinkedToFix, NEW t \in Targets, BeginScan(t)
    PROVE  Typed' /\ LinkedToFix'
<1>1. /\ scan' = scan /\ unsettled' = unsettled /\ finding' = finding /\ fix' = fix
      /\ clock' \in Nat /\ run' = [run EXCEPT ![t] = @ \cup {clock}]
  BY DEF BeginScan, Typed
<1>2. run' \in [Targets -> SUBSET Nat] BY <1>1 DEF Typed
<1> QED BY <1>1, <1>2 DEF Typed, LinkedToFix

LEMMA FailTyped ==
    ASSUME Typed, LinkedToFix, NEW t \in Targets, NEW r \in run[t], Over(t, r, FailedRow(r)),
           unsettled' = unsettled, finding' = finding, fix' = fix
    PROVE  Typed' /\ LinkedToFix'
<1>1. scan' \in [Targets -> Seq(ScanRows)]
  <2>1. PICK row : row = FailedRow(r) OBVIOUS
  <2>2. row \in ScanRows BY <2>1, FailedRowTyped
  <2>3. scan' = [scan EXCEPT ![t] = Append(@, row)] BY <2>1 DEF Over
  <2> QED BY <2>2, <2>3, AppendedRow
<1>2. run' \in [Targets -> SUBSET Nat] /\ clock' \in Nat BY DEF Over, Typed
<1> QED BY <1>1, <1>2 DEF Typed, LinkedToFix

LEMMA CompleteLinked ==
    ASSUME Typed, LinkedToFix, NEW t \in Targets, NEW seen \in SUBSET Prints,
           finding' = [finding EXCEPT ![t] = [p \in Prints |-> Upserted(t, seen, p)]], fix' = fix
    PROVE  LinkedToFix'
<1>1. [p \in Prints |-> Upserted(t, seen, p)] \in [Prints -> Finding] BY UpsertedRow
<1>2. /\ finding'[t] = [p \in Prints |-> Upserted(t, seen, p)]
      /\ \A u \in Targets \ {t} : finding'[u] = finding[u]
  BY <1>1, RowOfTarget
<1>3. ASSUME NEW p \in Prints, finding'[t][p].linked = TRUE PROVE finding[t][p].linked = TRUE
  <2>1. Upserted(t, seen, p).linked = TRUE BY <1>2, <1>3
  <2> QED BY <2>1, UpsertedRow
<1> QED BY <1>2, <1>3 DEF LinkedToFix

LEMMA CrashTyped ==
    ASSUME Typed, LinkedToFix, NEW t \in Targets, Crash(t)
    PROVE  Typed' /\ LinkedToFix'
<1>1. /\ scan' = scan /\ finding' = finding /\ fix' = fix /\ clock' = clock
      /\ run' = [run EXCEPT ![t] = {}] /\ unsettled' = [unsettled EXCEPT ![t] = {}]
  BY DEF Crash
<1> QED BY <1>1 DEF Typed, LinkedToFix

LEMMA ResolveTyped ==
    ASSUME Typed, LinkedToFix, NEW t \in Targets, ResolveStale(t)
    PROVE  Typed' /\ LinkedToFix'
<1>1. ScansKept /\ LinksKept BY ResolveRows
<1>2. /\ scan' = scan /\ run' = run /\ fix' = fix /\ clock' = clock
      /\ unsettled' \in [Targets -> SUBSET SUBSET Prints]
  BY DEF ResolveStale, Typed
<1> QED BY <1>1, <1>2 DEF Typed, LinkedToFix, ScansKept, LinksKept

LEMMA MuteTyped ==
    ASSUME Typed, LinkedToFix, NEW t \in Targets, NEW p \in Prints, Mute(t, p)
    PROVE  Typed' /\ LinkedToFix'
<1>1. ScansKept /\ LinksKept BY MuteRows
<1>2. UNCHANGED <<scan, run, unsettled, fix, clock>> BY DEF Mute
<1> QED BY <1>1, <1>2 DEF Typed, LinkedToFix, ScansKept, LinksKept

LEMMA GenerateTyped ==
    ASSUME Typed, LinkedToFix, NEW t \in Targets, GenerateFix(t)
    PROVE  Typed' /\ LinkedToFix'
<1>1. ScansKept /\ LinkedToFix' BY GenerateRows
<1>2. UNCHANGED <<scan, run, unsettled, clock>> /\ fix' = [fix EXCEPT ![t] = "pending"]
  BY DEF GenerateFix
<1>3. fix' \in [Targets -> FixStates] BY <1>2 DEF Typed, FixStates, FixStatus
<1> QED BY <1>1, <1>2, <1>3 DEF Typed, ScansKept

LEMMA MoveTyped ==
    ASSUME Typed, LinkedToFix, NEW t \in Targets, MoveFix(t)
    PROVE  Typed' /\ LinkedToFix'
<1>1. PICK e \in DOMAIN FixMachine :
        /\ Can(FixMachine, e, fix[t])
        /\ fix' = [fix EXCEPT ![t] = Advance(FixMachine, e, fix[t])]
  BY DEF MoveFix
<1>2. UNCHANGED <<scan, run, unsettled, finding, clock>> BY DEF MoveFix
<1>3. PICK s \in FixStatus : fix' = [fix EXCEPT ![t] = s] BY <1>1, MovesToStatus
<1>4. fix' \in [Targets -> FixStates] BY <1>3 DEF Typed, FixStates
<1>5. \A u \in Targets : fix[u] # "none" => fix'[u] # "none"
  BY <1>3, StatusIsSome DEF Typed
<1> QED BY <1>2, <1>4, <1>5 DEF Typed, LinkedToFix

LEMMA RemoveTyped ==
    ASSUME Typed, LinkedToFix, NEW t \in Targets, RemoveFile(t)
    PROVE  Typed' /\ LinkedToFix'
<1>1. ScansKept /\ LinksKept BY RemoveRows
<1>2. UNCHANGED <<scan, run, unsettled, clock>> BY DEF RemoveFile
<1> DEFINE s == IF fix[t] = "none" THEN fix[t]
                ELSE TryAdvance(FixMachine, "supersede_deleted_file", fix[t])
<1>3. fix' = [fix EXCEPT ![t] = s] BY DEF RemoveFile
<1>4. s \in FixStates /\ (fix[t] # "none" => s # "none")
  <2>1. fix[t] \in FixStates BY DEF Typed
  <2>2. "supersede_deleted_file" \in DOMAIN FixMachine BY DEF FixMachine
  <2>3. CASE fix[t] = "none" BY <2>1, <2>3
  <2>4. CASE fix[t] # "none"
    <3>1. s = TryAdvance(FixMachine, "supersede_deleted_file", fix[t]) BY <2>4
    <3>2. s = fix[t] \/ s \in FixStatus BY <2>2, <3>1, MovesToStatus DEF TryAdvance
    <3> HIDE DEF s
    <3> QED BY <2>1, <2>4, <3>2, StatusIsSome DEF FixStates
  <2> QED BY <2>3, <2>4
<1> HIDE DEF s
<1>5. fix' \in [Targets -> FixStates] BY <1>3, <1>4 DEF Typed
<1>6. \A u \in Targets : fix[u] # "none" => fix'[u] # "none" BY <1>3, <1>4 DEF Typed
<1> QED BY <1>1, <1>2, <1>5, <1>6 DEF Typed, LinkedToFix, ScansKept, LinksKept

-----------------------------------------------------------------------------
(* The order of the scans, action by action *)

Scanning(t) == BeginScan(t) \/ CompleteScan(t) \/ FailScan(t) \/ Crash(t)

Settling(t) ==
    \/ ResolveStale(t) \/ GenerateFix(t) \/ MoveFix(t) \/ RemoveFile(t)
    \/ \E p \in Prints : Mute(t, p)

Viewing == ReadFindings \/ ReadPipeline \/ Answer

LEMMA NextActions ==
    Next <=> (\E t \in Targets : Scanning(t) \/ Settling(t)) \/ Viewing
BY DEF Next, Scanning, Settling, Viewing

(* A completed scan, with the rows it leaves. *)
Completes(t, r, seen) ==
    /\ Over(t, r, [status |-> "completed", score |-> ScoreOf(t, seen),
                   created |-> r, completed |-> clock])
    /\ finding' = [finding EXCEPT ![t] = [p \in Prints |-> Upserted(t, seen, p)]]
    /\ unsettled' = [unsettled EXCEPT ![t] = @ \cup {seen}]
    /\ fix' = fix

LEMMA CompleteScanIs ==
    ASSUME Typed, NEW t \in Targets, CompleteScan(t)
    PROVE  \E r \in run[t], seen \in SUBSET Prints : Completes(t, r, seen)
<1>1. PICK r \in run[t], seen \in SUBSET Prints :
        /\ Over(t, r, [status |-> "completed", score |-> ScoreOf(t, seen),
                       created |-> r, completed |-> clock])
        /\ finding' = [finding EXCEPT ![t] = [p \in Prints |->
               IF p \in seen
               THEN Derived(t, [@[p] EXCEPT !.scan = Len(scan[t]) + 1, !.resolved = FALSE])
               ELSE @[p]]]
        /\ unsettled' = [unsettled EXCEPT ![t] = @ \cup {seen}]
        /\ UNCHANGED <<fix, gone, report, ops>>
  BY DEF CompleteScan
<1>2. finding' = [finding EXCEPT ![t] = [p \in Prints |-> Upserted(t, seen, p)]]
  BY <1>1 DEF Upserted, Typed
<1>3. fix' = fix BY <1>1
<1>4. Completes(t, r, seen) BY <1>1, <1>2, <1>3 DEF Completes
<1> QED BY <1>4

LEMMA FailScanIs ==
    ASSUME NEW t \in Targets, FailScan(t)
    PROVE  \E r \in run[t] : /\ Over(t, r, FailedRow(r))
                             /\ unsettled' = unsettled /\ finding' = finding /\ fix' = fix
BY DEF FailScan, FailedRow

(* What the scans of a target tell does not change. *)
Undisturbed(t) ==
    /\ clock' \in Nat /\ clock <= clock'
    /\ scan'[t] = scan[t] /\ run'[t] = run[t]
    /\ unsettled[t] = {} => unsettled'[t] = {}
    /\ \A p \in Prints : finding'[t][p].scan = finding[t][p].scan

LEMMA UndisturbedOrdered ==
    ASSUME Typed, NEW t \in Targets, Ordered(t), Undisturbed(t)
    PROVE  Ordered(t)'
BY StaysOrdered DEF Undisturbed

LEMMA SettlingUndisturbs ==
    ASSUME Typed, LinkedToFix, NEW t \in Targets, NEW u \in Targets, Settling(u)
    PROVE  Undisturbed(t)
<1>1. clock \in Nat BY DEF Typed
<1>2. CASE ResolveStale(u)
  <2>1. ScansKept BY <1>2, ResolveRows
  <2>2. /\ scan' = scan /\ run' = run /\ clock' = clock
        /\ \E seen : unsettled' = [unsettled EXCEPT ![u] = @ \ {seen}]
    BY <1>2 DEF ResolveStale
  <2>3. unsettled[t] = {} => unsettled'[t] = {} BY <2>2 DEF Typed
  <2> QED BY <1>1, <2>1, <2>2, <2>3 DEF Undisturbed, ScansKept
<1>3. CASE GenerateFix(u)
  <2>1. ScansKept BY <1>3, GenerateRows
  <2>2. UNCHANGED <<scan, run, unsettled, clock>> BY <1>3 DEF GenerateFix
  <2> QED BY <1>1, <2>1, <2>2 DEF Undisturbed, ScansKept
<1>4. CASE MoveFix(u)
  <2>1. UNCHANGED <<scan, run, unsettled, finding, clock>> BY <1>4 DEF MoveFix
  <2> QED BY <1>1, <2>1 DEF Undisturbed
<1>5. CASE RemoveFile(u)
  <2>1. ScansKept BY <1>5, RemoveRows
  <2>2. UNCHANGED <<scan, run, unsettled, clock>> BY <1>5 DEF RemoveFile
  <2> QED BY <1>1, <2>1, <2>2 DEF Undisturbed, ScansKept
<1>6. ASSUME NEW p \in Prints, Mute(u, p) PROVE Undisturbed(t)
  <2>1. ScansKept BY <1>6, MuteRows
  <2>2. UNCHANGED <<scan, run, unsettled, clock>> BY <1>6 DEF Mute
  <2> QED BY <1>1, <2>1, <2>2 DEF Undisturbed, ScansKept
<1> QED BY <1>2, <1>3, <1>4, <1>5, <1>6 DEF Settling

LEMMA ScanningElsewhere ==
    ASSUME Typed, NEW u \in Targets, Scanning(u), NEW t \in Targets \ {u}
    PROVE  Undisturbed(t)
<1>0. clock \in Nat BY DEF Typed
<1>1. CASE BeginScan(u)
  <2>1. /\ scan' = scan /\ unsettled' = unsettled /\ finding' = finding /\ clock' = clock + 1
        /\ run' = [run EXCEPT ![u] = @ \cup {clock}]
    BY <1>1 DEF BeginScan
  <2>2. run'[t] = run[t] BY <2>1 DEF Typed
  <2> QED BY <1>0, <2>1, <2>2 DEF Undisturbed
<1>2. CASE CompleteScan(u)
  <2>1. PICK r \in run[u], seen \in SUBSET Prints : Completes(u, r, seen)
    BY <1>2, CompleteScanIs
  <2>2. scan'[t] = scan[t] /\ run'[t] = run[t] /\ clock' = clock + 1
    BY <2>1 DEF Completes, Over, Typed
  <2>3. unsettled'[t] = unsettled[t] BY <2>1 DEF Completes, Typed
  <2>4. finding'[t] = finding[t]
    <3>1. finding' = [finding EXCEPT ![u] = [p \in Prints |-> Upserted(u, seen, p)]]
      BY <2>1 DEF Completes
    <3> QED BY <3>1 DEF Typed
  <2> QED BY <1>0, <2>2, <2>3, <2>4 DEF Undisturbed
<1>3. CASE FailScan(u)
  <2>1. PICK r \in run[u] : Over(u, r, FailedRow(r)) /\ unsettled' = unsettled /\ finding' = finding
    BY <1>3, FailScanIs
  <2>2. scan'[t] = scan[t] /\ run'[t] = run[t] /\ clock' = clock + 1
    BY <2>1 DEF Over, Typed
  <2> QED BY <1>0, <2>1, <2>2 DEF Undisturbed
<1>4. CASE Crash(u)
  <2>1. /\ scan' = scan /\ finding' = finding /\ clock' = clock
        /\ run' = [run EXCEPT ![u] = {}] /\ unsettled' = [unsettled EXCEPT ![u] = {}]
    BY <1>4 DEF Crash
  <2>2. run'[t] = run[t] /\ unsettled'[t] = unsettled[t] BY <2>1 DEF Typed
  <2> QED BY <1>0, <2>1, <2>2 DEF Undisturbed
<1> QED BY <1>1, <1>2, <1>3, <1>4 DEF Scanning

LEMMA ScanningOrdered ==
    ASSUME Typed, NEW t \in Targets \ Slow, Ordered(t), Scanning(t)
    PROVE  Ordered(t)'
<1>1. CASE BeginScan(t) BY <1>1, BeginOrdered
<1>2. CASE CompleteScan(t)
  <2>1. PICK r \in run[t], seen \in SUBSET Prints : Completes(t, r, seen)
    BY <1>2, CompleteScanIs
  <2> QED BY <2>1, CompleteOrdered DEF Completes
<1>3. CASE FailScan(t) BY <1>3, FailScanIs, FailOrdered
<1>4. CASE Crash(t) BY <1>4, CrashOrdered
<1> QED BY <1>1, <1>2, <1>3, <1>4 DEF Scanning

LEMMA ScanningTyped ==
    ASSUME Typed, LinkedToFix, NEW t \in Targets, Scanning(t)
    PROVE  Typed' /\ LinkedToFix'
<1>1. CASE BeginScan(t) BY <1>1, BeginTyped
<1>2. CASE CompleteScan(t)
  <2>1. PICK r \in run[t], seen \in SUBSET Prints : Completes(t, r, seen)
    BY <1>2, CompleteScanIs
  <2>2. Typed' BY <2>1, CompleteTyped DEF Completes
  <2>3. LinkedToFix' BY <2>1, CompleteLinked DEF Completes
  <2> QED BY <2>2, <2>3
<1>3. CASE FailScan(t) BY <1>3, FailScanIs, FailTyped
<1>4. CASE Crash(t) BY <1>4, CrashTyped
<1> QED BY <1>1, <1>2, <1>3, <1>4 DEF Scanning

LEMMA SettlingTyped ==
    ASSUME Typed, LinkedToFix, NEW t \in Targets, Settling(t)
    PROVE  Typed' /\ LinkedToFix'
BY ResolveTyped, GenerateTyped, MoveTyped, RemoveTyped, MuteTyped DEF Settling

LEMMA ViewingStutters ==
    ASSUME Viewing PROVE UNCHANGED <<scan, run, unsettled, finding, fix, gone, clock>>
BY DEF Viewing, ReadFindings, ReadPipeline, Answer

LEMMA InvUnchanged ==
    ASSUME Inv, UNCHANGED <<scan, run, unsettled, finding, fix, clock>>
    PROVE  Inv'
<1>1. Typed' /\ LinkedToFix' BY DEF Inv, Typed, LinkedToFix
<1>2. ASSUME NEW t \in Targets \ Slow PROVE Ordered(t)'
  <2>1. Undisturbed(t) BY DEF Undisturbed, Inv, Typed
  <2> QED BY <2>1, UndisturbedOrdered DEF Inv
<1> QED BY <1>1, <1>2 DEF Inv

LEMMA Start == ASSUME Init PROVE Inv
<1>1. Typed
  <2>1. NoFinding \in Finding BY DEF NoFinding, Finding
  <2>2. <<>> \in Seq(ScanRows) BY EmptySeq
  <2> QED BY <2>1, <2>2 DEF Init, Typed, FixStates
<1>2. \A t \in Targets, p \in Prints : finding[t][p].linked = FALSE /\ finding[t][p].scan = 0
  BY DEF Init, NoFinding
<1>3. LinkedToFix BY <1>2 DEF LinkedToFix
<1>4. ASSUME NEW t \in Targets PROVE Ordered(t)
  <2>1. scan[t] = <<>> /\ run[t] = {} BY DEF Init
  <2>2. DOMAIN scan[t] = {} /\ Len(scan[t]) = 0 BY <2>1, EmptySeq, LenProperties
  <2>3. Completed(t) = {} BY <2>2 DEF Completed
  <2> QED BY <1>2, <2>1, <2>2, <2>3 DEF Ordered
<1> QED BY <1>1, <1>3, <1>4 DEF Inv

LEMMA Inductive == Inv /\ [Next]_vars => Inv'
<1> SUFFICES ASSUME Inv, [Next]_vars PROVE Inv'
  OBVIOUS
<1>0. Typed /\ LinkedToFix BY DEF Inv
<1>1. ASSUME NEW u \in Targets, Scanning(u) PROVE Inv'
  <2>1. Typed' /\ LinkedToFix' BY <1>0, <1>1, ScanningTyped
  <2>2. ASSUME NEW t \in Targets \ Slow PROVE Ordered(t)'
    <3>1. Ordered(t) BY DEF Inv
    <3>2. CASE t = u BY <1>0, <1>1, <3>1, <3>2, ScanningOrdered
    <3>3. CASE t # u BY <1>0, <1>1, <3>1, <3>3, ScanningElsewhere, UndisturbedOrdered
    <3> QED BY <3>2, <3>3
  <2> QED BY <2>1, <2>2 DEF Inv
<1>2. ASSUME NEW u \in Targets, Settling(u) PROVE Inv'
  <2>1. Typed' /\ LinkedToFix' BY <1>0, <1>2, SettlingTyped
  <2>2. ASSUME NEW t \in Targets \ Slow PROVE Ordered(t)'
    <3>1. Ordered(t) BY DEF Inv
    <3> QED BY <1>0, <1>2, <3>1, SettlingUndisturbs, UndisturbedOrdered
  <2> QED BY <2>1, <2>2 DEF Inv
<1>3. CASE Viewing BY <1>3, ViewingStutters, InvUnchanged
<1>4. CASE UNCHANGED vars BY <1>4, InvUnchanged DEF vars
<1> QED BY <1>1, <1>2, <1>3, <1>4, NextActions

(* The grade shown for a target is explained by the findings shown with it,  *)
(* as long as the target's scans do not outlast the lock that keeps them     *)
(* apart.                                                                    *)
THEOREM GradeShown == Spec => []GradeExplained
<1>1. Init => Inv BY Start
<1>2. Inv => GradeExplained BY OrderedIsExplained DEF Inv, GradeExplained
<1> QED BY <1>1, <1>2, Inductive, PTL DEF Spec

-----------------------------------------------------------------------------
(* The buckets of the fix pipeline *)

OpenFixed(e) == {tp \in OverviewRows(e) : IsOpen(tp) /\ Linked(tp)}

InStatus(e, sts) == Cardinality({tp \in OpenFixed(e) : fix[tp[1]] \in sts})

Shown == InFlight \cup {"ready", "delivered", "landed", "failed"}

LEMMA PipelineIs ==
    ASSUME NEW e, NEW n
    PROVE  FixPipeline(e, n) =
             [unfixed |-> AtLeast(n - InStatus(e, Shown), 0), in_progress |-> InStatus(e, InFlight),
              ready |-> InStatus(e, {"ready"}), delivered |-> InStatus(e, {"delivered"}),
              landed |-> InStatus(e, {"landed"}), failed |-> InStatus(e, {"failed"})]
BY DEF FixPipeline, InStatus, OpenFixed, Shown

LEMMA RowsAreFinite ==
    ASSUME NEW e
    PROVE  /\ IsFiniteSet(OverviewRows(e)) /\ OverviewRows(e) \subseteq Targets \X Prints
           /\ IsFiniteSet(OpenFixed(e))
<1>1. IsFiniteSet(Targets \X Prints) BY FiniteAssumption, FS_Product
<1>2. OverviewRows(e) \subseteq Targets \X Prints BY DEF OverviewRows, Findings
<1>3. IsFiniteSet(OverviewRows(e)) BY <1>1, <1>2, FS_Subset
<1>4. OpenFixed(e) \subseteq OverviewRows(e) BY DEF OpenFixed
<1> QED BY <1>2, <1>3, <1>4, FS_Subset

LEMMA Disjoint ==
    ASSUME NEW e, NEW A, NEW B, A \cap B = {}
    PROVE  /\ InStatus(e, A) \in Nat /\ InStatus(e, B) \in Nat
           /\ InStatus(e, A \cup B) = InStatus(e, A) + InStatus(e, B)
<1> DEFINE Rows(X) == {tp \in OpenFixed(e) : fix[tp[1]] \in X}
<1>1. \A X : IsFiniteSet(Rows(X)) BY RowsAreFinite, FS_Subset
<1>2. Rows(A \cup B) = Rows(A) \cup Rows(B) OBVIOUS
<1>3. Rows(A) \cap Rows(B) = {} OBVIOUS
<1> HIDE DEF Rows
<1>4. Cardinality(Rows(A)) \in Nat /\ Cardinality(Rows(B)) \in Nat BY <1>1, FS_CardinalityType
<1>5. Cardinality(Rows(A) \cup Rows(B)) =
        Cardinality(Rows(A)) + Cardinality(Rows(B)) - Cardinality(Rows(A) \cap Rows(B))
  BY <1>1, FS_Union
<1>6. Cardinality(Rows(A) \cap Rows(B)) = 0 BY <1>3, FS_EmptySet
<1>7. Cardinality(Rows(A \cup B)) = Cardinality(Rows(A)) + Cardinality(Rows(B))
  <2>1. \A x, y \in Nat : x + y - 0 = x + y OBVIOUS
  <2>2. Cardinality(Rows(A) \cup Rows(B)) = Cardinality(Rows(A)) + Cardinality(Rows(B)) - 0
    BY <1>5, <1>6
  <2>3. Cardinality(Rows(A)) + Cardinality(Rows(B)) - 0
          = Cardinality(Rows(A)) + Cardinality(Rows(B))
    BY <1>4, <2>1
  <2> QED BY <1>2, <2>2, <2>3
<1>8. ASSUME NEW X PROVE InStatus(e, X) = Cardinality(Rows(X)) BY DEF InStatus, Rows
<1> QED BY <1>4, <1>7, <1>8

(* The statuses a bucket shows are counted once. *)
LEMMA Tally ==
    ASSUME NEW e
    PROVE  /\ InStatus(e, InFlight) \in Nat /\ InStatus(e, {"ready"}) \in Nat
           /\ InStatus(e, {"delivered"}) \in Nat /\ InStatus(e, {"landed"}) \in Nat
           /\ InStatus(e, {"failed"}) \in Nat
           /\ InStatus(e, Shown) =
                InStatus(e, InFlight) + InStatus(e, {"ready"}) + InStatus(e, {"delivered"})
                + InStatus(e, {"landed"}) + InStatus(e, {"failed"})
<1> DEFINE A == InFlight \cup {"ready"}
           B == A \cup {"delivered"}
           C == B \cup {"landed"}
<1>1. /\ InFlight \cap {"ready"} = {} /\ A \cap {"delivered"} = {}
      /\ B \cap {"landed"} = {} /\ C \cap {"failed"} = {}
  BY DEF InFlight
<1>2. Shown = C \cup {"failed"} BY DEF Shown
<1>3. /\ InStatus(e, InFlight) \in Nat /\ InStatus(e, {"ready"}) \in Nat
      /\ InStatus(e, A) = InStatus(e, InFlight) + InStatus(e, {"ready"})
  BY <1>1, Disjoint
<1> HIDE DEF A
<1>4. /\ InStatus(e, {"delivered"}) \in Nat
      /\ InStatus(e, B) = InStatus(e, A) + InStatus(e, {"delivered"})
  BY <1>1, Disjoint
<1> HIDE DEF B
<1>5. /\ InStatus(e, {"landed"}) \in Nat
      /\ InStatus(e, C) = InStatus(e, B) + InStatus(e, {"landed"})
  BY <1>1, Disjoint
<1> HIDE DEF C
<1>6. /\ InStatus(e, {"failed"}) \in Nat
      /\ InStatus(e, Shown) = InStatus(e, C) + InStatus(e, {"failed"})
  BY <1>1, <1>2, Disjoint
<1> QED BY <1>3, <1>4, <1>5, <1>6

(* What the buckets add up to: nothing that was counted is lost. *)
LEMMA BucketsCover ==
    ASSUME NEW e, NEW n \in Nat
    PROVE  /\ Sum(FixPipeline(e, n)) >= n
           /\ n >= InStatus(e, Shown) => Sum(FixPipeline(e, n)) = n
           /\ \A b \in Buckets : FixPipeline(e, n)[b] >= 0
<1> DEFINE w == InStatus(e, Shown)
           a == InStatus(e, InFlight)
           r == InStatus(e, {"ready"})
           d == InStatus(e, {"delivered"})
           l == InStatus(e, {"landed"})
           f == InStatus(e, {"failed"})
           u == AtLeast(n - w, 0)
<1>1. /\ a \in Nat /\ r \in Nat /\ d \in Nat /\ l \in Nat /\ f \in Nat
      /\ w = a + r + d + l + f
  BY Tally
<1>2. FixPipeline(e, n) = [unfixed |-> u, in_progress |-> a, ready |-> r, delivered |-> d,
                           landed |-> l, failed |-> f]
  BY PipelineIs
<1> HIDE DEF w, a, r, d, l, f
<1>3. u \in Nat /\ u >= n - w /\ (n >= w => u = n - w) BY <1>1 DEF AtLeast
<1> HIDE DEF u
<1>4. Sum(FixPipeline(e, n)) = u + a + r + d + l + f BY <1>2 DEF Sum
<1>5. \A b \in Buckets : FixPipeline(e, n)[b] >= 0 BY <1>1, <1>2, <1>3 DEF Buckets
<1>6. Sum(FixPipeline(e, n)) >= n /\ (n >= w => Sum(FixPipeline(e, n)) = n)
  BY <1>1, <1>3, <1>4
<1> QED BY <1>5, <1>6 DEF w

-----------------------------------------------------------------------------
(* The request *)

ReportShape ==
    \E s, e, b : \E n \in Nat : report = [step |-> s, engine |-> e, open |-> n, buckets |-> b]

Reported == ReportShape /\ ReportIsSane

LEMMA OpenIsCounted == ASSUME NEW e PROVE OpenCount(e) \in Nat
<1>1. {tp \in OverviewRows(e) : IsOpen(tp)} \subseteq OverviewRows(e) OBVIOUS
<1>2. IsFiniteSet({tp \in OverviewRows(e) : IsOpen(tp)}) BY <1>1, RowsAreFinite, FS_Subset
<1> QED BY <1>2, FS_CardinalityType DEF OpenCount

LEMMA Reporting ==
    ASSUME Reported, Viewing
    PROVE  Reported'
<1>1. CASE ReadFindings
  <2>1. PICK e \in Engines :
          report' = [NoReport EXCEPT !.step = "counted", !.engine = e, !.open = OpenCount(e)]
    BY <1>1 DEF ReadFindings
  <2>2. PICK n \in Nat : n = OpenCount(e) BY OpenIsCounted
  <2>3. report' = [step |-> "counted", engine |-> e, open |-> n, buckets |-> NoReport.buckets]
    BY <2>1, <2>2 DEF NoReport
  <2>4. report'.step = "counted" BY <2>3
  <2> QED BY <2>3, <2>4 DEF Reported, ReportShape, ReportIsSane
<1>2. CASE ReadPipeline
  <2>0. PICK s, e, b :
          \E n \in Nat : report = [step |-> s, engine |-> e, open |-> n, buckets |-> b]
    BY DEF Reported, ReportShape
  <2>1. PICK n \in Nat : report = [step |-> s, engine |-> e, open |-> n, buckets |-> b]
    BY <2>0
  <2>2. PICK c : c = FixPipeline(e, n) OBVIOUS
  <2>3. report.engine = e /\ report.open = n BY <2>1
  <2>4. report' = [report EXCEPT !.step = "done", !.buckets = c]
    BY <1>2, <2>2, <2>3 DEF ReadPipeline
  <2>5. report' = [step |-> "done", engine |-> e, open |-> n, buckets |-> c]
    BY <2>1, <2>4
  <2>6. Sum(c) >= n /\ \A x \in Buckets : c[x] >= 0 BY <2>2, BucketsCover
  <2>7. report'.open = n /\ report'.buckets = c BY <2>5
  <2>8. Sum(report'.buckets) >= report'.open /\ \A x \in Buckets : report'.buckets[x] >= 0
    BY <2>6, <2>7
  <2>9. Sum(report.buckets)' = Sum(report'.buckets) BY DEF Sum
  <2> QED BY <2>5, <2>8, <2>9 DEF Reported, ReportShape, ReportIsSane
<1>3. CASE Answer
  <2>1. report' = [step |-> "idle", engine |-> "docker", open |-> 0,
                   buckets |-> NoReport.buckets]
    BY <1>3 DEF Answer, NoReport
  <2>2. report'.step = "idle" BY <2>1
  <2> QED BY <2>1, <2>2 DEF Reported, ReportShape, ReportIsSane
<1> QED BY <1>1, <1>2, <1>3 DEF Viewing

LEMMA NoReporting ==
    ASSUME NEW t \in Targets, Scanning(t) \/ Settling(t)
    PROVE  report' = report
BY DEF Scanning, Settling, BeginScan, CompleteScan, FailScan, Crash, ResolveStale, GenerateFix,
       MoveFix, RemoveFile, Mute

(* Commits between the two statements of a request never make it answer with *)
(* less than it counted, or with a negative bucket.                          *)
THEOREM ReportSane == Spec => []ReportIsSane
<1>1. Init => Reported
  <2> SUFFICES ASSUME Init PROVE Reported OBVIOUS
  <2>1. report = [step |-> "idle", engine |-> "docker", open |-> 0,
                  buckets |-> NoReport.buckets]
    BY DEF Init, NoReport
  <2>2. report.step = "idle" BY <2>1
  <2> QED BY <2>1, <2>2 DEF Reported, ReportShape, ReportIsSane
<1>2. Reported /\ [Next]_vars => Reported'
  <2> SUFFICES ASSUME Reported, [Next]_vars PROVE Reported' OBVIOUS
  <2>1. CASE report' = report BY <2>1 DEF Reported, ReportShape, ReportIsSane
  <2>2. CASE Viewing BY <2>2, Reporting
  <2>3. CASE UNCHANGED vars BY <2>1, <2>3 DEF vars
  <2> QED BY <2>1, <2>2, <2>3, NextActions, NoReporting
<1>3. Reported => ReportIsSane BY DEF Reported
<1> QED BY <1>1, <1>2, <1>3, PTL DEF Spec

-----------------------------------------------------------------------------
(* What two pages compute by queries of their own *)

LEMMA SameLatest ==
    ASSUME NEW tp \in Findings("workflow")
    PROVE  LatestOnly(tp[1], tp[2]) <=> IsFromLatestScan(tp[1], tp[2])
BY DEF Findings, LatestOnly, IsFromLatestScan, ByCompletion

LEMMA SameRows ==
    OverviewRows("workflow") = {tp \in VisibleFindings(FALSE) : ~Muted(tp)}
BY SameLatest DEF OverviewRows, VisibleFindings

LEMMA Statistics == StatsAgree
BY SameRows DEF StatsAgree, OverviewFindings, GetFindingStats

LEMMA Generated == PageIsGenerated
BY DEF PageIsGenerated, ListFindings, LatestUnresolvedFindings, VisibleFindings

LEMMA Badges == BadgeAgrees
<1>1. gone = {} => Branch("workflow", FALSE) \ gone = Branch("workflow", FALSE) OBVIOUS
<1> QED BY <1>1 DEF BadgeAgrees, BadgeGrade, RepoGrade

(* The open findings are those a bucket shows and those no fix is shown for. *)
LEMMA BucketsSplit ==
    ASSUME Typed, LinkedToFix
    PROVE  BucketsAgree
<1>1. ASSUME NEW e PROVE OpenCount(e) >= InStatus(e, Shown)
  <2> DEFINE open == {tp \in OverviewRows(e) : IsOpen(tp)}
             shown == {tp \in OpenFixed(e) : fix[tp[1]] \in Shown}
  <2>1. open \subseteq OverviewRows(e) /\ shown \subseteq open BY DEF OpenFixed
  <2>2. IsFiniteSet(open) BY <2>1, RowsAreFinite, FS_Subset
  <2>3. Cardinality(shown) <= Cardinality(open) /\ IsFiniteSet(shown) BY <2>1, <2>2, FS_Subset
  <2>4. Cardinality(shown) \in Nat /\ Cardinality(open) \in Nat BY <2>2, <2>3, FS_CardinalityType
  <2> HIDE DEF open, shown
  <2>5. Cardinality(open) >= Cardinality(shown) BY <2>3, <2>4
  <2> QED BY <2>5 DEF open, shown, OpenCount, InStatus
<1>2. ASSUME NEW e \in Engines PROVE Sum(FixPipeline(e, OpenCount(e))) = OpenCount(e)
  BY <1>1, OpenIsCounted, BucketsCover
<1>3. FixPipeline("workflow", OpenCount("workflow")).unfixed
        = Cardinality(Unfixed(ListFindings(FALSE)))
  <2> DEFINE open == {tp \in OverviewRows("workflow") : IsOpen(tp)}
             shown == {tp \in OpenFixed("workflow") : fix[tp[1]] \in Shown}
  <2>1. open \subseteq OverviewRows("workflow") /\ shown \subseteq open BY DEF OpenFixed
  <2>2. ListFindings(FALSE) = open BY SameRows DEF ListFindings
  <2>3. \A tp \in open : Linked(tp) => (fix[tp[1]] \notin RejectedStatuses <=> fix[tp[1]] \in Shown)
    <3> SUFFICES ASSUME NEW tp \in open, Linked(tp)
                 PROVE  fix[tp[1]] \notin RejectedStatuses <=> fix[tp[1]] \in Shown
      OBVIOUS
    <3>1. tp[1] \in Targets /\ tp[2] \in Prints BY <2>1, RowsAreFinite
    <3>2. finding[tp[1]][tp[2]] \in Finding BY <3>1 DEF Typed
    <3>3. finding[tp[1]][tp[2]].linked \in BOOLEAN BY <3>2, FindingFields
    <3>4. finding[tp[1]][tp[2]].linked = TRUE BY <3>3 DEF Linked
    <3>5. fix[tp[1]] \in FixStates /\ fix[tp[1]] # "none" BY <3>1, <3>4 DEF LinkedToFix, Typed
    <3>6. fix[tp[1]] \in FixStatus BY <3>5 DEF FixStates
    <3> QED BY <3>6 DEF FixStatus, RejectedStatuses, Shown, InFlight
  <2>4. Unfixed(open) = open \ shown BY <2>1, <2>3 DEF Unfixed, OpenFixed
  <2>5. IsFiniteSet(open) BY <2>1, RowsAreFinite, FS_Subset
  <2>6. open \cap shown = shown BY <2>1
  <2>7. open = {tp \in OverviewRows("workflow") : IsOpen(tp)} OBVIOUS
  <2>8. OpenCount("workflow") = Cardinality(open) BY DEF OpenCount
  <2>9. InStatus("workflow", Shown) = Cardinality(shown) BY DEF InStatus
  <2>10. IsFiniteSet(shown) BY <2>1, <2>5, FS_Subset
  <2> HIDE DEF open, shown
  <2>11. Cardinality(open \ shown) = Cardinality(open) - Cardinality(shown)
    BY <2>5, <2>6, FS_Difference
  <2>12. Cardinality(open) \in Nat /\ Cardinality(shown) \in Nat
    BY <2>5, <2>10, FS_CardinalityType
  <2>13. Cardinality(open) >= Cardinality(shown) BY <1>1, <2>8, <2>9
  <2>14. AtLeast(Cardinality(open) - Cardinality(shown), 0) = Cardinality(open) - Cardinality(shown)
    BY <2>12, <2>13 DEF AtLeast
  <2>15. FixPipeline("workflow", OpenCount("workflow")).unfixed
           = AtLeast(OpenCount("workflow") - InStatus("workflow", Shown), 0)
    BY PipelineIs
  <2> QED BY <2>2, <2>4, <2>8, <2>9, <2>11, <2>14, <2>15
<1> QED BY <1>2, <1>3 DEF BucketsAgree

-----------------------------------------------------------------------------
(* Scores *)

LEMMA DivBetween ==
    ASSUME NEW x \in Nat, NEW n \in Nat, n > 0, NEW K \in Nat, x <= K * n
    PROVE  (x \div n) \in 0..K
<1>1. PICK q : q = x \div n OBVIOUS
<1>2. q \in Int /\ q * n <= x /\ x < q * n + n BY <1>1
<1>3. q >= 0
  <2>1. ASSUME q <= -1 PROVE FALSE
    <3>1. \A a \in Int, m \in Nat : a <= -1 => a * m <= -m OBVIOUS
    <3>2. q * n <= -n BY <1>2, <2>1, <3>1
    <3>3. q * n \in Int BY <1>2
    <3> QED BY <1>2, <3>2, <3>3
  <2> QED BY <1>2, <2>1
<1>4. q <= K
  <2>1. ASSUME q >= K + 1 PROVE FALSE
    <3>1. \A a, b, m \in Nat : a >= b + 1 => a * m >= b * m + m OBVIOUS
    <3>2. q * n >= K * n + n BY <1>2, <1>3, <2>1, <3>1
    <3>3. q * n \in Int /\ K * n \in Int BY <1>2
    <3> QED BY <1>2, <3>2, <3>3
  <2> QED BY <1>2, <2>1
<1> QED BY <1>1, <1>2, <1>3, <1>4

PenaltyOf(severity, weight) == [v \in DOMAIN weight |-> SeverityPenalty[severity[v]] * weight[v]]

LEMMA PenaltyIs ==
    ASSUME NEW severity, NEW weight, NEW viols \in SUBSET DOMAIN weight, IsFiniteSet(viols)
    PROVE  ComputePenalty(viols, severity, weight) = Total(PenaltyOf(severity, weight), viols)
<1> DEFINE K(k) == k = [s \in SUBSET viols |->
                          IF s = {} THEN 0
                          ELSE SeverityPenalty[severity[CHOOSE x \in s : TRUE]]
                                 * weight[CHOOSE x \in s : TRUE]
                               + k[s \ {CHOOSE x \in s : TRUE}]]
           f == PenaltyOf(severity, weight)
<1>1. ComputePenalty(viols, severity, weight) = (CHOOSE k : K(k))[viols]
  BY DEF ComputePenalty, MapThenSumSet, MapThenFoldSet
<1>2. ASSUME NEW k PROVE K(k) <=> Folds(f, viols, k)
  <2>1. \A s \in SUBSET viols : s # {} =>
          f[First(s)] = SeverityPenalty[severity[First(s)]] * weight[First(s)]
    BY FirstIn DEF PenaltyOf
  <2> HIDE DEF f
  <2> QED BY <2>1 DEF Folds, First
<1> HIDE DEF K, f
<1>3. \E k : K(k) BY <1>2, FoldsExist
<1>4. K(CHOOSE k : K(k)) BY <1>3
<1>5. PICK k : k = CHOOSE j : K(j) OBVIOUS
<1>6. Folds(f, viols, k) BY <1>2, <1>4, <1>5
<1> QED BY <1>1, <1>5, <1>6, SumIs DEF f

LEMMA PenaltyBetween ==
    ASSUME NEW s \in Severities
    PROVE  SeverityPenalty[s] \in 0..20 * Point
<1> DEFINE q == SeverityPenalty[s]
<1>1. Point = 120 /\ Point \div 2 = 60 BY DEF Point
<1>2. CASE s = "critical"
  <2>1. q = 20 * Point BY <1>2 DEF SeverityPenalty
  <2> QED BY <1>1, <2>1
<1>3. CASE s = "high"
  <2>1. q = 10 * Point BY <1>3 DEF SeverityPenalty
  <2> QED BY <1>1, <2>1
<1>4. CASE s = "medium"
  <2>1. q = 5 * Point BY <1>4 DEF SeverityPenalty
  <2> QED BY <1>1, <2>1
<1>5. CASE s = "low"
  <2>1. q = 2 * Point BY <1>5 DEF SeverityPenalty
  <2> QED BY <1>1, <2>1
<1>6. CASE s = "info"
  <2>1. q = Point \div 2 BY <1>6 DEF SeverityPenalty
  <2> QED BY <1>1, <2>1
<1> QED BY <1>2, <1>3, <1>4, <1>5, <1>6 DEF Severities

LEMMA PenaltyNat ==
    ASSUME NEW viols \in SUBSET Prints
    PROVE  ComputePenalty(viols, SeverityOf, Weight) \in Nat
<1>1. IsFiniteSet(viols) BY FiniteAssumption, FS_Subset
<1>2. DOMAIN Weight = Prints BY DEF Weight
<1> DEFINE f == PenaltyOf(SeverityOf, Weight)
<1>3. \A v \in viols : f[v] \in 0..20 * Point
  <2>1. ASSUME NEW v \in viols PROVE f[v] \in 0..20 * Point
    <3>1. v \in Prints OBVIOUS
    <3>2. SeverityOf[v] \in Severities BY <3>1, PrintsAssumption
    <3>3. PICK c \in 0..20 * Point : c = SeverityPenalty[SeverityOf[v]]
      BY <3>2, PenaltyBetween
    <3>4. f[v] = c * 1 BY <1>2, <3>1, <3>3 DEF PenaltyOf, Weight
    <3>5. c \in Int BY DEF Point
    <3>6. c * 1 = c BY <3>5
    <3> HIDE DEF f
    <3> QED BY <3>4, <3>6
  <2> QED BY <2>1
<1>4. 20 * Point \in Nat BY DEF Point
<1>5. ComputePenalty(viols, SeverityOf, Weight) = Total(f, viols) BY <1>1, <1>2, PenaltyIs
<1> HIDE DEF f
<1> QED BY <1>1, <1>3, <1>4, <1>5, TotalBetween

Names == {GroupOf[p] : p \in Prints}

LEMMA NamesFinite == IsFiniteSet(Names)
<1> DEFINE f == [p \in Prints |-> GroupOf[p]]
<1>1. f \in Surjection(Prints, Names) BY DEF Surjection, Names
<1> QED BY <1>1, FiniteAssumption, FS_Surjection

GroupScores(seen) ==
    [g \in Names |-> AtLeast(0, Full - ComputePenalty({p \in seen : GroupOf[p] = g},
                                                      SeverityOf, Weight))]

LEMMA ScoreIs ==
    ASSUME NEW t, NEW seen \in SUBSET Prints
    PROVE  ScoreOf(t, seen) =
             AtLeast(0, (IF Names = {} THEN Full
                         ELSE Total(GroupScores(seen), Names) \div Cardinality(Names))
                        - ComputePenalty({}, SeverityOf, Weight))
<1> DEFINE groups == [g \in Names |-> {p \in seen : GroupOf[p] = g}]
           Cost(viols) == ComputePenalty(viols, SeverityOf, Weight)
           f == GroupScores(seen)
           K(k) == k = [s \in SUBSET Names |->
                          IF s = {} THEN 0
                          ELSE AtLeast(0, Full - Cost(groups[CHOOSE x \in s : TRUE]))
                               + k[s \ {CHOOSE x \in s : TRUE}]]
           sum == (CHOOSE k : K(k))[Names]
           mean == IF Names = {} THEN Full ELSE sum \div Cardinality(Names)
<1>1. ScoreOf(t, seen) = AtLeast(0, mean - Cost({}))
  <2>1. DOMAIN groups = Names OBVIOUS
  <2>2. ScoreOf(t, seen) = ComputeScore({}, groups, SeverityOf, Weight) BY DEF ScoreOf, Names
  <2> QED BY <2>1, <2>2 DEF ComputeScore, MapThenSumSet, MapThenFoldSet
<1>2. \A g \in Names : f[g] = AtLeast(0, Full - Cost(groups[g])) BY DEF GroupScores
<1>3. ASSUME NEW k PROVE K(k) <=> Folds(f, Names, k)
  <2>1. \A s \in SUBSET Names : s # {} =>
          f[First(s)] = AtLeast(0, Full - Cost(groups[First(s)]))
    BY <1>2, FirstIn
  <2> HIDE DEF f, groups
  <2> QED BY <2>1 DEF Folds, First
<1>4. sum = Total(f, Names)
  <2> HIDE DEF K, f
  <2>1. \E k : K(k) BY <1>3, FoldsExist, NamesFinite
  <2>2. PICK k : k = CHOOSE j : K(j) OBVIOUS
  <2>3. Folds(f, Names, k) BY <1>3, <2>1, <2>2
  <2> QED BY <2>2, <2>3, SumIs, NamesFinite
<1> HIDE DEF sum
<1> QED BY <1>1, <1>4

(* A score is never below zero, nor above that of a target without findings. *)
LEMMA ScoreBetween ==
    ASSUME NEW t, NEW seen \in SUBSET Prints
    PROVE  ScoreOf(t, seen) \in 0..Full
<1> DEFINE Cost(viols) == ComputePenalty(viols, SeverityOf, Weight)
           f == GroupScores(seen)
           sum == Total(f, Names)
           mean == IF Names = {} THEN Full ELSE sum \div Cardinality(Names)
<1>0. Full \in Nat BY DEF Full, Point
<1>1. ScoreOf(t, seen) = AtLeast(0, mean - Cost({})) BY ScoreIs
<1>2. \A g \in Names : f[g] \in 0..Full
  <2> SUFFICES ASSUME NEW g \in Names PROVE f[g] \in 0..Full
    OBVIOUS
  <2>1. PICK viols : viols = {p \in seen : GroupOf[p] = g} OBVIOUS
  <2>2. Cost(viols) \in Nat BY <2>1, PenaltyNat
  <2>3. f[g] = AtLeast(0, Full - Cost(viols)) BY <2>1 DEF GroupScores
  <2> HIDE DEF Cost, f
  <2> QED BY <1>0, <2>2, <2>3 DEF AtLeast
<1> HIDE DEF f
<1>3. sum \in Nat /\ sum <= Full * Cardinality(Names)
  BY <1>0, <1>2, NamesFinite, TotalBetween
<1>4. Cardinality(Names) \in Nat /\ (Names # {} => Cardinality(Names) > 0)
  BY NamesFinite, FS_CardinalityType, FS_EmptySet
<1>5. Names # {} => (sum \div Cardinality(Names)) \in 0..Full
  <2> HIDE DEF sum
  <2> QED BY <1>0, <1>3, <1>4, DivBetween
<1> HIDE DEF sum
<1>6. mean \in 0..Full BY <1>0, <1>5
<1>7. Cost({}) \in Nat BY PenaltyNat
<1> HIDE DEF mean, Cost
<1> QED BY <1>0, <1>1, <1>6, <1>7 DEF AtLeast

-----------------------------------------------------------------------------
(* No two scans of a target begin or end together, so that one is the latest *)

Apart(t) ==
    /\ \A i, j \in DOMAIN scan[t] : i # j => /\ scan[t][i].created # scan[t][j].created
                                             /\ scan[t][i].completed # scan[t][j].completed
    /\ \A i \in DOMAIN scan[t] : /\ scan[t][i].created < clock /\ scan[t][i].completed < clock
                                 /\ scan[t][i].created \notin run[t]
    /\ \A r \in run[t] : r < clock

LEMMA ApartKept ==
    ASSUME Typed, NEW t \in Targets, Apart(t), clock' \in Nat, clock <= clock',
           scan'[t] = scan[t], run'[t] = run[t]
    PROVE  Apart(t)'
<1>1. clock \in Nat /\ run[t] \subseteq Nat BY DEF Typed
<1>2. \A i \in DOMAIN scan[t] : scan[t][i].created \in Nat /\ scan[t][i].completed \in Nat
  BY RowFacts
<1>3. \A x \in Nat : x < clock => x < clock' BY <1>1
<1> QED BY <1>1, <1>2, <1>3 DEF Apart

LEMMA BeginApart ==
    ASSUME Typed, NEW t \in Targets, Apart(t), BeginScan(t)
    PROVE  Apart(t)'
<1>1. /\ clock' = clock + 1 /\ scan' = scan /\ clock \in Nat
      /\ run'[t] = run[t] \cup {clock} /\ run[t] \subseteq Nat
  BY DEF BeginScan, Typed
<1>2. \A i \in DOMAIN scan[t] : scan[t][i].created \in Nat /\ scan[t][i].completed \in Nat
  BY RowFacts
<1>3. \A x \in Nat : x < clock => x < clock' /\ x # clock BY <1>1
<1>4. clock < clock' BY <1>1
<1> QED BY <1>1, <1>2, <1>3, <1>4 DEF Apart

LEMMA OverApart ==
    ASSUME Typed, NEW t \in Targets, Apart(t), NEW r \in run[t], NEW row \in ScanRows,
           row.created = r, row.completed = clock, Over(t, r, row)
    PROVE  Apart(t)'
<1>1. /\ clock' = clock + 1 /\ clock \in Nat /\ r \in Nat
      /\ run'[t] = run[t] \ {r} /\ run[t] \subseteq Nat
  BY DEF Over, Typed
<1>2. scan' = [scan EXCEPT ![t] = Append(@, row)] BY DEF Over
<1>3. PICK n : n = Len(scan[t]) + 1 OBVIOUS
<1>4. /\ DOMAIN scan'[t] = DOMAIN scan[t] \cup {n} /\ n \notin DOMAIN scan[t]
      /\ \A i \in DOMAIN scan[t] : scan'[t][i] = scan[t][i]
      /\ scan'[t][n] = row
  BY <1>2, <1>3, AppendedRow
<1>5. \A i \in DOMAIN scan[t] :
        /\ scan[t][i].created \in Nat /\ scan[t][i].completed \in Nat
        /\ scan[t][i].created < clock /\ scan[t][i].completed < clock
        /\ scan[t][i].created # r /\ scan[t][i].created \notin run[t]
  BY RowFacts DEF Apart
<1>6. r < clock BY DEF Apart
<1>7. \A i \in DOMAIN scan'[t] :
        /\ scan'[t][i].created < clock' /\ scan'[t][i].completed < clock'
        /\ scan'[t][i].created \notin run'[t]
  BY <1>1, <1>4, <1>5, <1>6
<1>8. \A i, j \in DOMAIN scan'[t] : i # j => /\ scan'[t][i].created # scan'[t][j].created
                                             /\ scan'[t][i].completed # scan'[t][j].completed
  BY <1>1, <1>4, <1>5 DEF Apart
<1>9. \A s \in run'[t] : s < clock' BY <1>1 DEF Apart
<1> QED BY <1>7, <1>8, <1>9 DEF Apart

CompletedRow(t, r, seen) ==
    [status |-> "completed", score |-> ScoreOf(t, seen), created |-> r, completed |-> clock]

LEMMA CompletedRowTyped ==
    ASSUME Typed, NEW t \in Targets, NEW r \in run[t], NEW seen \in SUBSET Prints
    PROVE  /\ CompletedRow(t, r, seen) \in ScanRows
           /\ CompletedRow(t, r, seen).created = r /\ CompletedRow(t, r, seen).completed = clock
<1>1. ScoreOf(t, seen) \in ScoreSet BY DEF ScoreSet
<1>2. r \in Nat /\ clock \in Nat BY DEF Typed
<1> HIDE DEF ScoreSet
<1> QED BY <1>1, <1>2 DEF CompletedRow, ScanRows

LEMMA ScanningApart ==
    ASSUME Typed, NEW t \in Targets, Apart(t), Scanning(t)
    PROVE  Apart(t)'
<1>1. CASE BeginScan(t) BY <1>1, BeginApart
<1>2. CASE CompleteScan(t)
  <2>1. PICK r \in run[t], seen \in SUBSET Prints : Completes(t, r, seen)
    BY <1>2, CompleteScanIs
  <2>2. Over(t, r, CompletedRow(t, r, seen)) BY <2>1 DEF Completes, CompletedRow
  <2> QED BY <2>2, CompletedRowTyped, OverApart
<1>3. CASE FailScan(t)
  <2>1. PICK r \in run[t] : Over(t, r, FailedRow(r)) BY <1>3, FailScanIs
  <2> QED BY <2>1, FailedRowTyped, OverApart
<1>4. CASE Crash(t)
  <2>1. run'[t] = {} /\ scan' = scan /\ clock' = clock BY <1>4 DEF Crash, Typed
  <2> QED BY <2>1 DEF Apart
<1> QED BY <1>1, <1>2, <1>3, <1>4 DEF Scanning

AllApart == \A t \in Targets : Apart(t)

LEMMA ApartInductive == Inv /\ AllApart /\ [Next]_vars => AllApart'
<1> SUFFICES ASSUME Inv, AllApart, [Next]_vars, NEW t \in Targets PROVE Apart(t)'
  BY DEF AllApart
<1>0. Typed /\ LinkedToFix /\ Apart(t) /\ clock \in Nat BY DEF Inv, Typed, AllApart
<1>1. ASSUME NEW u \in Targets, Scanning(u) PROVE Apart(t)'
  <2>1. CASE t = u BY <1>0, <1>1, <2>1, ScanningApart
  <2>2. CASE t # u BY <1>0, <1>1, <2>2, ScanningElsewhere, ApartKept DEF Undisturbed
  <2> QED BY <2>1, <2>2
<1>2. ASSUME NEW u \in Targets, Settling(u) PROVE Apart(t)'
  BY <1>0, <1>2, SettlingUndisturbs, ApartKept DEF Undisturbed
<1>3. CASE Viewing BY <1>0, <1>3, ViewingStutters, ApartKept
<1>4. CASE UNCHANGED vars BY <1>0, <1>4, ApartKept DEF vars
<1> QED BY <1>1, <1>2, <1>3, <1>4, NextActions

LEMMA ApartStart == Init => AllApart
<1> SUFFICES ASSUME Init, NEW t \in Targets PROVE Apart(t) BY DEF AllApart
<1>1. scan[t] = <<>> /\ run[t] = {} BY DEF Init
<1>2. DOMAIN scan[t] = {} BY <1>1
<1> QED BY <1>1, <1>2 DEF Apart

LEMMA Greatest ==
    ASSUME NEW S, IsFiniteSet(S), S # {}, NEW f, \A x \in S : f[x] \in Int
    PROVE  \E x \in S : \A y \in S : f[y] <= f[x]
<1> DEFINE Tops(u, x) == \A y \in u : f[y] <= f[x]
           B == {u \in SUBSET S : u # {} /\ ~(\E x \in u : Tops(u, x))}
<1> SUFFICES ASSUME B # {} PROVE FALSE
  <2>1. S \notin B => \E x \in S : Tops(S, x) OBVIOUS
  <2> QED BY <2>1
<1>1. B \in SUBSET SUBSET S /\ B # {} OBVIOUS
<1>2. \A u : u \in B <=> u \in SUBSET S /\ u # {} /\ ~(\E x \in u : Tops(u, x)) OBVIOUS
<1> HIDE DEF B
<1>3. PICK u \in B : \A v \in SUBSET u : v # u => v \notin B BY <1>1, Smallest
<1>4. u \in SUBSET S /\ u # {} BY <1>2
<1>5. PICK x \in u : TRUE BY <1>4
<1>6. PICK v : v = u \ {x} OBVIOUS
<1>7. v \in SUBSET u /\ v # u /\ v \in SUBSET S BY <1>4, <1>5, <1>6
<1>8. CASE v = {} BY <1>2, <1>4, <1>5, <1>6, <1>8
<1>9. CASE v # {}
  <2>1. PICK y \in v : Tops(v, y) BY <1>2, <1>3, <1>7, <1>9
  <2>2. f[x] \in Int /\ f[y] \in Int /\ \A z \in v : f[z] \in Int BY <1>4, <1>5, <1>7, <2>1
  <2>3. CASE f[x] <= f[y]
    <3>1. Tops(u, y) BY <1>6, <2>1, <2>3
    <3> QED BY <1>2, <1>7, <2>1, <3>1
  <2>4. CASE f[y] <= f[x]
    <3>1. Tops(u, x) BY <1>6, <2>1, <2>2, <2>4
    <3> QED BY <1>2, <1>5, <3>1
  <2> QED BY <2>2, <2>3, <2>4
<1> QED BY <1>8, <1>9

LEMMA LatestIn ==
    ASSUME Typed, NEW t \in Targets, Apart(t), Completed(t) # {}, NEW b \in BOOLEAN
    PROVE  LatestScan(t, Completed(t), b) \in Completed(t)
<1> DEFINE Leads(i) ==
        \A j \in Completed(t) \ {i} :
            IF b /\ scan[t][i].completed # scan[t][j].completed
            THEN scan[t][i].completed > scan[t][j].completed
            ELSE scan[t][i].created > scan[t][j].created
           at == [i \in DOMAIN scan[t] |-> IF b THEN scan[t][i].completed ELSE scan[t][i].created]
<1>1. \A i \in Completed(t) : /\ i \in DOMAIN scan[t] /\ scan[t][i].created \in Nat
                              /\ scan[t][i].completed \in Nat
  BY RowFacts DEF Completed
<1>2. IsFiniteSet(Completed(t))
  <2>1. IsFiniteSet(1..Len(scan[t])) BY RowFacts, FS_Interval
  <2> QED BY <2>1, RowFacts, FS_Subset DEF Completed
<1>3. \A i \in Completed(t) : at[i] \in Int BY <1>1
<1>4. \A i \in Completed(t) : at[i] = IF b THEN scan[t][i].completed ELSE scan[t][i].created
  BY <1>1
<1> HIDE DEF at
<1>5. PICK i \in Completed(t) : \A j \in Completed(t) : at[j] <= at[i]
  BY <1>2, <1>3, Greatest
<1>6. Leads(i)
  <2> SUFFICES ASSUME NEW j \in Completed(t) \ {i}
               PROVE  IF b /\ scan[t][i].completed # scan[t][j].completed
                      THEN scan[t][i].completed > scan[t][j].completed
                      ELSE scan[t][i].created > scan[t][j].created
    OBVIOUS
  <2>1. /\ scan[t][i].created # scan[t][j].created
        /\ scan[t][i].completed # scan[t][j].completed
    BY <1>1 DEF Apart
  <2>2. CASE b = TRUE BY <1>1, <1>4, <1>5, <2>1, <2>2
  <2>3. CASE b = FALSE BY <1>1, <1>4, <1>5, <2>1, <2>3
  <2> QED BY <2>2, <2>3
<1>7. LatestScan(t, Completed(t), b) = CHOOSE k \in Completed(t) : Leads(k)
  BY DEF LatestScan, LatestOf
<1> HIDE DEF Leads
<1> QED BY <1>6, <1>7

LEMMA ShownScore ==
    ASSUME Typed, NEW t \in Targets, Apart(t), Completed(t) # {}, NEW b \in BOOLEAN
    PROVE  scan[t][LatestScan(t, Completed(t), b)].score \in 0..Full
<1>1. PICK k \in Completed(t) : k = LatestScan(t, Completed(t), b) BY LatestIn
<1>2. scan[t][k] \in ScanRows BY RowFacts DEF Completed
<1>3. scan[t][k].score \in ScoreSet BY <1>2 DEF ScanRows
<1>4. ScoreSet \subseteq 0..Full
  <2>1. 0 \in 0..Full BY DEF Full, Point
  <2> QED BY <2>1, ScoreBetween DEF ScoreSet
<1> QED BY <1>1, <1>3, <1>4

-----------------------------------------------------------------------------
(* The breakdowns of the overview *)

LEMMA Ladder ==
    /\ DOMAIN GradeLadder = 1..8
    /\ \A i, j \in 1..8 : GradeLadder[i] = GradeLadder[j] => i = j
<1>1. DOMAIN GradeLadder = 1..8 BY DEF GradeLadder
<1>2. /\ GradeLadder[1] = "F" /\ GradeLadder[2] = "D" /\ GradeLadder[3] = "C"
      /\ GradeLadder[4] = "B" /\ GradeLadder[5] = "A" /\ GradeLadder[6] = "A+"
      /\ GradeLadder[7] = "A++" /\ GradeLadder[8] = "A+++"
  BY DEF GradeLadder
<1>3. \A i \in 1..8 : i = 1 \/ i = 2 \/ i = 3 \/ i = 4 \/ i = 5 \/ i = 6 \/ i = 7 \/ i = 8
  OBVIOUS
<1> QED BY <1>1, <1>2, <1>3

LEMMA RungIn == ASSUME NEW s \in 0..Full PROVE Rung(s) \in 1..8
<1> DEFINE On(i) == s >= Threshold[i] * Point /\ (i < 8 => s < Threshold[i + 1] * Point)
<1>1. /\ Threshold[1] = 0 /\ Threshold[2] = 40 /\ Threshold[3] = 55 /\ Threshold[4] = 70
      /\ Threshold[5] = 85 /\ Threshold[6] = 90 /\ Threshold[7] = 95 /\ Threshold[8] = 98
  BY DEF Threshold
<1>2. s \in Int /\ s >= 0 BY DEF Full, Point
<1>3. On(1) \/ On(2) \/ On(3) \/ On(4) \/ On(5) \/ On(6) \/ On(7) \/ On(8)
  BY <1>1, <1>2 DEF Point
<1>4. \E i \in 1..8 : On(i) BY <1>3
<1>5. Rung(s) = CHOOSE i \in 1..8 : On(i) BY DEF Rung
<1> HIDE DEF On
<1> QED BY <1>4, <1>5

LEMMA RulesAddUp ==
    ASSUME NEW e
    PROVE  MapThenSumSet(LAMBDA p : TopRules(e)[p], Prints) = OpenCount(e)
<1> DEFINE R == {tp \in OverviewRows(e) : IsOpen(tp)}
           h == [tp \in Targets \X Prints |-> tp[2]]
           n == TopRules(e)
<1>1. IsFiniteSet(R) BY RowsAreFinite, FS_Subset
<1>2. \A tp \in R : tp \in Targets \X Prints /\ h[tp] = tp[2] /\ tp[2] \in Prints
  BY RowsAreFinite
<1>3. ASSUME NEW i \in Prints PROVE n[i] = Cardinality(Fibre(R, h, i))
  <2>1. {tp \in OverviewRows(e) : tp[2] = i /\ IsOpen(tp)} = Fibre(R, h, i)
    BY <1>2 DEF Fibre
  <2>2. n[i] = Cardinality({tp \in OverviewRows(e) : tp[2] = i /\ IsOpen(tp)}) BY DEF TopRules
  <2> QED BY <2>1, <2>2
<1>4. \A tp \in R : h[tp] \in Prints BY <1>2
<1>5. OpenCount(e) = Cardinality(R) BY DEF OpenCount
<1>6. MapThenSumSet(LAMBDA p : TopRules(e)[p], Prints) = Total(n, Prints) BY DEF Total
<1> HIDE DEF R, h, n
<1>7. Total(n, Prints) = Cardinality(R) BY <1>1, <1>3, <1>4, FiniteAssumption, Fibres
<1> QED BY <1>5, <1>6, <1>7 DEF R

LEMMA ScannedFinite ==
    ASSUME NEW e
    PROVE  /\ Scanned(e) \subseteq Targets /\ IsFiniteSet(Scanned(e))
           /\ \A t \in Scanned(e) : Completed(t) # {}
<1>1. Scanned(e) \subseteq Targets BY DEF Scanned, Covered
<1> QED BY <1>1, FiniteAssumption, FS_Subset DEF Scanned

LEMMA GradesAddUp ==
    ASSUME Typed, AllApart, NEW e \in Engines
    PROVE  MapThenSumSet(LAMBDA i : GradeStats(e)[i], DOMAIN GradeLadder) = Coverage(e).scanned
<1> DEFINE R == Scanned(e)
           h == [t \in Targets |-> Rung(LatestScore(e, t))]
           n == GradeStats(e)
<1>1. IsFiniteSet(R) /\ R \subseteq Targets BY ScannedFinite
<1>2. \A t \in R : Rung(LatestScore(e, t)) \in 1..8
  <2> SUFFICES ASSUME NEW t \in R PROVE Rung(LatestScore(e, t)) \in 1..8 OBVIOUS
  <2>1. t \in Targets /\ Completed(t) # {} BY ScannedFinite
  <2>2. Apart(t) BY <2>1 DEF AllApart
  <2>3. ByCompletion(e) \in BOOLEAN BY DEF ByCompletion
  <2>4. LatestScore(e, t) \in 0..Full BY <2>1, <2>2, <2>3, ShownScore DEF LatestScore
  <2> QED BY <2>4, RungIn
<1>3. \A t \in R : h[t] = Rung(LatestScore(e, t)) BY <1>1
<1>4. ASSUME NEW i \in 1..8 PROVE n[i] = Cardinality(Fibre(R, h, i))
  <2>1. \A t \in R : ScoreToGrade(LatestScore(e, t)) = GradeLadder[i] <=> h[t] = i
    BY <1>2, <1>3, Ladder DEF ScoreToGrade
  <2>2. n[i] = Cardinality({t \in Scanned(e) : ScoreToGrade(LatestScore(e, t)) = GradeLadder[i]})
    BY Ladder DEF GradeStats
  <2>3. {t \in Scanned(e) : ScoreToGrade(LatestScore(e, t)) = GradeLadder[i]} = Fibre(R, h, i)
    BY <2>1 DEF Fibre
  <2> QED BY <2>2, <2>3
<1>5. \A t \in R : h[t] \in 1..8 BY <1>2, <1>3
<1>6. Coverage(e).scanned = Cardinality(R) BY DEF Coverage
<1>7. MapThenSumSet(LAMBDA i : GradeStats(e)[i], DOMAIN GradeLadder) = Total(n, 1..8)
  BY Ladder DEF Total
<1>8. IsFiniteSet(1..8)
  <2>1. 1 \in Int /\ 8 \in Int OBVIOUS
  <2> QED BY <2>1, FS_Interval
<1> HIDE DEF R, h, n
<1>9. Total(n, 1..8) = Cardinality(R) BY <1>1, <1>4, <1>5, <1>8, Fibres
<1> QED BY <1>6, <1>7, <1>9 DEF R

LEMMA EnginesAddUp ==
    ASSUME BucketsAgree
    PROVE  Totals.open = MapThenSumSet(LAMBDA e : Sum(FixPipeline(e, OpenCount(e))), Engines)
<1> DEFINE K(k) == k = [s \in SUBSET Engines |->
                          IF s = {} THEN 0
                          ELSE Sum(FixPipeline(CHOOSE x \in s : TRUE,
                                               OpenCount(CHOOSE x \in s : TRUE)))
                               + k[s \ {CHOOSE x \in s : TRUE}]]
           f == [e \in Engines |-> OpenCount(e)]
           sum == MapThenSumSet(LAMBDA e : Sum(FixPipeline(e, OpenCount(e))), Engines)
<1>0. IsFiniteSet(Engines)
  <2>1. IsFiniteSet({"workflow"}) BY FS_Singleton
  <2>2. IsFiniteSet({"workflow"} \cup {"docker"}) BY <2>1, FS_AddElement
  <2>3. Engines = {"workflow"} \cup {"docker"} BY DEF Engines
  <2> QED BY <2>2, <2>3
<1>1. sum = (CHOOSE k : K(k))[Engines] BY DEF MapThenSumSet, MapThenFoldSet
<1>2. ASSUME NEW k PROVE K(k) <=> Folds(f, Engines, k)
  <2>1. \A s \in SUBSET Engines : s # {} =>
          f[First(s)] = Sum(FixPipeline(First(s), OpenCount(First(s))))
    BY FirstIn DEF BucketsAgree
  <2> HIDE DEF f
  <2> QED BY <2>1 DEF Folds, First
<1>3. sum = Total(f, Engines)
  <2> HIDE DEF K, f, sum
  <2>1. \E k : K(k) BY <1>0, <1>2, FoldsExist
  <2>2. PICK k : k = CHOOSE j : K(j) OBVIOUS
  <2>3. Folds(f, Engines, k) BY <1>2, <2>1, <2>2
  <2> QED BY <1>0, <1>1, <2>2, <2>3, SumIs
<1>4. f["workflow"] = OpenCount("workflow") /\ f["docker"] = OpenCount("docker") BY DEF Engines
<1>5. \A e \in Engines : f[e] \in Int
  <2>1. \A e \in Engines : f[e] = OpenCount(e) /\ OpenCount(e) \in Nat BY OpenIsCounted
  <2> HIDE DEF f
  <2> QED BY <2>1
<1> HIDE DEF f, sum
<1>6. PICK d : d = {"docker"} OBVIOUS
<1>7. /\ d \in SUBSET Engines /\ "workflow" \in Engines /\ Engines \ {"workflow"} = d
      /\ d \ {"docker"} = {} /\ "docker" \in d
  BY <1>6 DEF Engines
<1>8. Total(f, Engines) = f["workflow"] + Total(f, d) BY <1>0, <1>5, <1>7, TotalAdd
<1>9. Total(f, d) = f["docker"] + Total(f, {}) BY <1>0, <1>5, <1>7, TotalRemove
<1>10. Total(f, {}) = 0 BY TotalEmpty
<1>11. OpenCount("workflow") \in Nat /\ OpenCount("docker") \in Nat BY OpenIsCounted
<1>12. Totals.open = OpenCount("workflow") + OpenCount("docker") BY DEF Totals
<1>13. Total(f, d) = OpenCount("docker") BY <1>4, <1>9, <1>10, <1>11
<1> QED BY <1>3, <1>4, <1>8, <1>12, <1>13 DEF sum

(* What two pages compute by queries of their own, they agree on: the        *)
(* statistics, the buckets, the rules, the grades and the totals.            *)
THEOREM PagesTellTheSame == Spec => []PagesAgree
<1>1. Init => Inv /\ AllApart BY Start, ApartStart
<1>2. Inv /\ AllApart /\ [Next]_vars => Inv' /\ AllApart' BY Inductive, ApartInductive
<1>3. Inv /\ AllApart => PagesAgree
  <2> SUFFICES ASSUME Inv, AllApart PROVE PagesAgree OBVIOUS
  <2>1. BucketsAgree BY BucketsSplit DEF Inv
  <2>2. BreakdownsAddUp
    BY <2>1, RulesAddUp, GradesAddUp, EnginesAddUp DEF BreakdownsAddUp, Inv
  <2> QED BY <2>1, <2>2, Statistics, Generated, Badges DEF PagesAgree
<1> QED BY <1>1, <1>2, <1>3, PTL DEF Spec

-----------------------------------------------------------------------------
(* The averages *)

(* The scans of the files that are graded do not overlap. *)
FilesOneByOne == \A t \in Slow : EngineOf[t] = "workflow" => t \in Feature

Files == Branch("workflow", FALSE) \ gone

Scored(files) == {t \in files : Completed(t) # {}}

PageScore == [t \in Targets |-> scan[t][LatestCompletedScan(t)].score]

LEMMA AverageIs ==
    ASSUME NEW files \in SUBSET Targets
    PROVE  AverageOf(files) =
             IF Scored(files) = {} THEN <<>>
             ELSE <<Total(PageScore, Scored(files)) \div Cardinality(Scored(files))>>
<1> DEFINE S == Scored(files)
           K(k) == k = [s \in SUBSET S |->
                          IF s = {} THEN 0
                          ELSE scan[CHOOSE x \in s : TRUE]
                                   [LatestCompletedScan(CHOOSE x \in s : TRUE)].score
                               + k[s \ {CHOOSE x \in s : TRUE}]]
           sum == (CHOOSE k : K(k))[S]
<1>0. IsFiniteSet(S) /\ S \subseteq Targets BY FiniteAssumption, FS_Subset DEF Scored
<1>1. AverageOf(files) = IF S = {} THEN <<>> ELSE <<sum \div Cardinality(S)>>
  BY DEF AverageOf, MapThenSumSet, MapThenFoldSet, Scored
<1>2. ASSUME NEW k PROVE K(k) <=> Folds(PageScore, S, k)
  <2>1. \A s \in SUBSET S : s # {} =>
          PageScore[First(s)] = scan[First(s)][LatestCompletedScan(First(s))].score
    BY <1>0, FirstIn DEF PageScore
  <2> HIDE DEF S
  <2> QED BY <2>1 DEF Folds, First
<1>3. sum = Total(PageScore, S)
  <2> HIDE DEF K, S
  <2>1. \E k : K(k) BY <1>0, <1>2, FoldsExist
  <2>2. PICK k : k = CHOOSE j : K(j) OBVIOUS
  <2>3. Folds(PageScore, S, k) BY <1>2, <2>1, <2>2
  <2> QED BY <1>0, <2>2, <2>3, SumIs
<1> HIDE DEF sum
<1> QED BY <1>1, <1>3

LatestScores == [t \in Targets |-> LatestScore("workflow", t)]

LEMMA CoverageIs ==
    Coverage("workflow").average =
      IF Scanned("workflow") = {} THEN <<>>
      ELSE <<Rounded(Total(LatestScores, Scanned("workflow"))
                       \div Cardinality(Scanned("workflow")))>>
<1> DEFINE S == Scanned("workflow")
           K(k) == k = [s \in SUBSET S |->
                          IF s = {} THEN 0
                          ELSE LatestScore("workflow", CHOOSE x \in s : TRUE)
                               + k[s \ {CHOOSE x \in s : TRUE}]]
           sum == (CHOOSE k : K(k))[S]
<1>0. IsFiniteSet(S) /\ S \subseteq Targets BY ScannedFinite
<1>1. Coverage("workflow").average = IF S = {} THEN <<>> ELSE <<Rounded(sum \div Cardinality(S))>>
  BY DEF Coverage, MapThenSumSet, MapThenFoldSet
<1>2. ASSUME NEW k PROVE K(k) <=> Folds(LatestScores, S, k)
  <2>1. \A s \in SUBSET S : s # {} => LatestScores[First(s)] = LatestScore("workflow", First(s))
    BY <1>0, FirstIn DEF LatestScores
  <2> HIDE DEF S
  <2> QED BY <2>1 DEF Folds, First
<1>3. sum = Total(LatestScores, S)
  <2> HIDE DEF K, S
  <2>1. \E k : K(k) BY <1>0, <1>2, FoldsExist
  <2>2. PICK k : k = CHOOSE j : K(j) OBVIOUS
  <2>3. Folds(LatestScores, S, k) BY <1>2, <2>1, <2>2
  <2> QED BY <1>0, <2>2, <2>3, SumIs
<1> HIDE DEF sum
<1> QED BY <1>1, <1>3

LEMMA FilesAre == Files \subseteq Targets /\ Scored(Files) = Scanned("workflow")
BY DEF Files, Branch, Scored, Scanned, Covered

(* The latest scan of a file is the same by creation and by completion. *)
LEMMA SameScore ==
    ASSUME Inv, FilesOneByOne, NEW t \in Scanned("workflow")
    PROVE  PageScore[t] = LatestScores[t]
<1>1. t \in Targets /\ EngineOf[t] = "workflow" /\ t \notin Feature /\ Completed(t) # {}
  BY DEF Scanned, Covered
<1>2. Ordered(t) /\ Typed BY <1>1 DEF FilesOneByOne, Inv
<1>3. PICK k \in Completed(t) : Newest(t, k) BY <1>1, <1>2 DEF Ordered
<1>4. \A b \in BOOLEAN : LatestScan(t, Completed(t), b) = k BY <1>1, <1>2, <1>3, NewestIsLatest
<1>5. ByCompletion("workflow") \in BOOLEAN BY DEF ByCompletion
<1> QED BY <1>1, <1>4, <1>5 DEF PageScore, LatestScores, LatestScore, LatestCompletedScan

LEMMA SameAverage ==
    ASSUME Inv, FilesOneByOne
    PROVE  Coverage("workflow").average =
             IF AverageOf(Files) = <<>> THEN <<>> ELSE <<Rounded(AverageOf(Files)[1])>>
<1> DEFINE S == Scanned("workflow")
<1>1. Scored(Files) = S /\ Files \in SUBSET Targets BY FilesAre
<1>2. IsFiniteSet(S) BY ScannedFinite
<1>3. \A t \in S : PageScore[t] = LatestScores[t] BY SameScore
<1>4. PICK c : c = Coverage("workflow").average OBVIOUS
<1>5. c = IF S = {} THEN <<>>
          ELSE <<Rounded(Total(LatestScores, S) \div Cardinality(S))>>
  BY <1>4, CoverageIs
<1>6. AverageOf(Files) = IF S = {} THEN <<>> ELSE <<Total(PageScore, S) \div Cardinality(S)>>
  BY <1>1, AverageIs
<1> HIDE DEF S
<1>7. Total(PageScore, S) = Total(LatestScores, S) BY <1>2, <1>3, TotalSame
<1>8. CASE S = {}
  <2>1. AverageOf(Files) = <<>> /\ c = <<>> BY <1>5, <1>6, <1>8
  <2> QED BY <1>4, <2>1
<1>9. CASE S # {}
  <2>1. PICK a : a = Total(LatestScores, S) \div Cardinality(S) OBVIOUS
  <2>2. AverageOf(Files) = <<a>> /\ c = <<Rounded(a)>> BY <1>5, <1>6, <1>7, <1>9, <2>1
  <2>3. <<a>> # <<>> /\ <<a>>[1] = a OBVIOUS
  <2> QED BY <1>4, <2>2, <2>3
<1> QED BY <1>8, <1>9

LEMMA AverageBetween ==
    ASSUME Typed, AllApart, AverageOf(Files) # <<>>
    PROVE  AverageOf(Files)[1] \in 0..Full
<1> DEFINE S == Scored(Files)
<1>1. Files \in SUBSET Targets /\ S = Scanned("workflow") BY FilesAre
<1>2. IsFiniteSet(S) BY <1>1, ScannedFinite
<1>3. \A t \in S : PageScore[t] \in 0..Full
  <2> SUFFICES ASSUME NEW t \in S PROVE PageScore[t] \in 0..Full OBVIOUS
  <2>1. t \in Targets /\ Completed(t) # {} BY <1>1 DEF Scored
  <2>2. Apart(t) BY <2>1 DEF AllApart
  <2>3. scan[t][LatestScan(t, Completed(t), FALSE)].score \in 0..Full BY <2>1, <2>2, ShownScore
  <2> QED BY <2>1, <2>3 DEF PageScore, LatestCompletedScan
<1>4. AverageOf(Files) = IF S = {} THEN <<>> ELSE <<Total(PageScore, S) \div Cardinality(S)>>
  BY <1>1, AverageIs
<1> HIDE DEF S
<1>5. S # {} BY <1>4
<1>6. AverageOf(Files)[1] = Total(PageScore, S) \div Cardinality(S) BY <1>4, <1>5
<1>7. Full \in Nat BY DEF Full, Point
<1>8. Total(PageScore, S) \in Nat /\ Total(PageScore, S) <= Full * Cardinality(S)
  BY <1>2, <1>3, <1>7, TotalBetween
<1>9. Cardinality(S) \in Nat /\ Cardinality(S) > 0
  BY <1>2, <1>5, FS_CardinalityType, FS_EmptySet
<1> QED BY <1>6, <1>7, <1>8, <1>9, DivBetween

-----------------------------------------------------------------------------
(* The categories *)

OpenOf(c) ==
    {tp \in {u \in VisibleFindings(FALSE) : ~Muted(u) /\ IsOpen(u)} : CategoryOf[tp[2]] = c}

PenaltyOfCategory(c) ==
    MapThenSumSet(LAMBDA tp : SeverityPenalty[SeverityOf[tp[2]]], OpenOf(c))

LEMMA OpenOfIs ==
    ASSUME NEW c
    PROVE  OpenOf(c) \subseteq Targets \X Prints /\ IsFiniteSet(OpenOf(c))
<1>1. OpenOf(c) \subseteq OverviewRows("workflow") BY SameRows DEF OpenOf
<1> QED BY <1>1, RowsAreFinite, FS_Subset

LEMMA CategoryPenalty ==
    ASSUME NEW c
    PROVE  /\ PenaltyOfCategory(c) \in Nat
           /\ OpenOf(c) = {} => PenaltyOfCategory(c) = 0
<1> DEFINE f == [tp \in Targets \X Prints |-> SeverityPenalty[SeverityOf[tp[2]]]]
           S == OpenOf(c)
           K(k) == k = [s \in SUBSET S |->
                          IF s = {} THEN 0
                          ELSE SeverityPenalty[SeverityOf[(CHOOSE x \in s : TRUE)[2]]]
                               + k[s \ {CHOOSE x \in s : TRUE}]]
           sum == PenaltyOfCategory(c)
<1>0. IsFiniteSet(S) /\ S \subseteq Targets \X Prints BY OpenOfIs
<1>1. sum = (CHOOSE k : K(k))[S] BY DEF PenaltyOfCategory, MapThenSumSet, MapThenFoldSet
<1>2. ASSUME NEW k PROVE K(k) <=> Folds(f, S, k)
  <2>1. \A s \in SUBSET S : s # {} => f[First(s)] = SeverityPenalty[SeverityOf[First(s)[2]]]
    BY <1>0, FirstIn
  <2> HIDE DEF f, S
  <2> QED BY <2>1 DEF Folds, First
<1>3. sum = Total(f, S)
  <2> HIDE DEF K, S, f, sum
  <2>1. \E k : K(k) BY <1>0, <1>2, FoldsExist
  <2>2. PICK k : k = CHOOSE j : K(j) OBVIOUS
  <2>3. Folds(f, S, k) BY <1>2, <2>1, <2>2
  <2> QED BY <1>0, <1>1, <2>2, <2>3, SumIs
<1>4. \A tp \in S : f[tp] \in 0..20 * Point
  <2> SUFFICES ASSUME NEW tp \in S PROVE f[tp] \in 0..20 * Point OBVIOUS
  <2>1. tp \in Targets \X Prints /\ tp[2] \in Prints BY <1>0
  <2>2. SeverityOf[tp[2]] \in Severities BY <2>1, PrintsAssumption
  <2>3. SeverityPenalty[SeverityOf[tp[2]]] \in 0..20 * Point BY <2>2, PenaltyBetween
  <2> QED BY <2>1, <2>3
<1>5. 20 * Point \in Nat BY DEF Point
<1> HIDE DEF f, S, sum
<1>6. Total(f, S) \in Nat BY <1>0, <1>4, <1>5, TotalBetween
<1>7. S = {} => Total(f, S) = 0 BY TotalEmpty
<1> QED BY <1>3, <1>6, <1>7 DEF S, sum

LEMMA CategoryScoresAre ==
    ASSUME AverageOf(Files) # <<>>, NEW c \in Categories
    PROVE  \E total \in Nat :
             CategoryScores[1][c] =
               Clamped((5 * AverageOf(Files)[1] - (5 * PenaltyOfCategory(c) - total)) \div 5)
<1> DEFINE penalty == [energy |-> PenaltyOfCategory("energy"),
                       reliability |-> PenaltyOfCategory("reliability"),
                       security |-> PenaltyOfCategory("security"),
                       performance |-> PenaltyOfCategory("performance"),
                       maintainability |-> PenaltyOfCategory("maintainability")]
           total == penalty["energy"] + penalty["reliability"] + penalty["security"]
                    + penalty["performance"] + penalty["maintainability"]
           a == AverageOf(Files)[1]
<1>1. CategoryScores =
        <<[x \in Categories |-> Clamped(ComputeCategoryScore(a, penalty, x) \div 5)]>>
  BY DEF CategoryScores, Files, OpenOf, PenaltyOfCategory
<1>2. \A x : PenaltyOfCategory(x) \in Nat BY CategoryPenalty
<1>3. total \in Nat BY <1>2
<1>4. penalty[c] = PenaltyOfCategory(c) BY DEF Categories
<1>5. ComputeCategoryScore(a, penalty, c) = 5 * a - (5 * penalty[c] - total)
  BY DEF ComputeCategoryScore
<1> HIDE DEF penalty, total, a
<1>6. CategoryScores[1][c] = Clamped(ComputeCategoryScore(a, penalty, c) \div 5) BY <1>1
<1> QED BY <1>3, <1>4, <1>5, <1>6 DEF a

LEMMA QuietCategory ==
    ASSUME Typed, AllApart, CategoryScores # <<>>, NEW c \in Categories,
           GetFindingStats[c].open = 0
    PROVE  CategoryScores[1][c] >= AverageOf(Files)[1]
<1>1. AverageOf(Files) # <<>> BY DEF CategoryScores, Files
<1>2. OpenOf(c) = {}
  <2>1. GetFindingStats[c].open = Cardinality(OpenOf(c))
    <3> DEFINE seen == {tp \in VisibleFindings(FALSE) : ~Muted(tp)}
    <3>1. GetFindingStats[c] = Count(seen, c) BY DEF GetFindingStats
    <3>2. {tp \in {u \in seen : CategoryOf[u[2]] = c} : IsOpen(tp)} = OpenOf(c) BY DEF OpenOf
    <3>3. Count(seen, c).open =
            Cardinality({tp \in {u \in seen : CategoryOf[u[2]] = c} : IsOpen(tp)})
      BY DEF Count
    <3> QED BY <3>1, <3>2, <3>3
  <2> QED BY <2>1, OpenOfIs, FS_EmptySet
<1>3. PICK total \in Nat :
        CategoryScores[1][c] =
          Clamped((5 * AverageOf(Files)[1] - (5 * PenaltyOfCategory(c) - total)) \div 5)
  BY <1>1, CategoryScoresAre
<1>4. PenaltyOfCategory(c) = 0 BY <1>2, CategoryPenalty
<1>5. PICK a \in 0..Full : a = AverageOf(Files)[1] BY <1>1, AverageBetween
<1>6. Full \in Nat /\ a \in Nat /\ a <= Full
  <2> DEFINE F == Full
  <2>1. F \in Nat BY DEF Full, Point
  <2> HIDE DEF F
  <2>2. \A x \in 0..F : x \in Nat /\ x <= F BY <2>1
  <2>3. a \in 0..F BY <1>5 DEF F
  <2>4. F \in Nat /\ a \in Nat /\ a <= F BY <2>1, <2>2, <2>3
  <2> QED BY <2>4 DEF F
<1>7. PICK q : q = (5 * a - (5 * 0 - total)) \div 5 OBVIOUS
<1>8. q \in Int /\ q >= a BY <1>6, <1>7
<1>9. CategoryScores[1][c] = Clamped(q) BY <1>3, <1>4, <1>5, <1>7
<1> QED BY <1>5, <1>6, <1>8, <1>9 DEF Clamped, AtLeast

(* As long as no two scans of a file on the default branch overlap, the      *)
(* overview and the list of repositories give the workflow files the same    *)
(* score and grade, and a category with nothing open in it never scores      *)
(* below the repository.                                                     *)
THEOREM ScoresTellTheSame == ASSUME FilesOneByOne PROVE Spec => []ScoresAgree
<1>1. Init => Inv /\ AllApart BY Start, ApartStart
<1>2. Inv /\ AllApart /\ [Next]_vars => Inv' /\ AllApart' BY Inductive, ApartInductive
<1>3. Inv /\ AllApart => ScoresAgree
  <2> SUFFICES ASSUME Inv, AllApart PROVE ScoresAgree OBVIOUS
  <2>1. Coverage("workflow").average =
          IF AverageOf(Files) = <<>> THEN <<>> ELSE <<Rounded(AverageOf(Files)[1])>>
    BY SameAverage
  <2>2. GradeOf(Coverage("workflow").average) = ListGrade
    <3>1. ListGrade = IF AverageOf(Files) = <<>> THEN "-"
                      ELSE ScoreToGrade(Rounded(AverageOf(Files)[1]))
      BY DEF ListGrade, Files
    <3>2. PICK c, r : c = Coverage("workflow").average /\ r = Rounded(AverageOf(Files)[1]) OBVIOUS
    <3>3. <<r>> # <<>> /\ <<r>>[1] = r OBVIOUS
    <3>4. c = IF AverageOf(Files) = <<>> THEN <<>> ELSE <<r>> BY <2>1, <3>2
    <3> QED BY <3>1, <3>2, <3>3, <3>4 DEF GradeOf
  <2>3. CategoryScores # <<>> =>
          \A c \in Categories :
            GetFindingStats[c].open = 0 => CategoryScores[1][c] >= AverageOf(Files)[1]
    BY QuietCategory DEF Inv
  <2> QED BY <2>1, <2>2, <2>3 DEF ScoresAgree, Files
<1> QED BY <1>1, <1>2, <1>3, PTL DEF Spec

-----------------------------------------------------------------------------
(* The types of the rest *)

Rest ==
    /\ gone \in SUBSET Targets /\ ops \in 0..MaxOps
    /\ clock # 0 /\ \A t \in Targets : 0 \notin run[t]

LEMMA RestStart == Init => Rest
BY EventsAssumption DEF Init, Rest

LEMMA CountedTyped ==
    ASSUME Rest, NEW kind, Counted(kind)
    PROVE  ops' \in 0..MaxOps
BY EventsAssumption DEF Rest, Counted

LEMMA RestStep == Inv /\ Rest /\ [Next]_vars => Rest'
<1> SUFFICES ASSUME Inv, Rest, [Next]_vars PROVE Rest' OBVIOUS
<1>0. clock \in Nat /\ run \in [Targets -> SUBSET Nat] BY DEF Inv, Typed
<1>1. ops' \in 0..MaxOps
  <2>1. ops' = ops \/ \E kind \in OpKinds : Counted(kind)
    BY DEF Next, BeginScan, CompleteScan, FailScan, ResolveStale, Crash, GenerateFix, MoveFix,
           RemoveFile, Mute, ReadFindings, ReadPipeline, Answer, vars, OpKinds
  <2> QED BY <2>1, CountedTyped DEF Rest
<1>2. gone' \in SUBSET Targets
  <2>1. gone' = gone \/ \E t \in Targets : gone' = gone \cup {t}
    BY DEF Next, BeginScan, CompleteScan, FailScan, ResolveStale, Crash, GenerateFix, MoveFix,
           RemoveFile, Mute, ReadFindings, ReadPipeline, Answer, vars
  <2> QED BY <2>1 DEF Rest
<1>3. clock' # 0 /\ \A t \in Targets : 0 \notin run'[t]
  <2>1. CASE clock' = clock /\ run' = run BY <2>1 DEF Rest
  <2>2. ASSUME NEW t \in Targets, BeginScan(t)
        PROVE  clock' # 0 /\ \A u \in Targets : 0 \notin run'[u]
    <3>1. clock' = clock + 1 /\ run' = [run EXCEPT ![t] = @ \cup {clock}]
      BY <2>2 DEF BeginScan
    <3> QED BY <1>0, <3>1 DEF Rest
  <2>3. ASSUME NEW t \in Targets, CompleteScan(t) \/ FailScan(t)
        PROVE  clock' # 0 /\ \A u \in Targets : 0 \notin run'[u]
    <3>1. clock' = clock + 1 /\ \E r : run' = [run EXCEPT ![t] = @ \ {r}]
      BY <2>3 DEF CompleteScan, FailScan, Over
    <3> QED BY <1>0, <3>1 DEF Rest
  <2>4. ASSUME NEW t \in Targets, Crash(t)
        PROVE  clock' # 0 /\ \A u \in Targets : 0 \notin run'[u]
    <3>1. clock' = clock /\ run' = [run EXCEPT ![t] = {}] BY <2>4 DEF Crash
    <3> QED BY <1>0, <3>1 DEF Rest
  <2> QED BY <2>1, <2>2, <2>3, <2>4 DEF Next, ResolveStale, GenerateFix, MoveFix, RemoveFile,
              Mute, ReadFindings, ReadPipeline, Answer, vars
<1> QED BY <1>1, <1>2, <1>3 DEF Rest

(* Every variable has its type: a score is never negative, an event of the   *)
(* fix machine leaves a fix in one of its statuses, and a finding keeps its  *)
(* status column within its four values, whichever engine writes it.         *)
THEOREM DashboardTypes == Spec => []TypeOK
<1>1. ASSUME Inv, AllApart, Rest PROVE TypeOK
  <2>0. Typed BY <1>1 DEF Inv
  <2>1. ASSUME NEW t \in Targets
        PROVE  /\ \A i \in DOMAIN scan[t] : scan[t][i] \in ScanRow
               /\ run[t] \subseteq 1 .. clock
    <3>1. ASSUME NEW i \in DOMAIN scan[t] PROVE scan[t][i] \in ScanRow
      <4>1. scan[t][i] \in ScanRows BY <2>0, RowFacts
      <4>2. ScoreSet \subseteq Nat
        <5>1. \A s \in 0..Full : s \in Nat OBVIOUS
        <5>2. \A u \in Targets, seen \in SUBSET Prints : ScoreOf(u, seen) \in Nat
          BY <5>1, ScoreBetween
        <5> QED BY <5>2 DEF ScoreSet
      <4> HIDE DEF ScoreSet
      <4> QED BY <4>1, <4>2 DEF ScanRows, ScanRow
    <3>2. run[t] \subseteq Nat /\ clock \in Nat /\ (\A r \in run[t] : r < clock) /\ 0 \notin run[t]
      BY <1>1, <2>0 DEF Typed, AllApart, Apart, Rest
    <3> QED BY <3>1, <3>2
  <2> QED BY <1>1, <2>0, <2>1 DEF Typed, FixStates, Rest, TypeOK
<1>2. Inv /\ AllApart /\ Rest => TypeOK BY <1>1
<1>3. Init => Inv BY Start
<1> QED BY <1>2, <1>3, Inductive, ApartStart, ApartInductive, RestStart, RestStep, PTL DEF Spec
-----------------------------------------------------------------------------
(* More findings, no better score *)

LEMMA TotalLess ==
    ASSUME NEW f, NEW g, NEW S, IsFiniteSet(S),
           \A x \in S : f[x] \in Int /\ g[x] \in Int /\ f[x] <= g[x]
    PROVE  Total(f, S) <= Total(g, S)
<1> DEFINE B == {u \in SUBSET S : ~(Total(f, u) <= Total(g, u))}
<1> SUFFICES ASSUME B # {} PROVE FALSE OBVIOUS
<1>1. B \in SUBSET SUBSET S /\ B # {} OBVIOUS
<1>2. \A u : u \in B <=> u \in SUBSET S /\ ~(Total(f, u) <= Total(g, u)) OBVIOUS
<1> HIDE DEF B
<1>3. PICK u \in B : \A v \in SUBSET u : v # u => v \notin B BY <1>1, Smallest
<1>4. u \in SUBSET S /\ IsFiniteSet(u) BY <1>2, FS_Subset
<1>5. u # {}
  <2>1. Total(f, {}) = 0 /\ Total(g, {}) = 0 BY TotalEmpty
  <2>2. Total(f, {}) <= Total(g, {}) BY <2>1
  <2> QED BY <1>2, <2>2
<1>6. PICK x, v : x = First(u) /\ v = u \ {x} OBVIOUS
<1>7. x \in u BY <1>5, <1>6, FirstIn
<1>8. v \in SUBSET u /\ v # u /\ v \in SUBSET S BY <1>4, <1>6, <1>7
<1>9. Total(f, v) <= Total(g, v) BY <1>2, <1>3, <1>8
<1>10. Total(f, u) = f[x] + Total(f, v) BY <1>4, <1>5, <1>6, TotalStep
<1>11. Total(g, u) = g[x] + Total(g, v) BY <1>4, <1>5, <1>6, TotalStep
<1>12. f[x] \in Int /\ g[x] \in Int /\ f[x] <= g[x] BY <1>4, <1>7
<1>13. Total(f, v) \in Int /\ Total(g, v) \in Int
  <2>1. \A y \in S : f[y] \in Int OBVIOUS
  <2>2. \A y \in S : g[y] \in Int OBVIOUS
  <2> QED BY <1>8, <2>1, <2>2, TotalInt
<1>14. Total(f, u) <= Total(g, u) BY <1>9, <1>10, <1>11, <1>12, <1>13
<1> QED BY <1>2, <1>14

LEMMA TotalPart ==
    ASSUME NEW f, NEW S, IsFiniteSet(S), \A x \in S : f[x] \in Nat, NEW T \in SUBSET S
    PROVE  Total(f, T) <= Total(f, S)
<1> DEFINE h == [x \in S |-> IF x \in T THEN f[x] ELSE 0]
           B == {u \in SUBSET S : Total(h, u) # Total(f, u \cap T)}
<1>1. B = {}
  <2> SUFFICES ASSUME B # {} PROVE FALSE OBVIOUS
  <2>1. B \in SUBSET SUBSET S /\ B # {} OBVIOUS
  <2>2. \A u : u \in B <=> u \in SUBSET S /\ Total(h, u) # Total(f, u \cap T) OBVIOUS
  <2>3. \A x \in S : h[x] = IF x \in T THEN f[x] ELSE 0 OBVIOUS
  <2> HIDE DEF B, h
  <2>4. PICK u \in B : \A v \in SUBSET u : v # u => v \notin B BY <2>1, Smallest
  <2>5. u \in SUBSET S /\ IsFiniteSet(u) BY <2>2, FS_Subset
  <2>6. u # {}
    <3>1. {} \cap T = {} OBVIOUS
    <3> QED BY <2>2, <3>1, TotalEmpty
  <2>7. PICK x, v : x = First(u) /\ v = u \ {x} OBVIOUS
  <2>8. x \in u /\ x \in S BY <2>5, <2>6, <2>7, FirstIn
  <2>9. v \in SUBSET u /\ v # u /\ v \in SUBSET S BY <2>5, <2>7, <2>8
  <2>10. Total(h, v) = Total(f, v \cap T) BY <2>2, <2>4, <2>9
  <2>11. Total(h, u) = h[x] + Total(h, v) BY <2>5, <2>6, <2>7, TotalStep
  <2>12. Total(f, v \cap T) \in Int
    <3>1. v \cap T \in SUBSET S /\ \A y \in S : f[y] \in Int BY <2>9
    <3> QED BY <3>1, TotalInt
  <2>13. CASE x \in T
    <3>1. PICK w : w = u \cap T OBVIOUS
    <3>2. w \in SUBSET S /\ IsFiniteSet(w) /\ x \in w /\ w \ {x} = v \cap T
      BY <2>5, <2>7, <2>8, <2>13, <3>1, FS_Subset
    <3>3. \A y \in w : f[y] \in Int BY <3>2
    <3>4. Total(f, w) = f[x] + Total(f, w \ {x}) BY <3>2, <3>3, TotalAdd
    <3> QED BY <2>2, <2>3, <2>4, <2>8, <2>10, <2>11, <2>13, <3>1, <3>2, <3>4
  <2>14. CASE x \notin T
    <3>1. u \cap T = v \cap T BY <2>7, <2>14
    <3> QED BY <2>2, <2>3, <2>4, <2>8, <2>10, <2>11, <2>12, <2>14, <3>1
  <2> QED BY <2>13, <2>14
<1>2. Total(h, S) = Total(f, T)
  <2>1. S \notin B BY <1>1
  <2>2. S \cap T = T OBVIOUS
  <2>3. Total(h, S) = Total(f, S \cap T) BY <2>1
  <2> QED BY <2>2, <2>3
<1>3. \A x \in S : h[x] \in Int /\ f[x] \in Int /\ h[x] <= f[x] OBVIOUS
<1> HIDE DEF h
<1>4. Total(h, S) <= Total(f, S) BY <1>3, TotalLess
<1> QED BY <1>2, <1>4

LEMMA PenaltyGrows ==
    ASSUME NEW more \in SUBSET Prints, NEW viols \in SUBSET more
    PROVE  ComputePenalty(viols, SeverityOf, Weight) <= ComputePenalty(more, SeverityOf, Weight)
<1>1. IsFiniteSet(more) /\ IsFiniteSet(viols) BY FiniteAssumption, FS_Subset
<1>2. DOMAIN Weight = Prints BY DEF Weight
<1> DEFINE f == PenaltyOf(SeverityOf, Weight)
<1>3. \A v \in more : f[v] \in Nat
  <2> SUFFICES ASSUME NEW v \in more PROVE f[v] \in Nat
    OBVIOUS
  <2>1. v \in Prints OBVIOUS
  <2>2. SeverityOf[v] \in Severities BY <2>1, PrintsAssumption
  <2>3. PICK c \in 0..20 * Point : c = SeverityPenalty[SeverityOf[v]]
    BY <2>2, PenaltyBetween
  <2>4. f[v] = c * 1 BY <1>2, <2>1, <2>3 DEF PenaltyOf, Weight
  <2>5. c \in Nat BY DEF Point
  <2>6. c * 1 = c BY <2>5
  <2> HIDE DEF f
  <2> QED BY <2>4, <2>5, <2>6
<1>4. ComputePenalty(viols, SeverityOf, Weight) = Total(f, viols)
  BY <1>1, <1>2, PenaltyIs
<1>5. ComputePenalty(more, SeverityOf, Weight) = Total(f, more)
  BY <1>1, <1>2, PenaltyIs
<1> HIDE DEF f
<1> QED BY <1>1, <1>3, <1>4, <1>5, TotalPart

LEMMA DivGrows ==
    ASSUME NEW x \in Nat, NEW y \in Nat, x <= y, NEW n \in Nat, n > 0
    PROVE  x \div n <= y \div n
<1>1. PICK q, r : q = x \div n /\ r = y \div n OBVIOUS
<1>2. q \in Int /\ q * n <= x /\ x < q * n + n BY <1>1
<1>3. r \in Int /\ r * n <= y /\ y < r * n + n BY <1>1
<1>4. ASSUME q >= r + 1 PROVE FALSE
  <2>1. \A a, b \in Int, m \in Nat : a >= b + 1 => a * m >= b * m + m OBVIOUS
  <2>2. q * n >= r * n + n BY <1>2, <1>3, <1>4, <2>1
  <2>3. q * n \in Int /\ r * n \in Int BY <1>2, <1>3
  <2> QED BY <1>2, <1>3, <2>2, <2>3
<1> QED BY <1>1, <1>2, <1>3, <1>4

LEMMA MoreCostMore ==
    ASSUME NEW t, NEW more \in SUBSET Prints, NEW seen \in SUBSET more
    PROVE  ScoreOf(t, more) <= ScoreOf(t, seen)
<1> DEFINE Cost(viols) == ComputePenalty(viols, SeverityOf, Weight)
           n == Cardinality(Names)
           f == GroupScores(seen)
           g == GroupScores(more)
<1>0. Full \in Nat /\ seen \in SUBSET Prints BY DEF Full, Point
<1>1. \A x \in Names : f[x] \in 0..Full /\ g[x] \in 0..Full /\ g[x] <= f[x]
  <2> SUFFICES ASSUME NEW x \in Names
               PROVE  f[x] \in 0..Full /\ g[x] \in 0..Full /\ g[x] <= f[x]
    OBVIOUS
  <2>1. PICK few, many : /\ few = {p \in seen : GroupOf[p] = x}
                         /\ many = {p \in more : GroupOf[p] = x}
    OBVIOUS
  <2>2. many \in SUBSET Prints /\ few \in SUBSET many BY <2>1
  <2>3. Cost(few) \in Nat /\ Cost(many) \in Nat /\ Cost(few) <= Cost(many)
    BY <2>2, PenaltyNat, PenaltyGrows
  <2>4. f[x] = AtLeast(0, Full - Cost(few)) /\ g[x] = AtLeast(0, Full - Cost(many))
    BY <2>1 DEF GroupScores
  <2> HIDE DEF Cost, f, g
  <2> QED BY <1>0, <2>3, <2>4 DEF AtLeast
<1> HIDE DEF f, g
<1>2. Total(g, Names) <= Total(f, Names)
  <2>1. \A x \in Names : g[x] \in Int /\ f[x] \in Int /\ g[x] <= f[x] BY <1>1
  <2> QED BY <2>1, NamesFinite, TotalLess
<1>3. Total(g, Names) \in Nat /\ Total(f, Names) \in Nat
  BY <1>0, <1>1, NamesFinite, TotalBetween
<1>4. n \in Nat /\ (Names # {} => n > 0)
  BY NamesFinite, FS_CardinalityType, FS_EmptySet
<1>5. Names # {} => Total(g, Names) \div n <= Total(f, Names) \div n
  BY <1>2, <1>3, <1>4, DivGrows
<1>6. PICK a, b : /\ a = IF Names = {} THEN Full ELSE Total(f, Names) \div n
                  /\ b = IF Names = {} THEN Full ELSE Total(g, Names) \div n
  OBVIOUS
<1>7. a \in Int /\ b \in Int /\ b <= a BY <1>0, <1>3, <1>4, <1>5, <1>6
<1>8. Cost({}) \in Nat BY PenaltyNat
<1>9. ScoreOf(t, seen) = AtLeast(0, a - Cost({})) BY <1>0, <1>6, ScoreIs DEF f
<1>10. ScoreOf(t, more) = AtLeast(0, b - Cost({})) BY <1>6, ScoreIs DEF g
<1> HIDE DEF Cost
<1> QED BY <1>7, <1>8, <1>9, <1>10 DEF AtLeast

LEMMA RungOn ==
    ASSUME NEW s \in 0..Full
    PROVE  /\ s >= Threshold[Rung(s)] * Point
           /\ Rung(s) < 8 => s < Threshold[Rung(s) + 1] * Point
<1> DEFINE On(i) == s >= Threshold[i] * Point /\ (i < 8 => s < Threshold[i + 1] * Point)
<1>1. /\ Threshold[1] = 0 /\ Threshold[2] = 40 /\ Threshold[3] = 55 /\ Threshold[4] = 70
      /\ Threshold[5] = 85 /\ Threshold[6] = 90 /\ Threshold[7] = 95 /\ Threshold[8] = 98
  BY DEF Threshold
<1>2. s \in Int /\ s >= 0 BY DEF Full, Point
<1>3. On(1) \/ On(2) \/ On(3) \/ On(4) \/ On(5) \/ On(6) \/ On(7) \/ On(8)
  BY <1>1, <1>2 DEF Point
<1>4. \E i \in 1..8 : On(i) BY <1>3
<1>5. Rung(s) = CHOOSE i \in 1..8 : On(i) BY DEF Rung
<1>6. On(Rung(s))
  <2> HIDE DEF On
  <2> QED BY <1>4, <1>5
<1> QED BY <1>6

LEMMA RungGrows ==
    ASSUME NEW low \in 0..Full, NEW high \in 0..Full, low <= high
    PROVE  Rung(low) <= Rung(high)
<1>0. low \in Int /\ high \in Int /\ Full \in Nat BY DEF Full, Point
<1>1. /\ Threshold[1] = 0 /\ Threshold[2] = 40 /\ Threshold[3] = 55 /\ Threshold[4] = 70
      /\ Threshold[5] = 85 /\ Threshold[6] = 90 /\ Threshold[7] = 95 /\ Threshold[8] = 98
  BY DEF Threshold
<1>2. PICK i \in 1..8, j \in 1..8 : i = Rung(low) /\ j = Rung(high) BY RungIn
<1>3. low >= Threshold[i] * Point BY <1>2, RungOn
<1>4. j < 8 => high < Threshold[j + 1] * Point BY <1>2, RungOn
<1>5. \A k, m \in 1..8 : k <= m => Threshold[k] <= Threshold[m] BY <1>1
<1>6. \A k \in 1..8 : Threshold[k] \in Nat BY <1>1
<1>7. ASSUME j + 1 <= i PROVE FALSE
  <2>1. j < 8 /\ j + 1 \in 1..8 BY <1>2, <1>7
  <2>2. Threshold[j + 1] <= Threshold[i] BY <1>2, <1>5, <1>7, <2>1
  <2>3. PICK a \in Nat, b \in Nat : a = Threshold[j + 1] /\ b = Threshold[i] BY <1>6, <2>1
  <2>4. high < a * 120 /\ low >= b * 120 /\ a <= b BY <1>3, <1>4, <2>1, <2>2, <2>3 DEF Point
  <2> QED BY <1>0, <2>4
<1> QED BY <1>2, <1>7

(* A finding more never gives a better score or a better grade, and one     *)
(* less, fixed or removed, never a worse one, whatever the group it is in   *)
(* and although the mean is rounded down (scoring.compute_score,            *)
(* score_to_grade).                                                         *)
THEOREM FewerNeverWorse ==
    ASSUME NEW t, NEW more \in SUBSET Prints, NEW seen \in SUBSET more
    PROVE  /\ ScoreOf(t, more) <= ScoreOf(t, seen)
           /\ Rung(ScoreOf(t, more)) <= Rung(ScoreOf(t, seen))
<1>1. ScoreOf(t, more) <= ScoreOf(t, seen) BY MoreCostMore
<1>2. ScoreOf(t, more) \in 0..Full /\ ScoreOf(t, seen) \in 0..Full BY ScoreBetween
<1>3. Rung(ScoreOf(t, more)) <= Rung(ScoreOf(t, seen)) BY <1>1, <1>2, RungGrows
<1> QED BY <1>1, <1>3
=============================================================================
