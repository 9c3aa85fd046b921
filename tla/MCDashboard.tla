---------------------------- MODULE MCDashboard ----------------------------
(* Small instances of Dashboard for TLC. *)
EXTENDS Dashboard, TLC

CONSTANTS w, v, d, p, q

Engine3 == (w :> "workflow") @@ (v :> "workflow") @@ (d :> "docker")

SeverityPQ == (p :> "critical") @@ (q :> "high")

CategoryPQ == (p :> "security") @@ (q :> "energy")

GroupPQ == (p :> "one") @@ (q :> "two")
=============================================================================
