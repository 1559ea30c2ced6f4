----------------------------- MODULE HealthSpec -----------------------------
(***************************************************************************)
(* What HealthState promises for one target: it is ejected by              *)
(* UnhealthyThreshold consecutive failures and readmitted by               *)
(* HealthyThreshold consecutive successes, an observation being one        *)
(* indivisible step (observe's comment, crates/gatepup-proxy/src/          *)
(* health.rs).  Health.tla is the detailed machine.                        *)
(***************************************************************************)
EXTENDS Naturals

CONSTANTS HealthyThreshold, UnhealthyThreshold

VARIABLES healthy, run   \* the flag, and the current run of equal outcomes

\* Lengths beyond both thresholds are alike.
Longest == IF HealthyThreshold > UnhealthyThreshold
           THEN HealthyThreshold ELSE UnhealthyThreshold

Extend(r, ok) ==
    [ok |-> ok, n |-> IF r.ok # ok THEN 1 ELSE IF r.n < Longest THEN r.n + 1 ELSE Longest]

Decides(r) == r.n >= IF r.ok THEN HealthyThreshold ELSE UnhealthyThreshold

Init == healthy = TRUE /\ run = [ok |-> TRUE, n |-> 0]

Observe(ok) ==
    /\ run' = Extend(run, ok)
    /\ healthy' = IF Decides(run') THEN ok ELSE healthy

Next == \E ok \in BOOLEAN : Observe(ok)

Spec == Init /\ [][Next]_<<healthy, run>>
=============================================================================
